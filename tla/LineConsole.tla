----------------------------- MODULE LineConsole -----------------------------
(***************************************************************************)
(* The line-mode console of crates/cpg-tui/src/plain.rs and the signals of *)
(* crates/cpg-windows/src/console.rs: the control handler latches Ctrl+C   *)
(* and close in two process-wide bits, wait_with_controls hands them to    *)
(* the running operation, and the command prompt throws an idle Ctrl+C     *)
(* away.                                                                   *)
(***************************************************************************)
EXTENDS SessionClient

CONSTANT MaxSignals   \* bound on the signals delivered

ASSUME LineAssumption == MaxSignals \in Nat

VARIABLES
  line,       \* where interact is; "off" before run and "left" after it
  flags,      \* SIGNAL_FLAGS
  signals,    \* the signals delivered so far
  stray,      \* the latched Ctrl+C was typed at a prompt, no operation in hand
  asking,     \* what the YES prompt is about
  shown,      \* the proposal it was printed for
  reported    \* reported_launch, reported_mutation

console == <<line, flags, signals, stray, asking, shown, reported>>

Unreported == [launch |-> 0, mutation |-> 0]

LineInit(place) ==
  /\ line = place /\ flags = {} /\ signals = 0 /\ stray = FALSE
  /\ asking = "none" /\ shown = 0 /\ reported = Unreported

Goto(from, to) == line = from /\ line' = to
Inputs == UNCHANGED <<flags, signals, stray>>
Prompts == UNCHANGED <<asking, shown, reported>>

------------------------------------------------------------------------------
(* handler, take_cancel and take_close.                                    *)

\* Where a line is read.
Reads == {"prompt", "host", "port", "yes"}

Signal ==
  /\ line \notin {"off", "left"} /\ signals < MaxSignals /\ signals' = signals + 1
  /\ \E bits \in {{"cancel"}, {"cancel", "close"}} :
       /\ flags' = flags \cup bits
       /\ stray' = (bits = {"cancel"} /\ line \in Reads /\ ("cancel" \in flags => stray))
  /\ UNCHANGED <<session, line>> /\ Prompts

Consume(bit) ==
  /\ flags' = flags \ {bit} /\ stray' = (stray /\ bit # "cancel")
  /\ UNCHANGED signals

------------------------------------------------------------------------------
(* wait_with_controls.                                                     *)

\* The refresh that opens the console leaves no outcome to print.
WaitOver ==
  /\ ~Busy /\ Goto("wait", "report")
  /\ UNCHANGED session /\ Inputs /\ Prompts

\* Mutant: only a closed window is handed to the operation.
IgnoreCancel ==
  Busy /\ Goto("wait", "close") /\ UNCHANGED session /\ Inputs /\ Prompts

\* take_cancel reads the bits and clears its own in a second step.
LoadCancel ==
  /\ Busy /\ Goto("wait", IF "cancel" \in flags THEN "clear" ELSE "close")
  /\ UNCHANGED session /\ Inputs /\ Prompts

ClearCancel ==
  /\ Goto("clear", "close") /\ Consume("cancel") /\ CancelOperation /\ Prompts

TakeClose ==
  /\ Goto("close", "poll") /\ Prompts
  /\ IF "close" \in flags THEN Consume("close") /\ CancelOperation
                          ELSE UNCHANGED session /\ Inputs

PollOnce ==
  /\ Goto("poll", "wait") /\ Inputs /\ Prompts
  /\ \/ ~mail /\ UNCHANGED session
     \/ OverBudget
     \/ Collect

------------------------------------------------------------------------------
(* interact.                                                               *)

Start == Goto("start", "wait") /\ Refresh /\ Inputs /\ Prompts

\* line: a command, whatever it says, or the end of the input.
ReadCommand ==
  /\ Goto("prompt", "drain") /\ UNCHANGED session /\ Inputs /\ Prompts

EndOfInput ==
  /\ line \in Reads /\ line' = "leaving"
  /\ UNCHANGED session /\ Inputs /\ Prompts

\* take_close at the prompt, then the idle Ctrl+C is dropped.
DrainClose ==
  /\ Goto("drain", IF "close" \in flags THEN "leaving" ELSE "idle")
  /\ IF "close" \in flags THEN Consume("close") ELSE Inputs
  /\ UNCHANGED session /\ Prompts

DrainCancel ==
  /\ Goto("idle", "command") /\ Consume("cancel")
  /\ UNCHANGED session /\ Prompts

\* An empty, unknown or unavailable command.
Again ==
  /\ Goto("command", "prompt") /\ UNCHANGED session /\ Inputs /\ Prompts

NotListed ==
  /\ Goto("command", "report") /\ UNCHANGED session /\ Inputs /\ Prompts

QuitCommand ==
  /\ Goto("command", "leaving") /\ UNCHANGED session /\ Inputs /\ Prompts

RefreshCommand ==
  /\ Goto("command", "wait") /\ operation < MaxOps /\ Refresh /\ Inputs /\ Prompts

LaunchCommand ==
  /\ Goto("command", "wait") /\ ((operation < MaxOps /\ Launch) \/ Refused)
  /\ Inputs /\ Prompts

EditCommand ==
  /\ Goto("command", "host") /\ UNCHANGED session /\ Inputs /\ Prompts

ReadHost ==
  /\ Goto("host", "port") /\ UNCHANGED session /\ Inputs /\ Prompts

\* The two lines, or what the view knows in place of an empty one.
ReadPort ==
  /\ \/ View.endpoint = Blank /\ Goto("port", "prompt") /\ UNCHANGED session
     \/ Goto("port", "report") /\ UNCHANGED session      \* the port or the host is refused
     \/ \E endpoint \in Endpoints :
          operation < MaxOps /\ SaveProxy(endpoint) /\ Goto("port", "wait")
  /\ Inputs /\ Prompts

Offer(what) == IF what = "repair" THEN View.repair ELSE View.consent

AskCommand ==
  /\ Goto("command", "yes") /\ asking' \in {"consent", "repair"}
  /\ shown' = Offer(asking') /\ shown' # 0
  /\ UNCHANGED <<session, reported>> /\ Inputs

\* Anything but YES cancels.  The request names the proposal of this moment.
ReadConfirmation ==
  /\ line = "yes" /\ asking' = "none" /\ shown' = 0
  /\ \/ line' = "report" /\ UNCHANGED session
     \/ /\ line' = "wait" /\ Offer(asking) # 0
        /\ \/ /\ operation < MaxOps
              /\ IF asking = "repair" THEN RepairLaunch(Offer(asking)) ELSE SetConsent(Offer(asking))
           \/ Refused
  /\ Inputs /\ UNCHANGED reported

\* Mutant: the launch is printed and not noted.
ReportMutationOnly ==
  /\ Goto("report", "prompt")
  /\ reported' = [reported EXCEPT !.mutation = IF mutation.failed THEN mutation.op ELSE @]
  /\ UNCHANGED <<session, asking, shown>> /\ Inputs

\* Each outcome is printed once.
Report ==
  /\ Goto("report", "prompt")
  /\ reported' = [launch   |-> launched.op,
                  mutation |-> IF mutation.failed THEN mutation.op ELSE reported.mutation]
  /\ UNCHANGED <<session, asking, shown>> /\ Inputs

\* run: interact returns over an idle session, whose cancel and loop find nothing.
Leave ==
  /\ Goto("leaving", "left") /\ ~Busy
  /\ UNCHANGED session /\ Inputs /\ Prompts

Interact ==
  \/ ReadCommand \/ EndOfInput \/ DrainClose \/ DrainCancel \/ Again \/ NotListed
  \/ QuitCommand \/ RefreshCommand \/ LaunchCommand \/ EditCommand \/ ReadHost
  \/ ReadPort \/ AskCommand \/ ReadConfirmation

\* Everything but reading: nobody has to type.
Proceed ==
  \/ Start \/ WaitOver \/ LoadCancel \/ ClearCancel \/ TakeClose \/ PollOnce
  \/ Report \/ Leave

LineTypeOK ==
  /\ line \in {"off", "start", "wait", "clear", "close", "poll", "prompt", "drain", "idle",
               "command", "host", "port", "yes", "report", "leaving", "left"}
  /\ flags \subseteq {"cancel", "close"} /\ signals \in 0..MaxSignals
  /\ stray \in BOOLEAN
  /\ asking \in {"none", "consent", "repair"} /\ shown \in 0..revision
  /\ reported \in [launch : 0..operation, mutation : 0..operation]
==============================================================================
