------------------------------- MODULE Console -------------------------------
(***************************************************************************)
(* run_console of crates/cpg-tui/src/lib.rs: one session under the full-   *)
(* screen console, or under the line console when a terminal is missing or *)
(* fails.  The session's worker runs beside either of them.                *)
(***************************************************************************)
EXTENDS Tui, LineConsole

VARIABLE front   \* "tui", "line"

vars == <<session, tui, console, front>>

Init ==
  /\ ClientInit /\ TuiInit
  /\ \/ front = "tui" /\ LineInit("off")
     \/ front = "line" /\ LineInit("start")

TuiRuns ==
  /\ front = "tui" /\ UNCHANGED <<console, front>>
  /\ StartUp \/ Key \/ Poll \/ Handle

TuiFails == front = "tui" /\ DrawFails /\ UNCHANGED <<console, front>>

LineReads == front = "line" /\ Interact /\ UNCHANGED <<tui, front>>
LineProceeds == front = "line" /\ Proceed /\ UNCHANGED <<tui, front>>
Signalled == front = "line" /\ Signal /\ UNCHANGED <<tui, front>>

\* The worker.  It ends when it likes, and once its cancellation is latched it does.
Works == Arrive /\ UNCHANGED <<tui, console, front>>

\* Drop for EngineSession joins the worker before run returns its error.
SessionDropped ==
  /\ Busy => mail
  /\ UNCHANGED <<Facts, mail, latch, target, tui, console, front>>
  /\ Session!Join

\* run_console then starts the line console over a session of its own.
FallBack ==
  /\ at = "failed" /\ closed = "closed" /\ front = "tui" /\ front' = "line"
  /\ phase' = "idle" /\ kind' = "none" /\ operation' = 0 /\ revision' = 0
  /\ consent' = 0 /\ repair' = 0 /\ closed' = "open"
  /\ snap' = Unread /\ known' = Blank /\ mail' = FALSE /\ latch' = FALSE /\ target' = Blank
  /\ launched' = NoOutcome /\ mutation' = NoOutcome /\ UNCHANGED elevated
  /\ at' = "start" /\ event' = "None" /\ modal' = "None" /\ screen' = View'
  /\ draft' = Blank /\ inline' = FALSE /\ saving' = 0 /\ typed' = FALSE /\ notice' = FALSE
  /\ result' = 0 /\ exiting' = FALSE /\ refreshed' = 0 /\ opened' = 0
  /\ line' = "start" /\ UNCHANGED <<flags, signals, stray, asking, shown, reported>>

Next ==
  \/ TuiRuns \/ TuiFails
  \/ LineReads \/ LineProceeds \/ Signalled
  \/ Works \/ SessionDropped \/ FallBack

\* run_loop waits for a key no longer than a slice and poll returns at once.  Reading
\* a line may wait for ever, and so may an operation that nothing cancels.
Fairness ==
  /\ WF_vars(TuiRuns) /\ WF_vars(LineProceeds) /\ WF_vars(latch /\ Works)
  /\ WF_vars(SessionDropped \/ FallBack)

Spec == Init /\ [][Next]_vars /\ Fairness

------------------------------------------------------------------------------
TypeOK ==
  /\ ClientTypeOK /\ TuiTypeOK /\ LineTypeOK
  /\ front \in {"tui", "line"}

\* An authorized operation is the one whose proposal was on the screen, or in the
\* prompt, when its confirmation was asked for: nothing replaces a proposal under
\* an open dialog (app.rs, plain.rs).
ConfirmsWhatWasShown ==
  [][(kind' # kind /\ kind' \in {"consent", "repair"})
     => (IF kind' = "consent" THEN consent ELSE repair)
        = (IF front = "tui" THEN opened ELSE shown)]_vars

\* A failed operation the full-screen console hears of is left on the screen: an
\* error, the editor's message, or a notice when a launch result must stay.  An
\* editor that still waits for an earlier save is the exception (handle_event).
FailureIsReported ==
  [][(/\ at = "handle" /\ at' \in {"input", "exited"} /\ saving \in {0, operation}
      /\ \/ event = "MutationFailed"
         \/ event = "MutationFinished" /\ mutation.failed
         \/ event = "OperationFinished" /\ launched.failed)
     => (modal' = "ErrorResult" \/ (modal' = "ProxyEditor" /\ inline') 
         \/ (notice' /\ launched.op # 0))]_vars

\* Once a launch result is on the screen only a key takes it off: the refresh the
\* console starts by itself, whatever it finds, leaves it there (app.rs).
ResultIsRetained ==
  [][(modal \in {"LaunchResult", "ErrorResult"} /\ result # 0 /\ at \in {"poll", "handle"})
     => UNCHANGED <<modal, result>>]_vars

\* A user who asked to leave leaves, whatever the operation in hand does, and a
\* failed terminal ends in the line console (run_loop, run, run_console).
Leaves ==
  (front = "tui" /\ (exiting \/ at = "failed")) ~> (at = "exited" \/ front = "line")

\* A signal delivered while an operation is in hand ends in its cancellation or
\* finds it over, however long the operation would take by itself.  Taking the bit
\* in two steps loses none, a second signal between them included, which the second
\* step clears with the first (console.rs, wait_with_controls).
SignalsReachTheOperation ==
  ("cancel" \in flags /\ Busy) ~> (latch \/ ~Busy)

\* The safety behind it: while an operation is in hand nothing takes the bit but the
\* cancellation of that operation, the prompt's throw-away included.
SignalsAreHandedOver ==
  [][(Busy /\ "cancel" \in flags /\ "cancel" \notin flags') => latch']_vars

\* The line console asks for a command only when every finished launch and every
\* failed change has been printed (interact, plain.rs).
FinishedWorkIsPrinted ==
  line = "prompt" =>
    /\ reported.launch = launched.op
    /\ mutation.failed => reported.mutation = mutation.op

\* plain.rs:125 says of the line console: "idle Ctrl+C is a no-op".  Violated: a
\* Ctrl+C typed at the host, port or YES prompt stays latched, and the operation
\* confirmed there is cancelled by it.
IdleCtrlCIsNoOp == line = "clear" /\ Busy => ~stray
------------------------------------------------------------------------------
(* Why these hold: the invariant behind the properties above.              *)

\* Whatever the session shows is older than the operation in hand, and an offer
\* stands only over an idle session with a configuration.  A launch was counted
\* against the bound, so that the refresh after it need not be.
SessionInv ==
  /\ ClientTypeOK
  /\ (consent # 0 \/ repair # 0) => (phase = "idle" /\ snap.ready)
  /\ phase # "idle" => revision < operation /\ launched.op < operation /\ mutation.op < operation
  /\ (phase # "idle" /\ kind \in {"launch", "repair"}) => operation <= MaxOps

Results == {"LaunchResult", "ErrorResult"}

\* A dialog that asks for confirmation is about the offer on display; a result gives
\* way to nothing but what a user starts from no dialog at all.
TuiInv ==
  /\ TuiTypeOK
  /\ at = "start" => operation = 0 /\ modal = "None"
  /\ at # "failed" => screen = View
  /\ modal \in {"Consent", "Repair"} => phase = "idle"
  /\ modal = "Consent" /\ consent # 0 => opened = consent
  /\ modal = "Repair" /\ repair # 0 => opened = repair
  /\ phase # "idle" /\ kind \in {"proxy", "consent", "launch", "repair"} => modal \notin Results
  /\ result # 0 => launched.op # 0
  /\ at = "handle" => phase = "idle"
  /\ (at = "handle" /\ event \in {"OperationFinished", "MutationFinished"}) => modal \notin Results
  /\ (at = "handle" /\ event = "OperationFinished") => operation <= MaxOps
  /\ (at = "handle" /\ event = "MutationFinished") => mutation.op = operation

\* Nothing is left to print, or to confirm but what was shown, where the line
\* console waits for input.
LineInv ==
  /\ LineTypeOK
  /\ line = "start" => operation = 0
  /\ line \in {"prompt", "drain", "idle", "command", "host", "port", "yes"} =>
       /\ reported.launch = launched.op
       /\ mutation.failed => reported.mutation = mutation.op
  /\ line = "yes" => asking # "none" /\ shown = Offer(asking)

Untouched == line = "off" /\ asking = "none" /\ shown = 0 /\ reported = Unreported

Inv ==
  /\ SessionInv /\ LineInv
  /\ \/ front = "tui" /\ TuiInv /\ Untouched
     \/ front = "line" /\ TuiTypeOK
==============================================================================
