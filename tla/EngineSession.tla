---------------------------- MODULE EngineSession ----------------------------
(***************************************************************************)
(* One EngineSession of crates/cpg-engine/src/session.rs: the frontend's   *)
(* thread requests, polls, cancels and closes; a worker thread carries out *)
(* one foreground operation and sends its result through a mailbox; other  *)
(* programs change the configuration file and Desktop meanwhile.           *)
(*                                                                         *)
(* What a mutation does to the file is ConfigStore's concern and what a    *)
(* launch does is LaunchPipeline's: here each is one step of the worker.   *)
(* A configuration is its endpoint and its consent; the Home a proposal    *)
(* names is a function of the configuration it is shown with.              *)
(***************************************************************************)
EXTENDS Integers, Sequences, FiniteSets

CONSTANTS
  Ports, DefaultPort,
  Broken,          \* bytes that are no configuration
  Registered,      \* Desktop is a registered application
  Homeless,        \* configurations whose Home may not be told, or is relative
  Elevated,        \* Guard is elevated, or cannot tell
  RngFails,        \* the operating system's randomness source may fail
  None,            \* no proposal, no worker's confirmation
  MaxOps, MaxUpsets   \* bounds on operations, and on failures and other programs' steps

Configs == [port : Ports, manage : BOOLEAN]

\* A confirmation token is fresh with each revision; without randomness it is empty.
Empty == 0
Consents == [token : Nat, enabled : BOOLEAN, revision : Nat]
Repairs  == [token : Nat, revision : Nat]

ASSUME ConstantsAssumption ==
  /\ DefaultPort \in Ports /\ Broken \notin Configs /\ Homeless \subseteq Configs
  /\ None \notin Configs \cup Consents \cup Repairs
  /\ {Registered, Elevated, RngFails} \subseteq BOOLEAN
  /\ {MaxOps, MaxUpsets} \subseteq Nat

Default == [port |-> DefaultPort, manage |-> FALSE]
Processes == {"unknown", "stopped", "running"}

\* TaskResult: what a task publishes about the file and Desktop.
Snapshots == [ready : BOOLEAN, invalid : BOOLEAN, config : Configs,
              source : {"unconfirmed", "read", "committed", "retained", "invalid"},
              process : Processes]
Blank == [ready |-> FALSE, invalid |-> FALSE, config |-> Default,
          source |-> "unconfirmed", process |-> "unknown"]

Kinds == {"refresh", "proxy", "consent", "launch"}
Workers == [op : Nat, kind : Kinds, expected : Configs, repair : BOOLEAN, next : Configs,
            rev : Nat, at : {"mutate", "read", "observe", "launch", "sent"},
            result : Snapshots, wrote : BOOLEAN,
            outcome : {"none", "committed", "refused", "launched", "panicked"}]

VARIABLES
  file, process,      \* the configuration file and the Desktop process
  workers,            \* the tasks that run or whose result is not collected
  latch,              \* SessionShared.cancel
  state, known,       \* EngineSession.state and known_good
  foreground,         \* "idle", "running", "cancelling"; pending unless idle
  operation, revision,
  consent, repair,    \* the proposals on display
  confirmed,          \* confirmed_config
  outcome,            \* mutation_outcome: "none", "committed", "refused"
  failure,            \* mutation_error: "none", "refused", "timeout"
  closed,             \* "open", "closing" (Drop joins the worker), "closed"
  held,               \* the configurations the file has held
  shown,              \* the proposals displayed with each revision
  spent,              \* the last revision displayed before the last submission
  interrupted,        \* the operation in hand was cancelled or ran out of budget
  upsets              \* failures and steps of other programs so far

world   == <<file, process, held, upsets>>
display == <<state, known, revision, consent, repair, confirmed, outcome, failure, shown>>
control == <<foreground, operation, closed, interrupted>>
vars == <<world, workers, latch, display, control, spent>>

Init ==
  /\ file \in {Default, [Default EXCEPT !.manage = TRUE], Broken}
  /\ process \in {"stopped", "running"}
  /\ workers = {} /\ latch = FALSE
  /\ state = Blank /\ known = None
  /\ foreground = "idle" /\ operation = 0 /\ revision = 0
  /\ consent = None /\ repair = None /\ confirmed = Default
  /\ outcome = "none" /\ failure = "none" /\ closed = "open"
  /\ held = {file} \ {Broken}
  /\ shown = <<>> /\ spent = 0 /\ interrupted = FALSE
  /\ upsets = 0

Upset == upsets < MaxUpsets /\ upsets' = upsets + 1

Pending == foreground # "idle"
Idle == ~Pending /\ closed = "open"

------------------------------------------------------------------------------
(* Requests.  Each one first withdraws the proposals on display.           *)

\* Mutant: a consent stays on display.
InvalidateRepair == repair' = None /\ UNCHANGED consent

Invalidate == consent' = None /\ repair' = None

Task(kind, expected, next, rev) ==
  [op |-> operation + 1, kind |-> kind, expected |-> expected,
   repair |-> kind = "proxy" /\ state.invalid, next |-> next, rev |-> rev,
   at |-> IF kind = "refresh" THEN "read" ELSE IF kind = "launch" THEN "launch" ELSE "mutate",
   result |-> Blank, wrote |-> FALSE, outcome |-> "none"]

Dispatch(task) ==
  /\ operation < MaxOps /\ operation' = operation + 1
  /\ workers' = workers \cup {task}
  /\ foreground' = "running" /\ interrupted' = FALSE /\ failure' = "none"
  /\ UNCHANGED closed

Decline == UNCHANGED <<workers, control, failure>>
Requested == UNCHANGED <<world, latch, state, known, revision, confirmed, outcome, shown>>

RequestRefresh ==
  /\ Idle /\ Invalidate
  /\ Dispatch(Task("refresh", state.config, state.config, 0))
  /\ Requested /\ UNCHANGED spent

RequestSetProxy(port) ==
  /\ Idle /\ Invalidate
  /\ Dispatch(Task("proxy", state.config, [state.config EXCEPT !.port = port], 0))
  /\ Requested /\ UNCHANGED spent

\* Mutant: a refused proposal stays on display.
RequestConsentKept(proposal) ==
  /\ Idle
  /\ \/ /\ state.ready /\ consent = proposal /\ file = state.config /\ Invalidate
        /\ Dispatch(Task("consent", state.config,
                         [state.config EXCEPT !.manage = proposal.enabled], proposal.revision))
     \/ Decline /\ UNCHANGED <<consent, repair>>
  /\ spent' = revision
  /\ Requested

\* A submitted proposal is consumed whether or not it is accepted.
RequestConsent(proposal) ==
  LET c == state.config
      authorized == state.ready /\ consent = proposal /\ c = confirmed
  IN /\ Idle /\ Invalidate
     /\ \/ /\ authorized /\ file = c
           /\ Dispatch(Task("consent", c, [c EXCEPT !.manage = proposal.enabled],
                            proposal.revision))
        \/ Decline
     /\ spent' = revision
     /\ Requested

RequestLaunch ==
  /\ Idle /\ Invalidate
  /\ \/ state.ready /\ file = state.config /\ ~Elevated
        /\ Dispatch(Task("launch", state.config, state.config, 0))
     \/ Decline
  /\ spent' = revision
  /\ Requested

RequestRepair(r) ==
  LET token == shown[r].repair.token
      authorized == state.ready /\ repair # None /\ repair.token = token
                    /\ state.config = confirmed
  IN /\ Idle /\ Invalidate
     /\ \/ /\ authorized /\ file = state.config /\ ~Elevated
           /\ Dispatch(Task("launch", state.config, state.config, r))
        \/ Decline
     /\ spent' = revision
     /\ Requested

\* cancel: the latch is never released; the operation stays in the foreground.
Cancel ==
  /\ Pending /\ closed = "open"
  /\ latch' = TRUE /\ interrupted' = TRUE /\ Invalidate
  /\ UNCHANGED <<world, workers, state, known, revision, confirmed, outcome, failure, shown,
                 foreground, operation, closed, spent>>

\* Drop: cancel, then join the worker.
Close ==
  /\ closed = "open" /\ closed' = "closing"
  /\ latch' = (latch \/ Pending) /\ interrupted' = (interrupted \/ Pending)
  /\ Invalidate
  /\ UNCHANGED <<world, workers, state, known, revision, confirmed, outcome, failure, shown,
                 foreground, operation, spent>>

Join ==
  /\ closed = "closing" /\ \A w \in workers : w.op = operation => w.at = "sent"
  /\ workers' = {w \in workers : w.op # operation}
  /\ closed' = "closed"
  /\ UNCHANGED <<world, latch, display, foreground, operation, interrupted, spent>>

------------------------------------------------------------------------------
(* The worker thread.                                                      *)

Becomes(w, v) == workers' = (workers \ {w}) \cup {v}
Worker == UNCHANGED <<latch, display, control, spent>>

\* Mutant: the refresh after a commit has the last word.
SentAsRead(w, result) == [w EXCEPT !.at = "sent", !.result = result]

\* After a commit, a refresh that yields nothing shows the committed value.
Sent(w, result) ==
  [w EXCEPT !.at = "sent",
            !.result = IF w.outcome = "committed" /\ ~result.ready
                         THEN [result EXCEPT !.ready = TRUE, !.invalid = FALSE,
                                             !.config = w.next, !.source = "committed"]
                         ELSE result]

\* Mutant: the file is written over whatever it holds by now.
MutateUnchecked(w) ==
  /\ w.at = "mutate"
  /\ file' = w.next /\ held' = held \cup {w.next}
  /\ Becomes(w, [w EXCEPT !.at = "read", !.wrote = TRUE, !.outcome = "committed"])
  /\ UNCHANGED <<process, upsets>> /\ Worker

\* update_proxy and update_consent over an expected or provably unusable file.
Mutate(w) ==
  /\ w.at = "mutate"
  /\ IF w.repair THEN file = Broken ELSE file = w.expected
  /\ file' = w.next /\ held' = held \cup {w.next}
  /\ Becomes(w, [w EXCEPT !.at = "read", !.wrote = TRUE, !.outcome = "committed"])
  /\ UNCHANGED <<process, upsets>> /\ Worker

\* The expected configuration is gone, the file is locked or the write failed.
MutateRefused(w) ==
  /\ w.at = "mutate"
  /\ Becomes(w, [w EXCEPT !.at = "sent", !.outcome = "refused"])
  /\ UNCHANGED world /\ Worker

Read(w) ==
  /\ w.at = "read"
  /\ Becomes(w,
       IF latch THEN Sent(w, Blank)
       ELSE IF file = Broken THEN Sent(w, [Blank EXCEPT !.invalid = TRUE])
       ELSE [w EXCEPT !.at = "observe", !.result = [Blank EXCEPT !.ready = TRUE, !.config = file]])
  /\ UNCHANGED world /\ Worker

\* Another program holds the file, or it cannot be read.
ReadFails(w) ==
  /\ w.at = "read" /\ Upset
  /\ Becomes(w, Sent(w, Blank))
  /\ UNCHANGED <<file, process, held>> /\ Worker

\* Discovery and the process snapshot; a failed or cancelled one leaves the
\* configuration ready and Desktop unknown.
Observe(w) ==
  /\ w.at = "observe"
  /\ \E seen \in {"unknown", process} :
       /\ latch => seen = "unknown"
       /\ Becomes(w, Sent(w, [w.result EXCEPT !.process = seen]))
  /\ UNCHANGED world /\ Worker

\* launch_pipeline: nothing is submitted once the latch is set.
Launch(w) ==
  /\ w.at = "launch"
  /\ \/ ~latch /\ file = w.expected /\ process = "stopped"
        /\ process' = "running"
        /\ Becomes(w, [w EXCEPT !.at = "sent", !.wrote = TRUE, !.outcome = "launched"])
     \/ process' = process
        /\ Becomes(w, [w EXCEPT !.at = "sent", !.outcome = "launched"])
  /\ UNCHANGED <<file, held, upsets>> /\ Worker

\* catch_unwind: the task's own findings are lost.
Panic(w) ==
  /\ w.at # "sent" /\ Upset
  /\ Becomes(w, [w EXCEPT !.at = "sent", !.outcome = "panicked", !.result = Blank])
  /\ UNCHANGED <<file, process, held>> /\ Worker

------------------------------------------------------------------------------
(* poll.                                                                   *)

\* Mutant: a result that comes after the budget is dropped.
ArrivedInTime == {w \in workers : w.op = operation /\ w.at = "sent" /\ foreground = "running"}

Arrived == {w \in workers : w.op = operation /\ w.at = "sent"}

\* Mutant: the budget opens the gate.
TimeOutReleases ==
  /\ foreground = "running" /\ closed = "open" /\ Arrived = {}
  /\ latch' = TRUE /\ interrupted' = TRUE /\ Invalidate
  /\ foreground' = "idle"
  /\ UNCHANGED <<world, workers, state, known, revision, confirmed, outcome, failure, shown,
                 operation, closed, spent>>

\* No result yet and the budget is gone: cancel, but stay busy.
TimeOut ==
  /\ foreground = "running" /\ closed = "open" /\ Arrived = {}
  /\ latch' = TRUE /\ interrupted' = TRUE /\ Invalidate
  /\ foreground' = "cancelling"
  /\ UNCHANGED <<world, workers, state, known, revision, confirmed, outcome, failure, shown,
                 operation, closed, spent>>

\* Mutant: the last configuration is not retained.
PublishedDefault(r) ==
  IF r.ready THEN [r EXCEPT !.source = IF @ = "unconfirmed" THEN "read" ELSE @]
  ELSE [r EXCEPT !.source = IF known # None THEN "retained" ELSE @]

\* publish: a result without a configuration keeps the last one known.
Published(r) ==
  IF r.ready THEN [r EXCEPT !.source = IF @ = "unconfirmed" THEN "read" ELSE @]
  ELSE IF known # None THEN [r EXCEPT !.config = known, !.source = "retained"]
  ELSE IF r.invalid THEN [r EXCEPT !.source = "invalid"]
  ELSE r

Publish(r) ==
  /\ state' = Published(r)
  /\ known' = IF r.ready THEN r.config ELSE known

Withdraw == Invalidate /\ UNCHANGED <<revision, confirmed, shown>>

\* Mutant: a repair is offered whatever Desktop was last seen doing.
ConfirmAnyProcess(s) ==
  IF ~s.ready THEN Withdraw
  ELSE /\ revision' = revision + 1 /\ confirmed' = s.config
       /\ consent' = [token |-> revision + 1, enabled |-> ~s.config.manage, revision |-> revision + 1]
       /\ repair' = [token |-> revision + 1, revision |-> revision + 1]
       /\ shown' = Append(shown, [config |-> s.config, consent |-> consent', repair |-> repair'])

Tokens == {revision + 1} \cup (IF RngFails THEN {Empty} ELSE {})

\* confirmations, over the state just published.  A consent needs a Home that can be
\* told and is absolute; a repair may be offered without one.
Confirm(s) ==
  IF ~s.ready THEN Withdraw
  ELSE /\ revision' = revision + 1 /\ confirmed' = s.config
       /\ \/ s.config \in Homeless /\ consent' = None
          \/ \E token \in Tokens : consent' =
               [token |-> token, enabled |-> ~s.config.manage, revision |-> revision + 1]
       /\ \E token \in Tokens : repair' =
            IF s.process = "stopped" /\ ~Elevated /\ (~Registered \/ s.config.manage)
              THEN [token |-> token, revision |-> revision + 1] ELSE None
       /\ shown' = Append(shown, [config |-> s.config, consent |-> consent', repair |-> repair'])

\* The worker is joined before the gate opens; facts outlive the budget.
Collect(w) ==
  /\ closed = "open" /\ Pending /\ w \in Arrived
  /\ workers' = workers \ {w}
  /\ foreground' = "idle"
  /\ CASE w.outcome = "launched" ->
            /\ state' = [state EXCEPT !.process = "unknown"]
            /\ Withdraw /\ UNCHANGED <<known, outcome, failure>>
       [] w.outcome = "committed" ->
            Publish(w.result) /\ Confirm(state') /\ outcome' = "committed" /\ UNCHANGED failure
       [] w.outcome = "refused" ->
            Withdraw /\ outcome' = "refused" /\ failure' = "refused" /\ UNCHANGED <<state, known>>
       [] w.outcome \in {"none", "panicked"} ->
            /\ IF w.outcome = "none" THEN Publish(w.result) ELSE UNCHANGED <<state, known>>
            /\ IF foreground = "cancelling"
                 THEN Withdraw /\ failure' = "timeout"
                 ELSE Confirm(state') /\ UNCHANGED failure
            /\ UNCHANGED outcome
  /\ UNCHANGED <<world, latch, operation, closed, interrupted, spent>>

------------------------------------------------------------------------------
(* Other programs.                                                         *)

Edit(f) ==
  /\ Upset
  /\ file' = f /\ held' = held \cup ({f} \ {Broken})
  /\ UNCHANGED <<process, workers, latch, display, control, spent>>

UserActs ==
  /\ Upset
  /\ process' \in {"stopped", "running"} \ {process}
  /\ UNCHANGED <<file, held, workers, latch, display, control, spent>>

Request ==
  \/ RequestRefresh \/ RequestLaunch
  \/ \E port \in Ports : RequestSetProxy(port)
  \/ \E r \in DOMAIN shown : shown[r].consent # None /\ RequestConsent(shown[r].consent)
  \/ \E r \in DOMAIN shown : shown[r].repair # None /\ RequestRepair(r)

Work ==
  \E w \in workers : Mutate(w) \/ MutateRefused(w) \/ Read(w) \/ ReadFails(w)
                     \/ Observe(w) \/ Launch(w)

Poll == TimeOut \/ \E w \in workers : Collect(w)

Next ==
  \/ Request \/ Cancel \/ Close \/ Join \/ Work \/ (\E w \in workers : Panic(w)) \/ Poll
  \/ (\E f \in Configs \cup {Broken} : Edit(f)) \/ UserActs

\* Every call a worker makes has a budget, the frontends poll in a loop, and
\* dropping the session blocks until the worker is joined.
Spec == Init /\ [][Next]_vars /\ WF_vars(Work) /\ WF_vars(\E w \in workers : Collect(w)) /\ WF_vars(Join)

------------------------------------------------------------------------------
WorldOK ==
  /\ file \in Configs \cup {Broken} /\ process \in {"stopped", "running"}
  /\ held \in SUBSET Configs /\ upsets \in 0..MaxUpsets

Screens == [config : Configs, consent : Consents \cup {None}, repair : Repairs \cup {None}]

DisplayOK ==
  /\ state \in Snapshots /\ known \in Configs \cup {None} /\ confirmed \in Configs
  /\ shown \in Seq(Screens) /\ revision = Len(shown) /\ spent \in 0..revision
  /\ consent \in Consents \cup {None} /\ repair \in Repairs \cup {None}
  /\ outcome \in {"none", "committed", "refused"} /\ failure \in {"none", "refused", "timeout"}

ControlOK ==
  /\ workers \in SUBSET Workers /\ operation \in 0..MaxOps
  /\ foreground \in {"idle", "running", "cancelling"}
  /\ closed \in {"open", "closing", "closed"}
  /\ latch \in BOOLEAN /\ interrupted \in BOOLEAN

TypeOK == WorldOK /\ DisplayOK /\ ControlOK

\* One foreground effect at a time: a timed-out or cancelled worker keeps the
\* session busy until it is joined, an idle session has no worker, and a closed
\* session leaves none behind.
OneForegroundEffect ==
  /\ Cardinality(workers) <= 1
  /\ ~Pending \/ closed = "closed" => workers = {}
  /\ \A w \in workers : w.op = operation

\* A proposal on display speaks about the configuration on display: an idle,
\* ready session, a consent for the opposite of the stored one, and a repair, with
\* or without a consent beside it, only over a Desktop last seen stopped whose Home
\* Guard may prepare.
AuthorizationFitsView ==
  /\ consent # None \/ repair # None => ~Pending /\ state.ready /\ confirmed = state.config
  /\ consent # None => consent.enabled = ~state.config.manage
  /\ repair # None => state.process = "stopped" /\ (Registered => state.config.manage)

Dispatched == {w \in workers' : w.op > operation}
Collected == {w \in workers : \A v \in workers' : v.op # w.op}

\* A confirmation authorizes one submission.  Whatever was on display when
\* anything was submitted, accepted or refused, never authorizes again, stale
\* frontends included; a repair proposal needs its random token for that.
ConfirmationsAreSingleUse ==
  [][\A w \in Dispatched :
       /\ w.kind = "consent" => w.rev > spent
       /\ w.kind = "launch" /\ w.rev > 0 /\ shown[w.rev].repair.token # Empty => w.rev > spent]_vars

\* The user gets what the confirmation showed: consent changes on disk only over
\* the very configuration displayed with the proposal, and only as it said.
ConsentChangesAsShown ==
  [][\A w \in workers : w.kind = "consent" /\ w.at = "mutate" /\ file' # file
        /\ (\E v \in workers' : v.op = w.op /\ v.wrote) =>
       /\ file = shown[w.rev].config
       /\ file' = [file EXCEPT !.manage = shown[w.rev].consent.enabled]]_vars

\* An endpoint is a fact about a file: what the view shows as read, committed or
\* retained was in config.toml, never the built-in default standing in for it.
EndpointWasOnDisk ==
  state.source \in {"read", "committed", "retained"} => state.config \in held

\* A committed write is never reported as refused, timed out or unknown, whatever
\* happens to the refresh after it: cancellation, budget, a failed read.
CommittedFactsSurvive ==
  [][\A w \in Collected :
       w.kind \in {"proxy", "consent"} /\ w.outcome # "panicked" /\ closed = "open" =>
         /\ w.wrote <=> outcome' = "committed"
         /\ w.wrote => state'.ready /\ failure' = "none" /\ known' = state'.config]_vars

\* The session as a front end may rely on it: SessionContract, with every step
\* of a worker and of other programs invisible and an offer named by its revision.
HandKind ==
  IF workers = {} THEN "none"
  ELSE LET w == CHOOSE w \in workers : TRUE
       IN IF w.kind = "launch" /\ w.rev > 0 THEN "repair" ELSE w.kind

Offered(proposal) == IF proposal = None THEN 0 ELSE proposal.revision

Contract == INSTANCE SessionContract
              WITH phase <- foreground, kind <- HandKind, ready <- state.ready,
                   consent <- Offered(consent), repair <- Offered(repair)

\* EngineSession implements SessionContract: offers are withdrawn by every request,
\* cancellation and lost budget, come back only with a fresh revision when an
\* operation settles, and settling is what makes the session idle.
KeepsContract == Contract!Spec

\* The gate always reopens, after a timeout or a cancellation too, unless the
\* session is being dropped.
GateReopens == Pending ~> (~Pending \/ closed = "closed")

\* crates/cpg-engine/src/session.rs:484: "The operation exceeded its session budget
\* and has settled; ... Refresh before another action."  So a later refresh that
\* is not itself cancelled and finds a usable file makes the session ready.
RefreshRecovers ==
  [][\A w \in workers : w.kind = "refresh" /\ w.at = "read" /\ file # Broken
        /\ ~interrupted /\ upsets' = upsets
        /\ w \notin workers' =>
       \E v \in workers' : v.op = w.op /\ v.result.ready]_vars

------------------------------------------------------------------------------
(* The inductive invariant, by what it speaks about: the worker at each    *)
(* label, what it was authorized by, what its findings rest on, the        *)
(* proposals on display, and what the view and the session remember.       *)

Stage(w) ==
  /\ w.op = operation
  /\ w.at = "mutate" => w.kind \in {"proxy", "consent"} /\ w.outcome = "none" /\ ~w.wrote
  /\ w.at = "launch" => w.kind = "launch" /\ w.outcome = "none"
  /\ w.at \in {"read", "observe"} =>
       \/ w.kind = "refresh" /\ w.outcome = "none"
       \/ w.kind \in {"proxy", "consent"} /\ w.outcome = "committed"
  /\ w.at = "sent" =>
       \/ w.outcome = "panicked"
       \/ w.kind = "refresh" /\ w.outcome = "none"
       \/ w.kind = "launch" /\ w.outcome = "launched"
       \/ w.kind \in {"proxy", "consent"} /\ w.outcome \in {"committed", "refused"}
  /\ w.outcome = "refused" => ~w.wrote

Authority(w) ==
  /\ w.repair => w.kind = "proxy"
  /\ w.rev = 0 \/ w.rev \in DOMAIN shown
  /\ w.kind = "consent" =>
       /\ w.rev \in DOMAIN shown /\ shown[w.rev].consent # None
       /\ w.expected = shown[w.rev].config
       /\ w.next = [w.expected EXCEPT !.manage = shown[w.rev].consent.enabled]

Evidence(w) ==
  /\ w.outcome = "committed" => w.wrote /\ w.next \in held
  /\ w.outcome = "committed" /\ w.at = "sent" => w.result.ready
  /\ IF w.result.ready THEN w.result.config \in held ELSE w.result.source = "unconfirmed"

OneWorker ==
  /\ \A v, w \in workers : v = w
  /\ ~Pending \/ closed = "closed" => workers = {}

Displayed ==
  /\ \A r \in DOMAIN shown :
       /\ shown[r].consent # None => shown[r].consent.revision = r
       /\ shown[r].repair # None => shown[r].repair.revision = r
                                   /\ shown[r].repair.token \in {r, Empty}
  /\ consent # None \/ repair # None => revision > spent /\ shown[revision].config = confirmed
  /\ consent # None => consent = shown[revision].consent
  /\ repair # None => repair = shown[revision].repair

Remembered ==
  /\ file = Broken \/ file \in held
  /\ known # None => known \in held
  /\ Pending => failure = "none"

Inv ==
  /\ TypeOK /\ OneWorker
  /\ \A w \in workers : Stage(w) /\ Authority(w) /\ Evidence(w)
  /\ Displayed /\ Remembered
  /\ AuthorizationFitsView /\ EndpointWasOnDisk
==============================================================================
