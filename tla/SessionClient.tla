--------------------------- MODULE SessionClient ---------------------------
(***************************************************************************)
(* The session as a front end sees it: SessionContract together with the   *)
(* published snapshot, the outcomes that poll leaves behind and the view   *)
(* that EngineSession::view (crates/cpg-engine/src/session.rs) derives.    *)
(***************************************************************************)
EXTENDS Naturals

CONSTANTS
  Endpoints,   \* endpoints a file may store
  Blank,       \* no endpoint
  Panics,      \* an engine task may fail
  MaxOps       \* bound on the operations a user starts

ASSUME ClientAssumption == Blank \notin Endpoints /\ Panics \in BOOLEAN /\ MaxOps \in Nat

Plans == {"unknown", "environment", "available", "unavailable"}

VARIABLES
  phase, kind, operation, revision, consent, repair, closed,   \* SessionContract
  snap,        \* EngineSession.state
  known,       \* known_good
  mail,        \* the worker's result is in the mailbox
  latch,       \* SessionShared.cancel, never released
  target,      \* the endpoint that operation saves
  launched,    \* launch_outcome: the operation and whether it failed
  mutation,    \* mutation_outcome and its mutation_error
  elevated     \* what query_elevation answers

Session == INSTANCE SessionContract WITH ready <- snap.ready

session == <<phase, kind, operation, revision, consent, repair, closed, snap, known,
             mail, latch, target, launched, mutation, elevated>>

Snapshots ==
  [ready : BOOLEAN, known : BOOLEAN, endpoint : Endpoints \cup {Blank}, plan : Plans,
   stopped : BOOLEAN, error : BOOLEAN]

\* TaskResult as refresh fills it in, nothing past the first failure: a
\* configuration, a desktop with the plan for it, a process that is seen stopped.
Findings ==
  {s \in Snapshots :
     /\ s.ready <=> s.endpoint # Blank
     /\ s.known = s.ready
     /\ s.plan # "unknown" => s.ready
     /\ s.stopped => s.plan # "unknown"
     /\ s.error <=> s.plan = "unknown"}

Unread == [ready |-> FALSE, known |-> FALSE, endpoint |-> Blank, plan |-> "unknown",
           stopped |-> FALSE, error |-> FALSE]

NoOutcome == [op |-> 0, failed |-> FALSE]

ClientInit ==
  /\ snap = Unread /\ Session!Init
  /\ known = Blank /\ mail = FALSE /\ latch = FALSE /\ target = Blank
  /\ launched = NoOutcome /\ mutation = NoOutcome
  /\ elevated \in BOOLEAN

Busy == phase # "idle"

------------------------------------------------------------------------------
(* view.                                                                   *)

\* Mutant: the view forgets elevation.
CanLaunchElevated ==
  ~Busy /\ snap.ready /\ snap.plan \in {"environment", "available"} /\ snap.stopped

CanLaunch ==
  /\ ~Busy /\ snap.ready /\ ~elevated
  /\ snap.plan \in {"environment", "available"} /\ snap.stopped

ViewError == snap.error \/ ~snap.ready \/ elevated \/ snap.plan = "unavailable"

\* The parts of a SessionView a front end decides on.
View ==
  [endpoint  |-> IF snap.known THEN snap.endpoint ELSE Blank,
   canEdit   |-> ~Busy,
   canLaunch |-> CanLaunch,
   consent   |-> IF Busy THEN 0 ELSE consent,
   repair    |-> IF CanLaunch THEN repair ELSE 0,
   error     |-> ViewError]

Views == [endpoint : Endpoints \cup {Blank}, canEdit : BOOLEAN, canLaunch : BOOLEAN,
          consent : Nat, repair : Nat, error : BOOLEAN]

------------------------------------------------------------------------------
(* Requests.                                                               *)

Facts == <<snap, known, launched, mutation, elevated>>

Dispatch(k) ==
  /\ UNCHANGED <<Facts, latch>> /\ mail' = FALSE
  /\ Session!Request(k)

\* Refusals that come after the proposals on display were withdrawn.
Refused == UNCHANGED <<Facts, mail, latch, target>> /\ Session!Refuse

Refresh == Dispatch("refresh") /\ UNCHANGED target

\* The candidate configuration is validated before anything is withdrawn.
SaveProxy(endpoint) == endpoint \in Endpoints /\ Dispatch("proxy") /\ target' = endpoint

\* What request_launch and request_set_backend_consent look at before the file.
LaunchAuthorized ==
  ~Busy /\ snap.ready /\ ~elevated /\ snap.plan # "unavailable"

Launch == LaunchAuthorized /\ Dispatch("launch") /\ UNCHANGED target

SetConsent(offer) ==
  offer = consent /\ consent # 0 /\ Dispatch("consent") /\ UNCHANGED target

RepairLaunch(offer) ==
  offer = repair /\ repair # 0 /\ LaunchAuthorized /\ Dispatch("repair") /\ UNCHANGED target

\* cancel, a no-op on an idle session.
CancelOperation ==
  IF Busy THEN /\ latch' = TRUE
               /\ UNCHANGED <<Facts, mail, target>> /\ Session!Refuse
          ELSE UNCHANGED session

------------------------------------------------------------------------------
(* The worker and poll.                                                    *)

Arrive ==
  /\ Busy /\ ~mail /\ mail' = TRUE
  /\ UNCHANGED <<phase, kind, operation, revision, consent, repair, closed, Facts, latch, target>>

\* publish.
Published(s) ==
  IF ~s.ready /\ known # Blank THEN [s EXCEPT !.endpoint = known, !.known = TRUE] ELSE s

Remember == known' = IF snap'.ready THEN snap'.endpoint ELSE known

\* A refresh that starts after a cancellation finds nothing.
Fresh == {s \in Findings : latch => s.plan = "unknown"}

\* The committed value stands in for a refresh that yields nothing.
Committed ==
  /\ \E s \in Fresh :
       snap' = IF s.ready THEN Published(s)
               ELSE [s EXCEPT !.ready = TRUE, !.known = TRUE,
                              !.endpoint = IF kind = "proxy" THEN target ELSE snap.endpoint]
  /\ Remember /\ mutation' = [op |-> operation, failed |-> FALSE]
  /\ UNCHANGED launched /\ Session!Settle("committed")

Declined ==
  /\ UNCHANGED <<snap, known, launched>> /\ mutation' = [op |-> operation, failed |-> TRUE]
  /\ Session!Settle("refused")

Launched ==
  /\ snap' = [snap EXCEPT !.stopped = FALSE]
  /\ \E failed \in BOOLEAN : launched' = [op |-> operation, failed |-> failed]
  /\ UNCHANGED <<known, mutation>> /\ Session!Settle("launched")

Panicked ==
  /\ Panics
  /\ snap' = [snap EXCEPT !.error = TRUE]
  /\ UNCHANGED <<known, launched, mutation>> /\ Session!Settle("panicked")

Refreshed ==
  /\ \E s \in Fresh : snap' = Published(s)
  /\ Remember /\ UNCHANGED <<launched, mutation>> /\ Session!Settle("snapshot")

\* Event, as poll returns it.
EventOf ==
  IF launched'.op = operation THEN "OperationFinished"
  ELSE IF mutation'.op = operation THEN "MutationFinished"
  ELSE IF phase = "cancelling" THEN "MutationFailed"
  ELSE "SnapshotArrived"

Collect ==
  /\ mail /\ mail' = FALSE
  /\ Refreshed \/ Committed \/ Declined \/ Launched \/ Panicked
  /\ repair' # 0 => ~elevated /\ snap'.stopped
  /\ UNCHANGED <<latch, target, elevated>>

\* The budget is gone before a result arrived.
OverBudget ==
  /\ ~mail /\ latch' = TRUE
  /\ UNCHANGED <<Facts, mail, target>> /\ Session!TimeOut

\* What the view offers, a request for it accepts: the gates of view() and those
\* of request_launch and request_set_backend_consent are written apart and agree,
\* short of a file that changed in between.
OfferedActionsAreAccepted ==
  /\ View.canLaunch => LaunchAuthorized /\ Session!Authorized("launch")
  /\ View.consent # 0 => Session!Authorized("consent")
  /\ View.repair # 0 => LaunchAuthorized /\ Session!Authorized("repair")

ClientTypeOK ==
  /\ phase \in {"idle", "running", "cancelling"} /\ kind \in Session!Kinds \cup {"none"}
  /\ operation \in 0..MaxOps + 1 /\ revision \in 0..operation
  /\ {consent, repair} \subseteq 0..revision
  /\ closed \in {"open", "closing", "closed"}
  /\ snap \in Snapshots /\ known \in Endpoints \cup {Blank}
  /\ {mail, latch, elevated} \subseteq BOOLEAN
  /\ target \in Endpoints \cup {Blank}
  /\ {launched, mutation} \subseteq [op : 0..operation, failed : BOOLEAN]
==============================================================================
