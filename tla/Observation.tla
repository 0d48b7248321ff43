----------------------------- MODULE Observation -----------------------------
(***************************************************************************)
(* What Guard sees of Desktop around a packaged launch, while processes    *)
(* start and end under its eyes: the walk over a process snapshot that     *)
(* must find Desktop stopped (crates/cpg-windows/src/process_state.rs),    *)
(* the activation worker's look at the process Windows answered with       *)
(* (activation.rs, app/src/worker.rs), and the checks its receipt passes   *)
(* on the way out (cpg-domain/src/worker.rs, cpg-engine/src/launch.rs).    *)
(*                                                                         *)
(* A process is known by its pid, which is free again once it is gone and  *)
(* nobody holds it open.  Queries may fail at any time.                    *)
(***************************************************************************)
EXTENDS Naturals

CONSTANTS
  Pids, NoPid,  \* process ids
  Desktop,      \* the selected installation's process
  Elevated,     \* the same, elevated
  Moved,        \* its package from another directory
  Stray,        \* its executable without the package identity
  Stranger,     \* another program of the same file name
  Neighbours,   \* the kinds other programs start meanwhile
  MaxSpawns, MaxTime   \* bounds

Kinds == {Desktop, Elevated, Moved, Stray, Stranger}
OwnImage == {Desktop, Elevated, Stray}
OwnPackage == {Desktop, Elevated, Moved}

ASSUME ObservationAssumption ==
  /\ NoPid \notin Pids /\ {MaxSpawns, MaxTime} \subseteq Nat
  /\ MaxTime > 0 /\ Neighbours \subseteq Kinds
  /\ Elevated # Desktop /\ Moved \notin OwnImage /\ Stray \notin OwnPackage
  /\ Stranger \notin OwnImage \cup OwnPackage

Absent == [up |-> FALSE]

VARIABLES
  now,         \* the system time
  procs,       \* the process behind each pid, if any
  spawns,
  pc,
  entries,     \* snapshot entries not yet walked
  candidates, unknown,
  state,       \* ProcessState: the state and its pid
  survivors,   \* Desktop processes in the snapshot that are still running, less those
               \* the walk broke off before
  unreadable,  \* pids the walk could not open or query
  submitted,   \* the time read before ActivateApplication
  answer,      \* the pid it returned, NoPid for none
  handle,      \* the pid of the process the worker holds open, NoPid for none
  seen,        \* that process, as it is
  receipt,
  verdict      \* what activation_receipt makes of it

walk == <<entries, candidates, unknown, state>>
report == <<submitted, answer, handle, seen, receipt, verdict>>
vars == <<now, procs, spawns, pc, walk, survivors, unreadable, report>>

\* An ended process stays until the last handle to it is closed.
Process(kind, parent, closed) ==
  [up |-> TRUE, running |-> TRUE, kind |-> kind, parent |-> parent, closed |-> closed, born |-> now]

Observations == {"not_queried", "matched", "missing", "mismatch", "query_failed"}
NoReceipt == [returned |-> FALSE, failure |-> FALSE, hresult |-> FALSE, pid |-> NoPid,
              instance |-> "unknown", package |-> "not_queried", aumid |-> "not_queried",
              elevation |-> "null", exited |-> FALSE, incomplete |-> FALSE]
NoState == [state |-> "none", pid |-> NoPid]
Nobody == [kind |-> Stranger, born |-> 0, lasted |-> FALSE]

Init ==
  /\ now = 1 /\ procs = [p \in Pids |-> Absent] /\ spawns = 0
  /\ pc = "before" /\ entries = {} /\ candidates = {} /\ unknown = FALSE /\ state = NoState
  /\ survivors = {} /\ unreadable = {}
  /\ submitted = 0 /\ answer = NoPid /\ handle = NoPid /\ seen = Nobody
  /\ receipt = NoReceipt /\ verdict = "none"

Present == {p \in Pids : procs[p].up}
Running == {p \in Present : procs[p].running}
Own == {p \in Running : procs[p].kind \in OwnImage}

------------------------------------------------------------------------------
(* Processes.                                                              *)

\* Processes start and time passes until the activated one is held open; it may
\* end until the probe is over.
Steady(last) ==
  /\ pc \in {"before", "walk", "activate", "call", "open"} \cup last
  /\ UNCHANGED <<pc, walk, unreadable, report>>

Spawn ==
  /\ spawns < MaxSpawns /\ spawns' = spawns + 1
  /\ \E p \in Pids \ Present, kind \in Neighbours, parent \in Running \cup {NoPid}, closed \in BOOLEAN :
       procs' = [procs EXCEPT ![p] = Process(kind, parent, closed)]
  /\ UNCHANGED <<now, survivors>> /\ Steady({})

End ==
  /\ \E p \in Running :
       /\ procs' = [procs EXCEPT ![p].running = FALSE]
       /\ survivors' = survivors \ {p}
  /\ UNCHANGED <<now, spawns>> /\ Steady({"query", "probe"})

Vanish ==
  /\ \E p \in Present \ (Running \cup {handle}) : procs' = [procs EXCEPT ![p] = Absent]
  /\ UNCHANGED <<now, spawns, survivors>> /\ Steady({})

Pass ==
  /\ now < MaxTime /\ now' = now + 1
  /\ UNCHANGED <<procs, spawns, survivors>> /\ Steady({})

------------------------------------------------------------------------------
(* desktop_process_state and require_stopped.                              *)

Goto(from, to) == pc = from /\ pc' = to
World == UNCHANGED <<now, procs, spawns>>

TakeSnapshot ==
  /\ Goto("before", "walk")
  /\ entries' = {[pid |-> p, parent |-> procs[p].parent] : p \in Running}
  /\ survivors' = Own /\ unreadable' = {}
  /\ World /\ UNCHANGED <<candidates, unknown, state, report>>

Conclude(verdictOf, pid) ==
  /\ state' = [state |-> verdictOf, pid |-> pid]
  /\ pc' = IF verdictOf = "stopped" THEN "activate" ELSE "refused"

Opens(p) == procs[p].up /\ ~procs[p].closed

Unread(e) == unknown' = TRUE /\ unreadable' = unreadable \cup {e.pid} /\ UNCHANGED candidates

\* Mutant: a process that cannot be opened is taken for one that ended.
InspectOptimistic(e) ==
  IF ~Opens(e.pid) THEN UNCHANGED <<candidates, unknown, unreadable>>
  ELSE IF procs[e.pid].running /\ procs[e.pid].kind \in OwnImage
    THEN candidates' = candidates \cup {e} /\ UNCHANGED <<unknown, unreadable>>
  ELSE UNCHANGED <<candidates, unknown, unreadable>>

\* One entry: whatever has its pid now is opened, waited for and compared.
Inspect(e) ==
  \/ ~Opens(e.pid) /\ Unread(e)
  \/ Opens(e.pid) /\ procs[e.pid].running /\ Unread(e)       \* the image query fails
  \/ /\ Opens(e.pid)
     /\ candidates' = IF procs[e.pid].running /\ procs[e.pid].kind \in OwnImage
                        THEN candidates \cup {e} ELSE candidates
     /\ UNCHANGED <<unknown, unreadable>>

Walk ==
  /\ Goto("walk", "walk") /\ \E e \in entries : Inspect(e) /\ entries' = entries \ {e}
  /\ World /\ UNCHANGED <<survivors, state, report>>

\* The snapshot, its first entry or a wait fails: nothing can be said.
WalkFails ==
  /\ pc \in {"before", "walk"} /\ Conclude("unknown", NoPid)
  /\ World /\ UNCHANGED <<entries, candidates, unknown, survivors, unreadable, report>>

\* Mutant: the first candidate is reported, helper or not.
AnyCandidate == candidates

\* A candidate whose parent is one too is a helper.
Roots == {c \in candidates : \A other \in candidates : other.pid # c.parent}

\* The pids of the entries the walk has not come to.
Ahead == {e.pid : e \in entries}

\* Process32NextW fails and the walk is over: at the end of the snapshot, but for any
\* other error too, with entries nobody looked at.
Classify ==
  /\ pc = "walk" /\ entries' = {} /\ survivors' = survivors \ Ahead
  /\ \/ \E c \in Roots : Conclude("running", c.pid)
     \/ Roots = {} /\ (unknown \/ candidates # {}) /\ Conclude("unknown", NoPid)
     \/ Roots = {} /\ ~unknown /\ candidates = {} /\ Conclude("stopped", NoPid)
  /\ World /\ UNCHANGED <<candidates, unknown, unreadable, report>>

------------------------------------------------------------------------------
(* activate_and_observe.                                                   *)

Watching == UNCHANGED <<walk, survivors, unreadable>>

\* COM or the activation manager is not there.
WorkerFails ==
  /\ Goto("activate", "validate") /\ receipt' = [receipt EXCEPT !.failure = TRUE]
  /\ World /\ Watching /\ UNCHANGED <<submitted, answer, handle, seen, verdict>>

ReadTime ==
  /\ Goto("activate", "call") /\ submitted' = now
  /\ World /\ Watching /\ UNCHANGED <<answer, handle, seen, receipt, verdict>>

\* Mutant: a refused activation counts as returned.
ActivationRefusedReturned ==
  /\ Goto("call", "validate") /\ receipt' = [receipt EXCEPT !.hresult = TRUE, !.returned = TRUE]
  /\ World /\ Watching /\ UNCHANGED <<submitted, answer, handle, seen, verdict>>

ActivationRefused ==
  /\ Goto("call", "validate") /\ receipt' = [receipt EXCEPT !.hresult = TRUE]
  /\ World /\ Watching /\ UNCHANGED <<submitted, answer, handle, seen, verdict>>

\* Windows starts the application or answers with a running process.
Activated ==
  /\ Goto("call", "open")
  /\ \/ \E p \in Running : answer' = p /\ UNCHANGED procs
     \/ \E p \in Pids \ Present, kind \in Kinds :
          procs' = [procs EXCEPT ![p] = Process(kind, NoPid, FALSE)] /\ answer' = p
  /\ receipt' = [receipt EXCEPT !.returned = TRUE, !.pid = answer']
  /\ Watching /\ UNCHANGED <<now, spawns, submitted, handle, seen, verdict>>

OpenAnswered ==
  /\ Goto("open", "query") /\ Opens(answer) /\ handle' = answer
  /\ seen' = [kind |-> procs[answer].kind, born |-> procs[answer].born, lasted |-> FALSE]
  /\ World /\ Watching /\ UNCHANGED <<submitted, answer, receipt, verdict>>

OpenFails ==
  /\ Goto("open", "validate") /\ ~Opens(answer)
  /\ receipt' = [receipt EXCEPT !.package = "query_failed", !.aumid = "query_failed",
                                !.incomplete = TRUE]
  /\ World /\ Watching /\ UNCHANGED <<submitted, answer, handle, seen, verdict>>

Identity(kind) == IF kind \in OwnPackage THEN "matched"
                  ELSE IF kind = Stray THEN "missing" ELSE "mismatch"

\* classify_instance.
ClassifyInstance(born, sent) ==
  IF born = 0 \/ sent = 0 \/ born = sent THEN "unknown"
  ELSE IF born < sent THEN "reused" ELSE "created"

\* Mutant: a failed image query counts as the expected image.
ImageSuspect(known) == known /\ seen.kind \notin OwnImage

\* observe_image.
ImageFails(known) == ~known \/ seen.kind \notin OwnImage

\* Every query of the process held open may fail; what it answers does not change.
Query ==
  /\ Goto("query", "probe")
  /\ \E package, aumid, token, times, image \in BOOLEAN :
       receipt' = [receipt EXCEPT
         !.package    = IF package THEN Identity(seen.kind) ELSE "query_failed",
         !.aumid      = IF aumid THEN Identity(seen.kind) ELSE "query_failed",
         !.elevation  = IF ~token THEN "null" ELSE IF seen.kind = Elevated THEN "true" ELSE "false",
         !.instance   = IF times THEN ClassifyInstance(seen.born, submitted) ELSE @,
         !.incomplete = ~token \/ ~times \/ ImageFails(image)]
  /\ World /\ Watching /\ UNCHANGED <<submitted, answer, handle, seen, verdict>>

\* The 150 ms wait, and the exit code of a process that ended in it.
Probe ==
  /\ Goto("probe", "validate")
  /\ \E fails \in BOOLEAN :
       receipt' = [receipt EXCEPT !.exited = ~procs[handle].running /\ ~fails,
                                  !.incomplete = @ \/ fails]
  /\ seen' = [seen EXCEPT !.lasted = procs[handle].running] /\ handle' = NoPid
  /\ World /\ Watching /\ UNCHANGED <<submitted, answer, verdict>>

------------------------------------------------------------------------------
(* validate_activation_receipt, by worker and Guard, and activation_receipt. *)

Consistent ==
  /\ receipt.instance \in {"unknown", "created", "reused"}
  /\ {receipt.package, receipt.aumid} \subseteq Observations
  /\ receipt.returned <=> receipt.pid # NoPid
  /\ receipt.returned => ~receipt.failure /\ ~receipt.hresult

Confirmed ==
  /\ ~receipt.failure /\ ~receipt.hresult /\ receipt.returned
  /\ receipt.package = "matched" /\ receipt.aumid = "matched"
  /\ ~receipt.exited /\ ~receipt.incomplete /\ receipt.elevation = "false"

Publish ==
  /\ Goto("validate", "settled")
  /\ verdict' = IF ~Consistent THEN "invalid" ELSE IF Confirmed THEN "receipt" ELSE "error"
  /\ World /\ Watching /\ UNCHANGED <<submitted, answer, handle, seen, receipt>>

Next ==
  \/ Spawn \/ End \/ Vanish \/ Pass
  \/ TakeSnapshot \/ Walk \/ WalkFails \/ Classify
  \/ WorkerFails \/ ReadTime \/ ActivationRefused \/ Activated
  \/ OpenAnswered \/ OpenFails \/ Query \/ Probe \/ Publish

Spec == Init /\ [][Next]_vars

------------------------------------------------------------------------------
Labels == {"before", "walk", "refused", "activate", "call", "open", "query", "probe",
           "validate", "settled"}
SomePid == Pids \cup {NoPid}
Processes == [up : {TRUE}, running : BOOLEAN, kind : Kinds, parent : SomePid,
              closed : BOOLEAN, born : 1..MaxTime]
Entries == [pid : Pids, parent : SomePid]
Receipts == [returned : BOOLEAN, failure : BOOLEAN, hresult : BOOLEAN, pid : SomePid,
             instance : {"unknown", "created", "reused"}, package : Observations,
             aumid : Observations, elevation : {"null", "true", "false"},
             exited : BOOLEAN, incomplete : BOOLEAN]

SystemOK ==
  /\ now \in 1..MaxTime /\ spawns \in 0..MaxSpawns
  /\ procs \in [Pids -> {Absent} \cup Processes]

WalkOK ==
  /\ pc \in Labels /\ unknown \in BOOLEAN
  /\ entries \subseteq Entries /\ candidates \subseteq Entries
  /\ survivors \subseteq Pids /\ unreadable \subseteq Pids
  /\ state \in [state : {"none", "unknown", "stopped", "running"}, pid : SomePid]

WorkerOK ==
  /\ submitted \in 0..now /\ answer \in SomePid /\ handle \in SomePid
  /\ seen \in [kind : Kinds, born : 0..MaxTime, lasted : BOOLEAN]
  /\ receipt \in Receipts /\ verdict \in {"none", "invalid", "receipt", "error"}

TypeOK == SystemOK /\ WalkOK /\ WorkerOK

\* Desktop is called stopped only if every Desktop process the walk came to has ended
\* since the snapshot: one that cannot be looked at, or one whose pid another process
\* took, never makes a running Desktop disappear.  The one Desktop that may still run
\* is one whose entry stood behind the point where Process32NextW broke the walk off
\* (desktop_process_state).
StoppedIsObserved == state.state = "stopped" => survivors = {}

\* The pid reported for a running Desktop is that of a helper only if the root it
\* descends from has ended, could not be looked at, or was not walked.
RootIsReported ==
  state.state = "running" =>
    \A c \in candidates : c.pid = state.pid => c.parent \notin survivors \ unreadable

\* A launch is confirmed only by a process that was seen to be the selected Desktop:
\* its package, its executable, not elevated, running at the end of the probe, and
\* as new or as old as the receipt says (activate_and_observe, activation_receipt).
ReceiptIsVerified ==
  verdict = "receipt" =>
    /\ seen.kind = Desktop /\ seen.lasted
    /\ receipt.instance = "created" => seen.born > submitted
    /\ receipt.instance = "reused" => seen.born < submitted

\* Whatever the worker observed, its receipt passes the validation that stands before
\* Guard: no outcome is lost to it.
ReceiptsAreAccepted == verdict # "invalid"

------------------------------------------------------------------------------
(* The inductive invariant.                                                *)

\* While the snapshot is walked, every Desktop process in it that still runs is
\* ahead, was found or could not be read.
Covered ==
  \A p \in survivors \ Ahead :
    (\E c \in candidates : c.pid = p) \/ (unknown /\ p \in unreadable)

Walked ==
  /\ \A p \in survivors : procs[p].up /\ procs[p].running /\ procs[p].kind \in OwnImage
  /\ \A e, f \in entries \cup candidates : e.pid = f.pid => e = f
  /\ pc \in {"before", "walk"} => state.state = "none" /\ Covered
  /\ pc = "before" => entries = {} /\ candidates = {} /\ survivors = {}

\* What the receipt claims was so when it was observed.
Observed ==
  /\ receipt.package = "matched" => seen.kind \in OwnPackage
  /\ receipt.elevation = "false" => seen.kind # Elevated
  /\ receipt.elevation = "false" /\ ~receipt.incomplete => seen.kind \in OwnImage
  /\ receipt.instance = "created" => seen.born > submitted
  /\ receipt.instance = "reused" => seen.born < submitted
  /\ pc \in {"validate", "settled"} /\ receipt.package = "matched"
     /\ ~receipt.incomplete /\ ~receipt.exited => seen.lasted

\* How far the worker is.
Reached ==
  /\ pc \in {"before", "walk", "refused", "activate", "call"} => receipt = NoReceipt
  /\ pc \in {"open", "query", "probe"} =>
       answer \in Pids /\ ~receipt.failure /\ ~receipt.hresult
  /\ pc = "open" =>
       receipt.package = "not_queried" /\ receipt.elevation = "null" /\ receipt.instance = "unknown"
  /\ pc \in {"query", "probe"} => handle \in Pids /\ procs[handle].up
  /\ receipt.returned <=> receipt.pid # NoPid
  /\ receipt.returned => ~receipt.failure /\ ~receipt.hresult
  /\ pc # "settled" => verdict = "none"

Inv ==
  /\ TypeOK /\ Walked /\ Observed /\ Reached
  /\ StoppedIsObserved /\ RootIsReported /\ ReceiptIsVerified /\ ReceiptsAreAccepted
==============================================================================
