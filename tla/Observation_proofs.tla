-------------------------- MODULE Observation_proofs --------------------------
(***************************************************************************)
(* Observation for any pids, kinds of neighbours, spawns and times: what   *)
(* "stopped", a reported pid and a confirmed launch say of the processes.  *)
(***************************************************************************)
EXTENDS Observation, TLAPS

\* What the assumption says of the constants.
LEMMA Distinct ==
  /\ NoPid \notin Pids /\ MaxSpawns \in Nat /\ MaxTime \in Nat /\ MaxTime > 0
  /\ Neighbours \subseteq Kinds
  /\ OwnImage \subseteq Kinds /\ OwnPackage \subseteq Kinds
  /\ \A k \in OwnImage \cap OwnPackage : k # Elevated => k = Desktop
BY ObservationAssumption DEF Kinds, OwnImage, OwnPackage

\* The initial states satisfy the invariant.
LEMMA InitInv == Init => Inv
<1> SUFFICES ASSUME Init PROVE Inv
  OBVIOUS
<1>1. SystemOK
  BY Distinct DEF Init, SystemOK
<1>2. WalkOK
  BY DEF Init, WalkOK, Labels, NoState, SomePid
<1>3. WorkerOK
  <2>1. NoReceipt \in Receipts
    BY DEF NoReceipt, Receipts, Observations, SomePid
  <2>2. Nobody \in [kind : Kinds, born : 0..MaxTime, lasted : BOOLEAN]
    BY Distinct DEF Nobody, Kinds
  <2> QED
    BY <2>1, <2>2 DEF Init, WorkerOK, SomePid
<1>4. Walked
  BY DEF Init, Walked, Covered, NoState
<1>5. Observed /\ Reached
  BY DEF Init, Observed, Reached, NoReceipt
<1>6. StoppedIsObserved /\ RootIsReported /\ ReceiptIsVerified /\ ReceiptsAreAccepted
  BY DEF Init, StoppedIsObserved, RootIsReported, ReceiptIsVerified, ReceiptsAreAccepted, NoState
<1> QED
  BY <1>1, <1>2, <1>3, <1>4, <1>5, <1>6 DEF Inv, TypeOK

------------------------------------------------------------------------------
(* Processes.                                                              *)

\* A process record is what Process makes, and ending it changes one field.
LEMMA Made ==
  ASSUME SystemOK, NEW kind \in Kinds, NEW parent \in SomePid, NEW closed \in BOOLEAN
  PROVE  Process(kind, parent, closed) \in Processes
BY DEF Process, Processes, SystemOK

\* Pids that nobody has, and the present ones.
LEMMA Procs ==
  ASSUME SystemOK
  PROVE  /\ Present \subseteq Pids /\ Running \subseteq Present
         /\ \A p \in Present : procs[p] \in Processes
         /\ \A p \in Pids \ Present : procs[p] = Absent
<1>1. /\ Present = {p \in Pids : procs[p].up} /\ Running = {p \in Present : procs[p].running}
      /\ \A p \in Pids : procs[p] \in {Absent} \cup Processes
  BY DEF SystemOK, Present, Running
<1>2. Absent.up = FALSE
  BY DEF Absent
<1>3. \A r \in Processes : r.up = TRUE
  BY DEF Processes
<1>4. ASSUME NEW p \in Pids PROVE procs[p] = Absent \/ (procs[p] \in Processes /\ procs[p].up)
  BY <1>1, <1>3
<1>5. \A p \in Present : procs[p] \in Processes
  BY <1>1, <1>2, <1>4
<1>6. \A p \in Pids \ Present : procs[p] = Absent
  BY <1>1, <1>4
<1> QED
  BY <1>1, <1>5, <1>6

\* What other programs do leaves the walk and the worker alone, as long as no
\* survivor and no process held open goes away unnoticed.
LEMMA SteadyInv ==
  ASSUME Inv, SystemOK', now <= now', survivors' \subseteq survivors,
         UNCHANGED <<pc, walk, unreadable, report>>,
         \A p \in survivors' : procs'[p].up /\ procs'[p].running /\ procs'[p].kind \in OwnImage,
         pc \in {"query", "probe"} => procs'[handle].up
  PROVE  Inv'
<1> USE DEF Inv, walk, report
<1>1. TypeOK'
  BY DEF TypeOK, SystemOK, WalkOK, WorkerOK
<1>2. Walked'
  BY DEF Walked, Covered, Ahead
<1>3. Observed' /\ Reached'
  BY DEF Observed, Reached
<1>4. StoppedIsObserved' /\ RootIsReported' /\ ReceiptIsVerified' /\ ReceiptsAreAccepted'
  BY DEF StoppedIsObserved, RootIsReported, ReceiptIsVerified, ReceiptsAreAccepted
<1> QED
  BY <1>1, <1>2, <1>3, <1>4

LEMMA ProcessesInv == ASSUME Inv, Spawn \/ End \/ Vanish \/ Pass PROVE Inv'
<1>0. /\ SystemOK /\ now \in 1..MaxTime /\ now \in Nat /\ spawns \in 0..MaxSpawns /\ handle \in SomePid
      /\ procs \in [Pids -> {Absent} \cup Processes] /\ survivors \subseteq Pids
      /\ \A p \in survivors : p \in Running /\ procs[p].up /\ procs[p].running /\ procs[p].kind \in OwnImage
      /\ pc \in {"query", "probe"} => handle \in Pids /\ procs[handle].up
  BY DEF Inv, TypeOK, SystemOK, WalkOK, WorkerOK, Walked, Reached, Running, Present
<1>1. UNCHANGED <<pc, walk, unreadable, report>>
  BY DEF Spawn, End, Vanish, Pass, Steady
<1>2. ASSUME Spawn PROVE Inv'
  <2>1. PICK p \in Pids \ Present, kind \in Neighbours, parent \in Running \cup {NoPid}, closed \in BOOLEAN :
          procs' = [procs EXCEPT ![p] = Process(kind, parent, closed)]
    BY <1>2 DEF Spawn
  <2>2. Process(kind, parent, closed) \in Processes
    BY <1>0, Made, Procs, Distinct DEF SomePid
  <2>3. SystemOK'
    BY <1>0, <1>2, <2>1, <2>2, Distinct DEF Spawn, SystemOK
  <2>4. p \notin survivors /\ (pc \in {"query", "probe"} => p # handle)
    BY <1>0 DEF Present
  <2>5. \A q \in Pids \ {p} : procs'[q] = procs[q]
    BY <1>0, <2>1
  <2> QED
    BY <1>0, <1>1, <1>2, <2>3, <2>4, <2>5, SteadyInv DEF Spawn
<1>3. ASSUME End PROVE Inv'
  <2>1. PICK p \in Running : procs' = [procs EXCEPT ![p].running = FALSE] /\ survivors' = survivors \ {p}
    BY <1>3 DEF End
  <2>2. p \in Pids /\ procs[p] \in Processes
    BY <1>0, Procs
  <2>3. [procs[p] EXCEPT !.running = FALSE] \in Processes
    BY <2>2 DEF Processes
  <2>4. procs' \in [Pids -> {Absent} \cup Processes] /\ procs'[p].up
    BY <1>0, <2>1, <2>2, <2>3 DEF Processes
  <2>5. SystemOK' /\ now' = now
    BY <1>0, <1>3, <2>4 DEF End, SystemOK
  <2>6. \A q \in Pids \ {p} : procs'[q] = procs[q]
    BY <1>0, <2>1
  <2> QED
    BY <1>0, <1>1, <2>1, <2>4, <2>5, <2>6, SteadyInv
<1>4. ASSUME Vanish PROVE Inv'
  <2>1. PICK p \in Present \ (Running \cup {handle}) : procs' = [procs EXCEPT ![p] = Absent]
    BY <1>4 DEF Vanish
  <2>2. p \in Pids
    BY <1>0, Procs
  <2>3. SystemOK' /\ UNCHANGED <<now, survivors>>
    BY <1>0, <1>4, <2>1 DEF Vanish, SystemOK
  <2>4. \A q \in Pids \ {p} : procs'[q] = procs[q]
    BY <1>0, <2>1
  <2> QED
    BY <1>0, <1>1, <2>1, <2>3, <2>4, SteadyInv
<1>5. ASSUME Pass PROVE Inv'
  <2>1. SystemOK' /\ now <= now'
    BY <1>0, <1>5, Distinct DEF Pass, SystemOK
  <2> QED
    BY <1>0, <1>1, <1>5, <2>1, SteadyInv DEF Pass
<1> QED
  BY <1>2, <1>3, <1>4, <1>5

------------------------------------------------------------------------------
(* The walk.                                                               *)

\* A step of the walk leaves the worker's part as it is.
LEMMA WalkKeepsWorker ==
  ASSUME Inv, World, UNCHANGED report, pc \in {"before", "walk"},
         pc' \in {"walk", "refused", "activate"}
  PROVE  /\ SystemOK' /\ WorkerOK' /\ Observed' /\ Reached'
         /\ ReceiptIsVerified' /\ ReceiptsAreAccepted'
BY DEF Inv, TypeOK, SystemOK, WorkerOK, Observed, Reached, ReceiptIsVerified, ReceiptsAreAccepted,
       World, report

LEMMA SnapshotInv == ASSUME Inv, TakeSnapshot PROVE Inv'
<1>1. /\ pc = "before" /\ pc' = "walk" /\ World /\ UNCHANGED <<candidates, unknown, state, report>>
      /\ entries' = {[pid |-> p, parent |-> procs[p].parent] : p \in Running}
      /\ survivors' = Own /\ unreadable' = {}
  BY DEF TakeSnapshot, Goto
<1>2. SystemOK' /\ WorkerOK' /\ Observed' /\ Reached' /\ ReceiptIsVerified' /\ ReceiptsAreAccepted'
  BY <1>1, WalkKeepsWorker
<1>3. \A p \in Running : p \in Pids /\ procs[p] \in Processes
  BY Procs DEF Inv, TypeOK
<1>4. WalkOK'
  <2>1. entries' \subseteq Entries
    <3>1. \A p \in Running : p \in Pids /\ procs[p].parent \in SomePid
      BY <1>3 DEF Processes
    <3>2. \A p \in Running : [pid |-> p, parent |-> procs[p].parent] \in Entries
      BY <3>1 DEF Entries
    <3> QED
      BY <1>1, <3>2
  <2> QED
    BY <1>1, <1>3, <2>1 DEF Inv, TypeOK, WalkOK, Labels, Own
<1>5. Walked'
  <2>1. candidates' = {} /\ state'.state = "none"
    BY <1>1 DEF Inv, Walked
  <2>2. \A p \in survivors' : procs'[p].up /\ procs'[p].running /\ procs'[p].kind \in OwnImage
    BY <1>1 DEF Own, Running, Present, World
  <2>3. \A e, f \in entries' \cup candidates' : e.pid = f.pid => e = f
    BY <1>1, <2>1
  <2>4. Covered'
    <3>1. ASSUME NEW p \in survivors' PROVE \E e \in entries' : e.pid = p
      <4>1. p \in Running
        BY <1>1, <3>1 DEF Own
      <4>2. [pid |-> p, parent |-> procs[p].parent] \in entries'
        BY <1>1, <4>1
      <4> QED
        BY <4>2
    <3> QED
      BY <3>1 DEF Covered, Ahead
  <2> QED
    BY <1>1, <2>1, <2>2, <2>3, <2>4 DEF Walked
<1>6. StoppedIsObserved' /\ RootIsReported'
  BY <1>1 DEF Inv, Walked, StoppedIsObserved, RootIsReported
<1> QED
  BY <1>2, <1>4, <1>5, <1>6 DEF Inv, TypeOK

\* Whatever the look at a survivor's entry finds, it is not lost.
LEMMA WalkInv == ASSUME Inv, Walk PROVE Inv'
<1>1. PICK e \in entries : Inspect(e) /\ entries' = entries \ {e}
  BY DEF Walk
<1>2. pc = "walk" /\ pc' = "walk" /\ World /\ UNCHANGED <<survivors, state, report>>
  BY DEF Walk, Goto
<1>3. SystemOK' /\ WorkerOK' /\ Observed' /\ Reached' /\ ReceiptIsVerified' /\ ReceiptsAreAccepted'
  BY <1>2, WalkKeepsWorker
<1>4. /\ candidates' \in {candidates, candidates \cup {e}}
      /\ unknown => unknown'
      /\ unreadable \subseteq unreadable'
      /\ unknown' \in BOOLEAN /\ unreadable' \subseteq Pids
  BY <1>1 DEF Inspect, Unread, Inv, TypeOK, WalkOK, Entries
<1>5. e.pid \in survivors => e \in candidates' \/ (unknown' /\ e.pid \in unreadable')
  BY <1>1 DEF Inspect, Unread, Opens, Inv, Walked
<1>6. entries' \cup candidates' \subseteq entries \cup candidates
  BY <1>1, <1>4
<1>7. WalkOK'
  BY <1>1, <1>2, <1>4, <1>6 DEF Inv, TypeOK, WalkOK, Labels
<1>8. Walked'
  <2>1. Covered /\ state.state = "none"
    BY <1>2 DEF Inv, Walked
  <2>2. Covered'
    <3> SUFFICES ASSUME NEW p \in survivors, \A f \in entries' : f.pid # p
                 PROVE  (\E c \in candidates' : c.pid = p) \/ (unknown' /\ p \in unreadable')
      BY <1>2 DEF Covered, Ahead
    <3>1. CASE p = e.pid
      BY <1>5, <3>1
    <3>2. CASE p # e.pid
      <4>1. p \notin Ahead
        BY <1>1, <3>2 DEF Ahead
      <4> QED
        BY <1>4, <2>1, <4>1 DEF Covered
    <3> QED
      BY <3>1, <3>2
  <2> QED
    BY <1>2, <1>6, <2>1, <2>2 DEF Inv, Walked, World
<1>9. StoppedIsObserved' /\ RootIsReported'
  BY <1>2 DEF Inv, Walked, StoppedIsObserved, RootIsReported
<1> QED
  BY <1>3, <1>7, <1>8, <1>9 DEF Inv, TypeOK

\* A state is concluded: from here on the walk is history.
LEMMA ConcludeInv ==
  ASSUME Inv, pc \in {"before", "walk"}, World,
         UNCHANGED <<candidates, unknown, unreadable, report>>,
         entries' \subseteq entries, survivors' \subseteq survivors,
         NEW v \in {"unknown", "stopped", "running"}, NEW p \in SomePid, Conclude(v, p),
         v = "stopped" => survivors' = {},
         v = "running" => \A c \in candidates : c.pid = p => c.parent \notin survivors' \ unreadable
  PROVE  Inv'
<1>1. state' = [state |-> v, pid |-> p] /\ pc' \in {"activate", "refused"}
  BY DEF Conclude
<1>2. SystemOK' /\ WorkerOK' /\ Observed' /\ Reached' /\ ReceiptIsVerified' /\ ReceiptsAreAccepted'
  BY <1>1, WalkKeepsWorker
<1>3. WalkOK'
  BY <1>1 DEF Inv, TypeOK, WalkOK, Labels
<1>4. Walked'
  BY <1>1 DEF Inv, Walked, World
<1>5. StoppedIsObserved' /\ RootIsReported'
  BY <1>1 DEF StoppedIsObserved, RootIsReported
<1> QED
  BY <1>2, <1>3, <1>4, <1>5 DEF Inv, TypeOK

LEMMA ClassifyInv == ASSUME Inv, WalkFails \/ Classify PROVE Inv'
<1>1. CASE WalkFails
  BY <1>1, ConcludeInv DEF WalkFails, SomePid
<1>2. CASE Classify
  <2>1. /\ pc = "walk" /\ World
        /\ UNCHANGED <<candidates, unknown, unreadable, report>>
        /\ entries' = {} /\ survivors' = survivors \ Ahead
        /\ Covered /\ candidates \subseteq Entries
    BY <1>2 DEF Classify, Inv, Walked, TypeOK, WalkOK
  <2>2. CASE Roots = {} /\ (unknown \/ candidates # {}) /\ Conclude("unknown", NoPid)
    BY <2>1, <2>2, ConcludeInv DEF SomePid
  <2>3. CASE Roots = {} /\ ~unknown /\ candidates = {} /\ Conclude("stopped", NoPid)
    <3>1. survivors' = {}
      BY <2>1, <2>3 DEF Covered
    <3> QED
      BY <2>1, <2>3, <3>1, ConcludeInv DEF SomePid
  <2>4. ASSUME NEW c \in Roots, Conclude("running", c.pid) PROVE Inv'
    <3>1. c \in candidates /\ c.pid \in SomePid
      BY <2>1 DEF Roots, Entries, SomePid
    <3>2. \A d \in candidates : d.pid = c.pid => d = c
      BY <3>1 DEF Inv, Walked
    <3>3. c.parent \notin survivors' \ unreadable
      BY <2>1 DEF Covered, Roots
    <3> QED
      BY <2>1, <2>4, <3>1, <3>2, <3>3, ConcludeInv
  <2> QED
    BY <1>2, <2>2, <2>3, <2>4 DEF Classify
<1> QED
  BY <1>1, <1>2

------------------------------------------------------------------------------
(* The activation worker.                                                  *)

\* A step of the worker leaves what the walk found.
LEMMA WorkerKeepsWalk ==
  ASSUME Inv, Watching, SystemOK', pc \notin {"before", "walk"}, pc' \in Labels \ {"before", "walk"},
         \A p \in survivors : procs'[p] = procs[p]
  PROVE  WalkOK' /\ Walked' /\ StoppedIsObserved' /\ RootIsReported'
BY DEF Inv, TypeOK, WalkOK, Walked, StoppedIsObserved, RootIsReported, Watching, walk

\* The same for the steps that come before the verdict and leave the processes alone.
LEMMA WorkerInv ==
  ASSUME Inv, Watching, World, pc \notin {"before", "walk"},
         pc' \in Labels \ {"before", "walk", "settled"}, UNCHANGED verdict, verdict = "none",
         WorkerOK', Observed', Reached'
  PROVE  Inv'
<1>1. SystemOK'
  BY DEF Inv, TypeOK, SystemOK, World
<1>2. ReceiptIsVerified' /\ ReceiptsAreAccepted'
  BY DEF ReceiptIsVerified, ReceiptsAreAccepted
<1> QED
  BY <1>1, <1>2, WorkerKeepsWalk DEF Inv, TypeOK, World

\* The steps before the activation manager answers, and its refusal.
LEMMA SubmitInv == ASSUME Inv, WorkerFails \/ ReadTime \/ ActivationRefused PROVE Inv'
<1>1. /\ pc \in {"activate", "call"} /\ pc' \in {"validate", "call"}
      /\ Watching /\ World /\ UNCHANGED <<answer, handle, seen, verdict>>
      /\ submitted' \in {submitted, now}
  BY DEF WorkerFails, ReadTime, ActivationRefused, Goto
<1>2. /\ receipt = NoReceipt /\ verdict = "none"
      /\ \/ receipt' = receipt /\ pc' = "call"
         \/ pc' = "validate" /\ receipt' = [NoReceipt EXCEPT !.failure = TRUE]
         \/ pc' = "validate" /\ receipt' = [NoReceipt EXCEPT !.hresult = TRUE]
  BY DEF WorkerFails, ReadTime, ActivationRefused, Goto, Inv, Reached
<1>3. receipt' \in Receipts
  <2>1. NoReceipt \in Receipts
    BY DEF NoReceipt, Receipts, Observations, SomePid
  <2>2. [NoReceipt EXCEPT !.failure = TRUE] \in Receipts /\ [NoReceipt EXCEPT !.hresult = TRUE] \in Receipts
    BY <2>1 DEF Receipts
  <2> QED
    BY <1>2, <2>1, <2>2
<1>4. WorkerOK'
  BY <1>1, <1>3 DEF Inv, TypeOK, SystemOK, WorkerOK, World
<1>5. Observed' /\ Reached'
  BY <1>1, <1>2 DEF Observed, Reached, NoReceipt
<1> QED
  BY <1>1, <1>2, <1>4, <1>5, WorkerInv DEF Labels

LEMMA ActivatedInv == ASSUME Inv, Activated PROVE Inv'
<1>1. /\ pc = "call" /\ pc' = "open" /\ Watching
      /\ UNCHANGED <<now, spawns, submitted, handle, seen, verdict>>
      /\ receipt' = [receipt EXCEPT !.returned = TRUE, !.pid = answer']
  BY DEF Activated, Goto
<1>2. receipt = NoReceipt /\ verdict = "none" /\ SystemOK
  BY <1>1 DEF Inv, TypeOK, Reached
<1>3. answer' \in Pids /\ SystemOK' /\ \A p \in Present : procs'[p] = procs[p]
  <2>1. CASE \E p \in Running : answer' = p /\ UNCHANGED procs
    BY <1>1, <1>2, <2>1, Procs DEF SystemOK
  <2>2. ASSUME NEW p \in Pids \ Present, NEW kind \in Kinds,
               procs' = [procs EXCEPT ![p] = Process(kind, NoPid, FALSE)] /\ answer' = p
        PROVE  answer' \in Pids /\ SystemOK' /\ \A q \in Present : procs'[q] = procs[q]
    <3>1. Process(kind, NoPid, FALSE) \in Processes
      BY <1>2, Made DEF SomePid
    <3>2. procs \in [Pids -> {Absent} \cup Processes] /\ Present \subseteq Pids
      BY <1>2, Procs DEF SystemOK
    <3> QED
      BY <1>1, <1>2, <2>2, <3>1, <3>2 DEF SystemOK
  <2> QED
    BY <2>1, <2>2 DEF Activated
<1>4. /\ receipt'.returned = TRUE /\ receipt'.pid = answer' /\ receipt'.failure = FALSE
      /\ receipt'.hresult = FALSE /\ receipt'.package = "not_queried" /\ receipt'.elevation = "null"
      /\ receipt'.instance = "unknown" /\ receipt' \in Receipts
  BY <1>1, <1>2, <1>3 DEF NoReceipt, Receipts, Observations, SomePid
<1>5. WorkerOK'
  BY <1>1, <1>3, <1>4 DEF Inv, TypeOK, WorkerOK, SomePid
<1>6. Observed' /\ Reached'
  BY <1>1, <1>2, <1>3, <1>4, Distinct DEF Observed, Reached
<1>7. \A p \in survivors : procs'[p] = procs[p]
  BY <1>3 DEF Inv, Walked, TypeOK, WalkOK, Present
<1>8. ReceiptIsVerified' /\ ReceiptsAreAccepted'
  BY <1>1, <1>2 DEF ReceiptIsVerified, ReceiptsAreAccepted
<1> QED
  BY <1>1, <1>3, <1>5, <1>6, <1>7, <1>8, WorkerKeepsWalk DEF Inv, TypeOK, Labels

LEMMA OpenInv == ASSUME Inv, OpenAnswered \/ OpenFails PROVE Inv'
<1>1. /\ pc = "open" /\ Watching /\ World /\ UNCHANGED <<submitted, answer, verdict>>
      /\ answer \in Pids /\ verdict = "none" /\ receipt \in Receipts
      /\ receipt.package = "not_queried" /\ receipt.elevation = "null" /\ receipt.instance = "unknown"
  BY DEF OpenAnswered, OpenFails, Goto, Inv, TypeOK, WorkerOK, Reached
<1>2. CASE OpenAnswered
  <2>1. pc' = "query" /\ handle' = answer /\ procs[answer].up /\ receipt' = receipt
        /\ seen' = [kind |-> procs[answer].kind, born |-> procs[answer].born, lasted |-> FALSE]
    BY <1>2 DEF OpenAnswered, Goto, Opens
  <2>2. procs[answer] \in Processes
    BY <1>1, <2>1, Procs DEF Inv, TypeOK, Present
  <2>3. seen' \in [kind : Kinds, born : 0..MaxTime, lasted : BOOLEAN]
    <3>1. procs[answer].kind \in Kinds /\ procs[answer].born \in 1..MaxTime
      BY <2>2 DEF Processes
    <3>2. procs[answer].born \in 0..MaxTime
      BY <3>1, Distinct
    <3> QED
      BY <2>1, <3>1, <3>2
  <2>4. WorkerOK'
    BY <1>1, <2>1, <2>3 DEF Inv, TypeOK, WorkerOK, World, SomePid
  <2>5. Observed' /\ Reached'
    BY <1>1, <2>1 DEF Inv, Observed, Reached, World
  <2> QED
    BY <1>1, <2>1, <2>4, <2>5, WorkerInv DEF Labels
<1>3. CASE OpenFails
  <2>1. pc' = "validate" /\ UNCHANGED <<handle, seen>>
        /\ receipt' = [receipt EXCEPT !.package = "query_failed", !.aumid = "query_failed",
                                      !.incomplete = TRUE]
    BY <1>3 DEF OpenFails, Goto
  <2>2. /\ receipt' \in Receipts /\ receipt'.package = "query_failed" /\ receipt'.elevation = "null"
        /\ receipt'.instance = "unknown" /\ receipt'.returned = receipt.returned
        /\ receipt'.pid = receipt.pid /\ receipt'.failure = receipt.failure
        /\ receipt'.hresult = receipt.hresult
    BY <1>1, <2>1 DEF Receipts, Observations
  <2>3. WorkerOK'
    BY <1>1, <2>1, <2>2 DEF Inv, TypeOK, WorkerOK, World
  <2>4. Observed' /\ Reached'
    BY <1>1, <2>1, <2>2 DEF Inv, Observed, Reached
  <2> QED
    BY <1>1, <2>1, <2>3, <2>4, WorkerInv DEF Labels
<1> QED
  BY <1>2, <1>3

\* What the queries put into the receipt is what the process is.
LEMMA QueryInv == ASSUME Inv, Query PROVE Inv'
<1>1. /\ pc = "query" /\ pc' = "probe" /\ World /\ Watching
      /\ UNCHANGED <<submitted, answer, handle, seen, verdict>>
      /\ verdict = "none" /\ receipt \in Receipts /\ SystemOK
      /\ seen \in [kind : Kinds, born : 0..MaxTime, lasted : BOOLEAN] /\ submitted \in 0..now
  BY DEF Query, Goto, Inv, TypeOK, WorkerOK, Reached
<1>2. PICK package, aumid, token, times, image \in BOOLEAN :
       receipt' = [receipt EXCEPT
         !.package    = IF package THEN Identity(seen.kind) ELSE "query_failed",
         !.aumid      = IF aumid THEN Identity(seen.kind) ELSE "query_failed",
         !.elevation  = IF ~token THEN "null" ELSE IF seen.kind = Elevated THEN "true" ELSE "false",
         !.instance   = IF times THEN ClassifyInstance(seen.born, submitted) ELSE @,
         !.incomplete = ~token \/ ~times \/ ImageFails(image)]
  BY DEF Query
<1>3. PICK missed \in BOOLEAN : missed = (~token \/ ~times \/ ImageFails(image))
  OBVIOUS
<1>4. PICK pack \in Observations : pack = IF package THEN Identity(seen.kind) ELSE "query_failed"
  BY DEF Identity, Observations
<1>5. PICK app \in Observations : app = IF aumid THEN Identity(seen.kind) ELSE "query_failed"
  BY DEF Identity, Observations
<1>6. PICK token1 \in {"null", "true", "false"} :
        token1 = IF ~token THEN "null" ELSE IF seen.kind = Elevated THEN "true" ELSE "false"
  OBVIOUS
<1>7. PICK age \in {"unknown", "created", "reused"} :
        age = IF times THEN ClassifyInstance(seen.born, submitted) ELSE receipt.instance
  BY <1>1 DEF ClassifyInstance, Receipts
<1>8. receipt' = [receipt EXCEPT !.package = pack, !.aumid = app, !.elevation = token1,
                                 !.instance = age, !.incomplete = missed]
  BY <1>2, <1>3, <1>4, <1>5, <1>6, <1>7
<1>9. /\ receipt' \in Receipts /\ receipt'.package = pack /\ receipt'.elevation = token1
      /\ receipt'.instance = age /\ receipt'.incomplete = missed
      /\ receipt'.returned = receipt.returned /\ receipt'.pid = receipt.pid
      /\ receipt'.failure = receipt.failure /\ receipt'.hresult = receipt.hresult
  BY <1>1, <1>8 DEF Receipts
<1>10. pack = "matched" => seen.kind \in OwnPackage
  BY <1>4 DEF Identity
<1>11. token1 = "false" => seen.kind # Elevated
  BY <1>6
<1>12. ~missed => seen.kind \in OwnImage
  BY <1>3 DEF ImageFails
<1>13. (age = "created" => seen.born > submitted) /\ (age = "reused" => seen.born < submitted)
  <2>1. seen.born \in Nat /\ submitted \in Nat
    BY <1>1, Distinct DEF SystemOK
  <2>2. CASE times
    BY <1>7, <2>1, <2>2 DEF ClassifyInstance
  <2>3. CASE ~times
    BY <1>7, <2>3 DEF Inv, Observed
  <2> QED
    BY <2>2, <2>3
<1>14. WorkerOK'
  BY <1>1, <1>9 DEF Inv, TypeOK, WorkerOK, World
<1>15. Observed'
  BY <1>1, <1>9, <1>10, <1>11, <1>12, <1>13 DEF Observed
<1>16. Reached'
  BY <1>1, <1>9 DEF Inv, Reached, World
<1> QED
  BY <1>1, <1>14, <1>15, <1>16, WorkerInv DEF Labels

\* A process that is not seen to have exited was running at the end of the probe.
LEMMA ProbeInv == ASSUME Inv, Probe PROVE Inv'
<1>1. /\ pc = "probe" /\ pc' = "validate" /\ World /\ Watching
      /\ UNCHANGED <<submitted, answer, verdict>> /\ handle' = NoPid
      /\ seen' = [seen EXCEPT !.lasted = procs[handle].running]
      /\ verdict = "none" /\ receipt \in Receipts
      /\ seen \in [kind : Kinds, born : 0..MaxTime, lasted : BOOLEAN]
      /\ handle \in Pids /\ procs[handle].up
  BY DEF Probe, Goto, Inv, TypeOK, WorkerOK, Reached
<1>2. procs[handle].running \in BOOLEAN
  BY <1>1, Procs DEF Inv, TypeOK, Present, Processes
<1>3. PICK fails \in BOOLEAN :
       receipt' = [receipt EXCEPT !.exited = ~procs[handle].running /\ ~fails,
                                  !.incomplete = @ \/ fails]
  BY DEF Probe
<1>4. PICK exited, missed \in BOOLEAN :
        /\ exited = (~procs[handle].running /\ ~fails)
        /\ missed = (receipt.incomplete \/ fails)
  OBVIOUS
<1>5. receipt' = [receipt EXCEPT !.exited = exited, !.incomplete = missed]
  BY <1>3, <1>4
<1>6. /\ receipt' \in Receipts /\ receipt'.exited = exited /\ receipt'.incomplete = missed
      /\ receipt'.package = receipt.package /\ receipt'.elevation = receipt.elevation
      /\ receipt'.instance = receipt.instance
      /\ receipt'.returned = receipt.returned /\ receipt'.pid = receipt.pid
      /\ receipt'.failure = receipt.failure /\ receipt'.hresult = receipt.hresult
  BY <1>1, <1>5 DEF Receipts
<1>7. /\ seen' \in [kind : Kinds, born : 0..MaxTime, lasted : BOOLEAN]
      /\ seen'.kind = seen.kind /\ seen'.born = seen.born /\ seen'.lasted = procs[handle].running
  BY <1>1, <1>2
<1>8. ~missed => ~receipt.incomplete
  BY <1>4
<1>9. ~missed /\ ~exited => procs[handle].running
  BY <1>2, <1>4
<1>10. WorkerOK'
  BY <1>1, <1>6, <1>7 DEF Inv, TypeOK, WorkerOK, World, SomePid
<1>11. Observed'
  BY <1>1, <1>6, <1>7, <1>8, <1>9 DEF Inv, Observed
<1>12. Reached'
  BY <1>1, <1>6 DEF Inv, Reached
<1> QED
  BY <1>1, <1>10, <1>11, <1>12, WorkerInv DEF Labels

LEMMA PublishInv == ASSUME Inv, Publish PROVE Inv'
<1>1. /\ pc = "validate" /\ pc' = "settled" /\ World /\ Watching
      /\ UNCHANGED <<submitted, answer, handle, seen, receipt>>
      /\ verdict' = IF ~Consistent THEN "invalid" ELSE IF Confirmed THEN "receipt" ELSE "error"
  BY DEF Publish, Goto
<1>2. Consistent
  BY DEF Consistent, Inv, TypeOK, WorkerOK, Receipts, Reached
<1>3. SystemOK' /\ WorkerOK'
  BY <1>1 DEF Inv, TypeOK, SystemOK, WorkerOK, World
<1>4. Observed' /\ Reached' /\ ReceiptsAreAccepted'
  BY <1>1, <1>2 DEF Inv, Observed, Reached, ReceiptsAreAccepted
<1>5. ReceiptIsVerified'
  <2>1. Confirmed => seen.kind \in OwnPackage \cap OwnImage /\ seen.kind # Elevated /\ seen.lasted
    BY <1>1 DEF Confirmed, Inv, Observed
  <2> QED
    BY <1>1, <1>2, <2>1, Distinct DEF Inv, Observed, ReceiptIsVerified
<1>6. WalkOK' /\ Walked' /\ StoppedIsObserved' /\ RootIsReported'
  BY <1>1, <1>3, WorkerKeepsWalk DEF World, Labels
<1> QED
  BY <1>3, <1>4, <1>5, <1>6 DEF Inv, TypeOK

\* Every step keeps the invariant.
LEMMA NextInv == Inv /\ [Next]_vars => Inv'
<1> SUFFICES ASSUME Inv, [Next]_vars PROVE Inv'
  OBVIOUS
<1>1. CASE Next
  BY <1>1, ProcessesInv, SnapshotInv, WalkInv, ClassifyInv, SubmitInv, ActivatedInv, OpenInv, QueryInv,
     ProbeInv, PublishInv DEF Next
<1>2. CASE UNCHANGED vars
  BY <1>2 DEF vars, walk, report, Inv, TypeOK, SystemOK, WalkOK, WorkerOK, Walked, Covered, Ahead, Observed,
              Reached, StoppedIsObserved, RootIsReported, ReceiptIsVerified, ReceiptsAreAccepted
<1> QED
  BY <1>1, <1>2

------------------------------------------------------------------------------
(* What holds in every reachable state.                                    *)

\* The inductive invariant of desktop_process_state and activate_and_observe: what
\* the walk has covered, and that the receipt claims only what was observed.
THEOREM Invariance == Spec => []Inv
<1> QED
  BY InitInv, NextInv, PTL DEF Spec

\* Every variable of the walk, the worker and its receipt stays within its type.
THEOREM TypeCorrect == Spec => []TypeOK
<1>1. Inv => TypeOK
  BY DEF Inv
<1> QED
  BY <1>1, Invariance, PTL

\* desktop_process_state calls Desktop stopped only if every Desktop process it walked
\* past has ended since the snapshot, however pids are reused, whatever cannot be
\* opened and wherever Process32NextW breaks the walk off.
THEOREM StoppedObserved == Spec => []StoppedIsObserved
<1>1. Inv => StoppedIsObserved
  BY DEF Inv
<1> QED
  BY <1>1, Invariance, PTL

\* The pid require_stopped reports is a helper's only if its root has ended, could not
\* be read or was not walked.
THEOREM RootReported == Spec => []RootIsReported
<1>1. Inv => RootIsReported
  BY DEF Inv
<1> QED
  BY <1>1, Invariance, PTL

\* activation_receipt confirms a launch only for a process that activate_and_observe
\* saw to be the selected Desktop, not elevated and still running.
THEOREM ReceiptVerified == Spec => []ReceiptIsVerified
<1>1. Inv => ReceiptIsVerified
  BY DEF Inv
<1> QED
  BY <1>1, Invariance, PTL

\* validate_activation_receipt rejects nothing that activate_and_observe produces.
THEOREM ReceiptsAccepted == Spec => []ReceiptsAreAccepted
<1>1. Inv => ReceiptsAreAccepted
  BY DEF Inv
<1> QED
  BY <1>1, Invariance, PTL
==============================================================================
