------------------------ MODULE EngineSession_proofs ------------------------
(***************************************************************************)
(* EngineSession for any endpoints and bounds: its types, its invariants,  *)
(* what its steps may never do, and that it implements SessionContract.    *)
(***************************************************************************)
EXTENDS EngineSession, FiniteSetTheorems, TLAPS

\* The records the operations start from have their types.
LEMMA Records ==
  /\ MaxOps \in Nat /\ MaxUpsets \in Nat /\ 0 \in 0..MaxOps /\ 0 \in 0..MaxUpsets
  /\ Default \in Configs /\ Blank \in Snapshots
  /\ \A port \in Ports, c \in Configs : [c EXCEPT !.port = port] \in Configs
  /\ \A b \in BOOLEAN, c \in Configs : [c EXCEPT !.manage = b] \in Configs
<1>1. Default \in Configs
  BY ConstantsAssumption DEF Default, Configs
<1>2. Blank \in Snapshots
  BY <1>1 DEF Blank, Snapshots, Processes
<1>3. \A port \in Ports, c \in Configs : [c EXCEPT !.port = port] \in Configs
  BY DEF Configs
<1>4. \A b \in BOOLEAN, c \in Configs : [c EXCEPT !.manage = b] \in Configs
  BY DEF Configs
<1>5. MaxOps \in Nat /\ MaxUpsets \in Nat /\ 0 \in 0..MaxOps /\ 0 \in 0..MaxUpsets
  BY ConstantsAssumption
<1> QED
  BY <1>1, <1>2, <1>3, <1>4, <1>5

\* A task starts as a worker of its kind that has done nothing.
LEMMA TaskType ==
  ASSUME TypeOK, NEW kind \in Kinds, NEW expected \in Configs, NEW next \in Configs,
         NEW rev \in Nat
  PROVE  Task(kind, expected, next, rev) \in Workers
<1>1. operation + 1 \in Nat /\ state.invalid \in BOOLEAN
  BY DEF TypeOK, ControlOK, DisplayOK, Snapshots
<1> QED
  BY <1>1, Records DEF Task, Workers, Kinds

\* The initial states satisfy the invariant.
LEMMA InitInv == Init => Inv
<1> SUFFICES ASSUME Init PROVE Inv
  OBVIOUS
<1>1. WorldOK
  BY Records DEF Init, WorldOK
<1>2. DisplayOK
  <2>1. Len(shown) = 0 /\ shown \in Seq(Screens)
    BY DEF Init
  <2> QED
    BY <2>1, Records DEF Init, DisplayOK
<1>3. ControlOK
  BY Records DEF Init, ControlOK
<1>4. OneWorker /\ Remembered
  BY DEF Init, OneWorker, Remembered, Pending
<1>5. \A w \in workers : Stage(w) /\ Authority(w) /\ Evidence(w)
  BY DEF Init
<1>6. Displayed /\ AuthorizationFitsView /\ EndpointWasOnDisk
  BY DEF Init, Displayed, AuthorizationFitsView, EndpointWasOnDisk, Blank
<1> QED
  BY <1>1, <1>2, <1>3, <1>4, <1>5, <1>6 DEF Inv, TypeOK

\* What a request leaves alone stays in order; its worker has done nothing yet.
LEMMA DispatchInv ==
  ASSUME Inv, NEW kind \in Kinds, NEW next \in Configs, NEW rev \in {0} \cup DOMAIN shown,
         kind = "consent" =>
           /\ rev \in DOMAIN shown /\ shown[rev].consent # None /\ state.config = shown[rev].config
           /\ next = [state.config EXCEPT !.manage = shown[rev].consent.enabled],
         Idle, Invalidate, Requested, Dispatch(Task(kind, state.config, next, rev)),
         spent' \in {spent, revision}
  PROVE  Inv'
<1>1. state.config \in Configs /\ rev \in Nat /\ revision \in Nat
  BY DEF Inv, TypeOK, DisplayOK, Snapshots
<1>2. PICK t \in Workers : t = Task(kind, state.config, next, rev)
  BY <1>1, TaskType DEF Inv
<1>3. workers' = {t}
  BY <1>2 DEF Inv, OneWorker, Idle, Dispatch
<1>4. /\ t.op = operation + 1 /\ t.kind = kind /\ t.expected = state.config /\ t.next = next
      /\ t.rev = rev /\ (t.repair => kind = "proxy") /\ ~t.wrote /\ t.outcome = "none"
      /\ t.result = Blank
      /\ t.at = IF kind = "refresh" THEN "read" ELSE IF kind = "launch" THEN "launch" ELSE "mutate"
  BY <1>2 DEF Task
<1>5. WorldOK'
  BY DEF Inv, TypeOK, WorldOK, Requested, world
<1>6. DisplayOK'
  BY DEF Inv, TypeOK, DisplayOK, Requested, Invalidate, Dispatch
<1>7. ControlOK'
  <2>1. workers' \in SUBSET Workers
    BY <1>3
  <2>2. operation' \in 0..MaxOps
    BY Records DEF Inv, TypeOK, ControlOK, Dispatch
  <2> QED
    BY <2>1, <2>2 DEF Inv, TypeOK, ControlOK, Requested, Dispatch
<1>8. OneWorker'
  BY <1>3 DEF OneWorker, Pending, Dispatch, Idle
<1>9. Stage(t)'
  BY <1>4 DEF Stage, Dispatch, Kinds
<1>10. Authority(t)'
  BY <1>4 DEF Authority, Requested
<1>11. Evidence(t)'
  BY <1>4 DEF Evidence, Blank
<1>12. Displayed'
  BY DEF Inv, Displayed, Requested, Invalidate
<1>13. Remembered'
  BY DEF Inv, Remembered, Requested, Dispatch, world
<1>14. AuthorizationFitsView' /\ EndpointWasOnDisk'
  BY DEF Inv, AuthorizationFitsView, EndpointWasOnDisk, Requested, Invalidate, world
<1> QED
  BY <1>3, <1>5, <1>6, <1>7, <1>8, <1>9, <1>10, <1>11, <1>12, <1>13, <1>14 DEF Inv, TypeOK

\* A refused request only withdraws what is on display.
LEMMA DeclineInv ==
  ASSUME Inv, Invalidate, Requested, Decline, spent' \in {spent, revision}
  PROVE  Inv'
<1>1. revision \in Nat
  BY DEF Inv, TypeOK, DisplayOK
<1>2. WorldOK' /\ ControlOK'
  BY DEF Inv, TypeOK, WorldOK, ControlOK, Requested, Decline, world, control
<1>3. DisplayOK'
  BY <1>1 DEF Inv, TypeOK, DisplayOK, Requested, Invalidate, Decline
<1>4. OneWorker' /\ \A w \in workers' : (Stage(w) /\ Authority(w) /\ Evidence(w))'
  BY DEF Inv, OneWorker, Pending, Stage, Authority, Evidence, Requested, Decline, world, control
<1>5. Displayed' /\ Remembered'
  BY DEF Inv, Displayed, Remembered, Pending, Requested, Invalidate, Decline, world, control
<1>6. AuthorizationFitsView' /\ EndpointWasOnDisk'
  BY DEF Inv, AuthorizationFitsView, EndpointWasOnDisk, Requested, Invalidate, world
<1> QED
  BY <1>2, <1>3, <1>4, <1>5, <1>6 DEF Inv, TypeOK

\* A consent is dispatched only over the offer on display.
LEMMA RequestInv == ASSUME Inv, Request PROVE Inv'
<1>0. state.config \in Configs /\ revision \in Nat /\ 0 \in {0} \cup DOMAIN shown
  BY DEF Inv, TypeOK, DisplayOK, Snapshots
<1>1. CASE RequestRefresh
  BY <1>0, <1>1, DispatchInv DEF RequestRefresh, Kinds
<1>2. CASE RequestLaunch
  <2>1. CASE Dispatch(Task("launch", state.config, state.config, 0))
    BY <1>0, <1>2, <2>1, DispatchInv DEF RequestLaunch, Kinds
  <2>2. CASE Decline
    BY <1>2, <2>2, DeclineInv DEF RequestLaunch
  <2> QED
    BY <1>2, <2>1, <2>2 DEF RequestLaunch
<1>3. ASSUME NEW port \in Ports, RequestSetProxy(port) PROVE Inv'
  BY <1>0, <1>3, Records, DispatchInv DEF RequestSetProxy, Kinds
<1>4. ASSUME NEW r \in DOMAIN shown, shown[r].consent # None, RequestConsent(shown[r].consent)
      PROVE  Inv'
  <2> DEFINE proposal == shown[r].consent
             next == [state.config EXCEPT !.manage = proposal.enabled]
  <2>1. CASE Decline
    BY <1>4, <2>1, DeclineInv DEF RequestConsent
  <2>2. CASE /\ consent = proposal /\ state.config = confirmed
             /\ Dispatch(Task("consent", state.config, next, proposal.revision))
    <3>1. proposal # None /\ proposal.revision = r
      BY <1>4 DEF Inv, Displayed
    <3>2. consent # None /\ shown[revision].config = confirmed /\ consent = shown[revision].consent
      BY <2>2, <3>1 DEF Inv, Displayed
    <3>3. revision \in DOMAIN shown
      BY <3>2 DEF Inv, Displayed, TypeOK, DisplayOK
    <3>4. r = revision
      BY <2>2, <3>1, <3>2, <3>3 DEF Inv, Displayed
    <3>5. proposal.enabled \in BOOLEAN
      BY <2>2, <3>2 DEF Inv, TypeOK, DisplayOK, Consents
    <3>6. next \in Configs
      BY <1>0, <3>5, Records
    <3> QED
      BY <1>4, <2>2, <3>1, <3>2, <3>4, <3>6, DispatchInv DEF RequestConsent, Kinds
  <2> QED
    BY <1>4, <2>1, <2>2 DEF RequestConsent
<1>5. ASSUME NEW r \in DOMAIN shown, RequestRepair(r) PROVE Inv'
  <2>1. CASE Decline
    BY <1>5, <2>1, DeclineInv DEF RequestRepair
  <2>2. CASE Dispatch(Task("launch", state.config, state.config, r))
    BY <1>0, <1>5, <2>2, DispatchInv DEF RequestRepair, Kinds
  <2> QED
    BY <1>5, <2>1, <2>2 DEF RequestRepair
<1> QED
  BY <1>1, <1>2, <1>3, <1>4, <1>5 DEF Request

------------------------------------------------------------------------------
(* Cancelling, the budget, and dropping the session.                       *)

LEMMA CancelInv == ASSUME Inv, Cancel \/ TimeOut \/ Close PROVE Inv'
<1>0. /\ Invalidate
      /\ UNCHANGED <<world, workers, state, known, revision, confirmed, outcome, failure, shown,
                     operation, spent>>
  BY DEF Cancel, TimeOut, Close
<1>1. /\ foreground' \in {"idle", "running", "cancelling"} /\ closed' \in {"open", "closing"}
      /\ latch' \in BOOLEAN /\ interrupted' \in BOOLEAN
      /\ Pending' <=> Pending
  BY DEF Inv, TypeOK, ControlOK, Cancel, TimeOut, Close, Pending
<1>2. WorldOK' /\ ControlOK'
  BY <1>0, <1>1 DEF Inv, TypeOK, WorldOK, ControlOK, world
<1>3. DisplayOK'
  BY <1>0 DEF Inv, TypeOK, DisplayOK, Invalidate
<1>4. OneWorker'
  <2>1. workers' = workers /\ closed' # "closed" /\ (Pending' <=> Pending)
    BY <1>0, <1>1
  <2> QED
    BY <2>1 DEF Inv, OneWorker
<1>5. \A w \in workers' : (Stage(w) /\ Authority(w) /\ Evidence(w))'
  BY <1>0 DEF Inv, Stage, Authority, Evidence, world
<1>6. Displayed' /\ Remembered'
  BY <1>0, <1>1 DEF Inv, Displayed, Remembered, Invalidate, world
<1>7. AuthorizationFitsView' /\ EndpointWasOnDisk'
  BY <1>0 DEF Inv, AuthorizationFitsView, EndpointWasOnDisk, Invalidate, world
<1> QED
  BY <1>2, <1>3, <1>4, <1>5, <1>6, <1>7 DEF Inv, TypeOK

\* Dropping the session leaves no worker behind.
LEMMA JoinInv == ASSUME Inv, Join PROVE Inv' /\ workers' = {}
<1>1. workers' = {}
  BY DEF Inv, Stage, Join
<1>2. WorldOK' /\ ControlOK'
  BY <1>1 DEF Inv, TypeOK, WorldOK, ControlOK, Join, world
<1>3. DisplayOK'
  BY DEF Inv, TypeOK, DisplayOK, Join, display
<1>4. OneWorker' /\ \A w \in workers' : (Stage(w) /\ Authority(w) /\ Evidence(w))'
  BY <1>1 DEF OneWorker
<1>5. Displayed' /\ Remembered' /\ AuthorizationFitsView' /\ EndpointWasOnDisk'
  BY DEF Inv, Displayed, Remembered, AuthorizationFitsView, EndpointWasOnDisk, Pending,
         Join, world, display
<1> QED
  BY <1>1, <1>2, <1>3, <1>4, <1>5 DEF Inv, TypeOK

------------------------------------------------------------------------------
(* The worker and other programs.                                          *)

\* While a worker is there the session is busy, and it is the only one.
LEMMA Busy ==
  ASSUME Inv, NEW w \in workers
  PROVE  Pending /\ closed # "closed" /\ workers = {w} /\ w \in Workers
  BY DEF Inv, OneWorker, TypeOK, ControlOK

\* A worker's step is in order when what it becomes is.
LEMMA BecomesInv ==
  ASSUME Inv, NEW w \in workers, NEW v \in Workers, Becomes(w, v), Worker,
         WorldOK', held \subseteq held', file' = Broken \/ file' \in held',
         Stage(v), Authority(v), Evidence(v)'
  PROVE  Inv'
<1>1. workers' = {v}
  BY Busy DEF Becomes
<1>2. ControlOK'
  BY <1>1 DEF Inv, TypeOK, ControlOK, Worker, control
<1>3. DisplayOK'
  BY DEF Inv, TypeOK, DisplayOK, Worker, display
<1>4. OneWorker'
  BY <1>1, Busy DEF OneWorker, Pending, Worker, control
<1>5. Stage(v)' /\ Authority(v)'
  BY DEF Stage, Authority, Worker, display, control
<1>6. Displayed' /\ AuthorizationFitsView'
  BY DEF Inv, Displayed, AuthorizationFitsView, Pending, Worker, display, control
<1>7. Remembered' /\ EndpointWasOnDisk'
  BY DEF Inv, Remembered, EndpointWasOnDisk, Pending, Worker, display, control
<1> QED
  BY <1>1, <1>2, <1>3, <1>4, <1>5, <1>6, <1>7 DEF Inv, TypeOK

\* What is sent keeps everything of the worker but its label and its findings.
LEMMA SentShape ==
  ASSUME NEW w \in Workers, NEW result \in Snapshots
  PROVE  /\ Sent(w, result) \in Workers
         /\ Sent(w, result).at = "sent"
         /\ \A field \in {"op", "kind", "expected", "repair", "next", "rev", "wrote", "outcome"} :
              Sent(w, result)[field] = w[field]
         /\ w.outcome = "committed" => Sent(w, result).result.ready
         /\ ~(w.outcome = "committed" /\ ~result.ready) => Sent(w, result).result = result
         /\ w.outcome = "committed" /\ ~result.ready => Sent(w, result).result.config = w.next
<1> DEFINE r == IF w.outcome = "committed" /\ ~result.ready
                  THEN [result EXCEPT !.ready = TRUE, !.invalid = FALSE,
                                      !.config = w.next, !.source = "committed"]
                  ELSE result
<1>1. w.next \in Configs
  BY DEF Workers
<1>2. r \in Snapshots
  BY <1>1 DEF Snapshots
<1>3. /\ w.outcome = "committed" => r.ready
      /\ ~(w.outcome = "committed" /\ ~result.ready) => r = result
      /\ w.outcome = "committed" /\ ~result.ready => r.config = w.next
  BY DEF Snapshots
<1>4. Sent(w, result) = [w EXCEPT !.at = "sent", !.result = r]
  BY DEF Sent
<1> HIDE DEF r
<1>5. [w EXCEPT !.at = "sent", !.result = r] \in Workers
  BY <1>2 DEF Workers
<1>6. /\ Sent(w, result).at = "sent" /\ Sent(w, result).result = r
      /\ \A field \in {"op", "kind", "expected", "repair", "next", "rev", "wrote", "outcome"} :
              Sent(w, result)[field] = w[field]
  BY <1>4 DEF Workers
<1> QED
  BY <1>3, <1>4, <1>5, <1>6

\* Findings that rest on the file can be sent.
LEMMA SendInv ==
  ASSUME Inv, NEW w \in workers, NEW result \in Snapshots,
         w.at \in {"read", "observe"}, Becomes(w, Sent(w, result)), Worker,
         WorldOK', held' = held, file' = file,
         IF result.ready THEN result.config \in held ELSE result.source = "unconfirmed"
  PROVE  Inv'
<1> w \in Workers
  BY Busy
<1>1. PICK v \in Workers : v = Sent(w, result)
  BY SentShape
<1>2. /\ v.at = "sent" /\ v.op = w.op /\ v.kind = w.kind /\ v.expected = w.expected
      /\ v.repair = w.repair /\ v.next = w.next /\ v.rev = w.rev /\ v.wrote = w.wrote
      /\ v.outcome = w.outcome
  BY <1>1, SentShape
<1>3. /\ w.outcome = "committed" => v.result.ready
      /\ ~(w.outcome = "committed" /\ ~result.ready) => v.result = result
      /\ w.outcome = "committed" /\ ~result.ready => v.result.config = w.next
  BY <1>1, SentShape
<1>4. Stage(w) /\ Authority(w) /\ Evidence(w)
  BY DEF Inv
<1>5. Stage(v) /\ Authority(v)
  BY <1>2, <1>4 DEF Stage, Authority
<1>6. Evidence(v)'
  BY <1>2, <1>3, <1>4 DEF Evidence
<1>7. Becomes(w, v) /\ held \subseteq held' /\ (file' = Broken \/ file' \in held')
  BY <1>1 DEF Inv, Remembered
<1> QED
  BY <1>5, <1>6, <1>7, BecomesInv

\* A worker acts on the file it was authorized over, and finds what is there.
LEMMA WorkInv == ASSUME Inv, NEW w \in workers PROVE
  Mutate(w) \/ MutateRefused(w) \/ Read(w) \/ ReadFails(w) \/ Observe(w) \/ Launch(w) \/ Panic(w)
    => Inv'
<1>0. /\ w \in Workers /\ Stage(w) /\ Authority(w) /\ Evidence(w)
      /\ WorldOK /\ Remembered /\ w.next \in Configs
  BY Busy DEF Inv, TypeOK, Workers
<1>b. Blank.ready = FALSE /\ Blank.source = "unconfirmed"
  BY DEF Blank
<1>u. ASSUME Upset PROVE upsets' \in 0..MaxUpsets
  BY <1>u, <1>0, Records DEF Upset, WorldOK
<1>1. ASSUME Mutate(w) PROVE Inv'
  <2>1. PICK v \in Workers : v = [w EXCEPT !.at = "read", !.wrote = TRUE, !.outcome = "committed"]
    BY <1>0 DEF Workers
  <2>2. /\ v.at = "read" /\ v.wrote /\ v.outcome = "committed" /\ v.op = w.op /\ v.kind = w.kind
        /\ v.expected = w.expected /\ v.repair = w.repair /\ v.next = w.next /\ v.rev = w.rev
        /\ v.result = w.result
    BY <1>0, <2>1 DEF Workers
  <2>3. WorldOK' /\ held \subseteq held' /\ w.next \in held' /\ file' \in held'
    BY <1>0, <1>1 DEF Mutate, WorldOK
  <2>4. Stage(v) /\ Authority(v) /\ Evidence(v)'
    BY <1>0, <1>1, <2>2, <2>3 DEF Mutate, Stage, Authority, Evidence
  <2> QED
    BY <1>1, <2>1, <2>3, <2>4, BecomesInv DEF Mutate
<1>2. ASSUME MutateRefused(w) PROVE Inv'
  <2>1. PICK v \in Workers : v = [w EXCEPT !.at = "sent", !.outcome = "refused"]
    BY <1>0 DEF Workers
  <2>2. /\ v.at = "sent" /\ v.wrote = w.wrote /\ v.outcome = "refused" /\ v.op = w.op /\ v.kind = w.kind
        /\ v.expected = w.expected /\ v.repair = w.repair /\ v.next = w.next /\ v.rev = w.rev
        /\ v.result = w.result
    BY <1>0, <2>1 DEF Workers
  <2>3. WorldOK' /\ held' = held /\ file' = file
    BY <1>0, <1>2 DEF MutateRefused, WorldOK, world
  <2>4. Stage(v) /\ Authority(v) /\ Evidence(v)'
    BY <1>0, <1>2, <2>2, <2>3 DEF MutateRefused, Stage, Authority, Evidence
  <2> QED
    BY <1>0, <1>2, <2>1, <2>3, <2>4, BecomesInv DEF MutateRefused, Remembered
<1>3. ASSUME Read(w) PROVE Inv'
  <2>0. WorldOK' /\ held' = held /\ file' = file /\ Worker /\ w.at = "read"
    BY <1>0, <1>3 DEF Read, WorldOK, world
  <2>1. CASE latch
    BY <1>3, <1>b, <2>0, <2>1, Records, SendInv DEF Read
  <2>2. CASE ~latch /\ file = Broken
    <3>1. [Blank EXCEPT !.invalid = TRUE] \in Snapshots
      BY Records DEF Snapshots
    <3>2. ~[Blank EXCEPT !.invalid = TRUE].ready /\ [Blank EXCEPT !.invalid = TRUE].source = "unconfirmed"
      BY DEF Blank
    <3> QED
      BY <1>3, <2>0, <2>2, <3>1, <3>2, SendInv DEF Read
  <2>3. CASE ~latch /\ file # Broken
    <3>0. file \in Configs /\ file \in held
      BY <1>0, <2>3 DEF WorldOK, Remembered
    <3> DEFINE r == [Blank EXCEPT !.ready = TRUE, !.config = file]
    <3>1. r \in Snapshots /\ r.ready /\ r.config = file
      BY <3>0, Records DEF Snapshots, Blank
    <3> HIDE DEF r
    <3>2. PICK v \in Workers : v = [w EXCEPT !.at = "observe", !.result = r]
      BY <1>0, <3>1 DEF Workers
    <3>3. /\ v.at = "observe" /\ v.wrote = w.wrote /\ v.outcome = w.outcome /\ v.op = w.op
          /\ v.kind = w.kind /\ v.expected = w.expected /\ v.repair = w.repair
          /\ v.next = w.next /\ v.rev = w.rev /\ v.result = r
      BY <1>0, <3>2 DEF Workers
    <3>4. Stage(v) /\ Authority(v) /\ Evidence(v)'
      BY <1>0, <2>0, <3>0, <3>1, <3>3 DEF Stage, Authority, Evidence
    <3>5. Becomes(w, v)
      BY <1>3, <2>3, <3>2 DEF Read, r
    <3> QED
      BY <2>0, <3>0, <3>4, <3>5, BecomesInv
  <2> QED
    BY <2>1, <2>2, <2>3
<1>4. ASSUME ReadFails(w) PROVE Inv'
  <2>0. WorldOK' /\ held' = held /\ file' = file /\ Worker /\ w.at = "read"
    BY <1>0, <1>4, <1>u DEF ReadFails, WorldOK
  <2> QED
    BY <1>4, <1>b, <2>0, Records, SendInv DEF ReadFails
<1>5. ASSUME Observe(w) PROVE Inv'
  <2>0. WorldOK' /\ held' = held /\ file' = file /\ Worker /\ w.at = "observe"
    BY <1>0, <1>5 DEF Observe, WorldOK, world
  <2>1. PICK seen \in {"unknown", process} :
          Becomes(w, Sent(w, [w.result EXCEPT !.process = seen]))
    BY <1>5 DEF Observe
  <2>2. seen \in Processes /\ w.result \in Snapshots
    BY <1>0 DEF WorldOK, Processes, Workers
  <2>3. PICK r \in Snapshots : r = [w.result EXCEPT !.process = seen]
    BY <2>2 DEF Snapshots
  <2>4. r.ready = w.result.ready /\ r.config = w.result.config /\ r.source = w.result.source
    BY <2>2, <2>3 DEF Snapshots
  <2>5. IF r.ready THEN r.config \in held ELSE r.source = "unconfirmed"
    BY <1>0, <2>4 DEF Evidence
  <2> QED
    BY <2>0, <2>1, <2>3, <2>5, SendInv
<1>6. ASSUME Launch(w) PROVE Inv'
  <2>1. PICK b \in BOOLEAN : Becomes(w, [w EXCEPT !.at = "sent", !.wrote = b, !.outcome = "launched"])
    <3>1. [w EXCEPT !.at = "sent", !.outcome = "launched"]
            = [w EXCEPT !.at = "sent", !.wrote = w.wrote, !.outcome = "launched"] /\ w.wrote \in BOOLEAN
      BY <1>0 DEF Workers
    <3> QED
      BY <1>6, <3>1 DEF Launch
  <2>2. PICK v \in Workers : v = [w EXCEPT !.at = "sent", !.wrote = b, !.outcome = "launched"]
    BY <1>0 DEF Workers
  <2>3. /\ v.at = "sent" /\ v.outcome = "launched" /\ v.op = w.op /\ v.kind = w.kind
        /\ v.expected = w.expected /\ v.repair = w.repair /\ v.next = w.next /\ v.rev = w.rev
        /\ v.result = w.result
    BY <1>0, <2>2 DEF Workers
  <2>4. WorldOK' /\ held' = held /\ file' = file /\ Worker /\ w.at = "launch"
    BY <1>0, <1>6 DEF Launch, WorldOK
  <2>5. Stage(v) /\ Authority(v) /\ Evidence(v)'
    BY <1>0, <2>3, <2>4 DEF Stage, Authority, Evidence
  <2> QED
    BY <1>0, <2>1, <2>2, <2>4, <2>5, BecomesInv DEF Remembered
<1>7. ASSUME Panic(w) PROVE Inv'
  <2>1. PICK v \in Workers : v = [w EXCEPT !.at = "sent", !.outcome = "panicked", !.result = Blank]
    BY <1>0, Records DEF Workers
  <2>2. /\ v.at = "sent" /\ v.outcome = "panicked" /\ v.op = w.op /\ v.kind = w.kind
        /\ v.expected = w.expected /\ v.repair = w.repair /\ v.next = w.next /\ v.rev = w.rev
        /\ v.result = Blank
    BY <1>0, <2>1 DEF Workers
  <2>3. WorldOK' /\ held' = held /\ file' = file /\ Worker
    BY <1>0, <1>7, <1>u DEF Panic, WorldOK
  <2>4. Stage(v) /\ Authority(v) /\ Evidence(v)'
    BY <1>0, <1>b, <2>2, <2>3 DEF Stage, Authority, Evidence
  <2> QED
    BY <1>0, <1>7, <2>1, <2>3, <2>4, BecomesInv DEF Panic, Remembered
<1> QED
  BY <1>1, <1>2, <1>3, <1>4, <1>5, <1>6, <1>7

\* Whatever other programs do, what the session knows was in the file once.
LEMMA OthersInv ==
  ASSUME Inv, UserActs \/ \E f \in Configs \cup {Broken} : Edit(f)
  PROVE  Inv'
<1>1. /\ UNCHANGED <<workers, latch, display, control, spent>>
      /\ held \subseteq held' /\ (file' = Broken \/ file' \in held')
  BY DEF UserActs, Edit, Inv, Remembered
<1>2. WorldOK'
  <2>1. upsets' \in 0..MaxUpsets
    BY Records DEF UserActs, Edit, Upset, Inv, TypeOK, WorldOK
  <2> QED
    BY <2>1 DEF UserActs, Edit, Inv, TypeOK, WorldOK
<1>3. DisplayOK' /\ ControlOK'
  BY <1>1 DEF Inv, TypeOK, DisplayOK, ControlOK, display, control
<1>4. OneWorker' /\ Displayed' /\ AuthorizationFitsView'
  BY <1>1 DEF Inv, OneWorker, Pending, Displayed, AuthorizationFitsView, display, control
<1>5. \A w \in workers' : (Stage(w) /\ Authority(w) /\ Evidence(w))'
  BY <1>1 DEF Inv, Stage, Authority, Evidence, display, control
<1>6. Remembered' /\ EndpointWasOnDisk'
  BY <1>1 DEF Inv, Remembered, EndpointWasOnDisk, Pending, display, control
<1> QED
  BY <1>2, <1>3, <1>4, <1>5, <1>6 DEF Inv, TypeOK

------------------------------------------------------------------------------
(* Collecting a result.                                                    *)

\* What new confirmations are: one revision further, over the view shown.
LEMMA ConfirmShape ==
  ASSUME DisplayOK, Displayed, NEW s \in Snapshots, Confirm(s), UNCHANGED spent
  PROVE  /\ shown' \in Seq(Screens) /\ revision' = Len(shown') /\ spent' \in 0..revision'
         /\ confirmed' \in Configs
         /\ consent' \in Consents \cup {None} /\ repair' \in Repairs \cup {None}
         /\ Displayed'
         /\ ~s.ready => consent' = None /\ repair' = None /\ revision' = revision
         /\ s.ready =>
              /\ revision' = revision + 1 /\ confirmed' = s.config
              /\ consent' # None => /\ consent'.revision = revision'
                                    /\ consent'.enabled = ~s.config.manage
              /\ repair' # None =>
                   /\ repair'.revision = revision'
                   /\ s.process = "stopped" /\ (Registered => s.config.manage)
<1>0. /\ revision \in Nat /\ shown \in Seq(Screens) /\ revision = Len(shown) /\ spent \in 0..revision
      /\ s.config \in Configs /\ s.config.manage \in BOOLEAN
  BY DEF DisplayOK, Snapshots, Configs
<1>1. CASE ~s.ready
  BY <1>1 DEF Confirm, Withdraw, Invalidate, DisplayOK, Displayed
<1>2. CASE s.ready
  <2>1. PICK token \in Nat, other \in Nat :
          /\ other \in {revision + 1, Empty}
          /\ consent' \in {None, [token |-> token, enabled |-> ~s.config.manage, revision |-> revision + 1]}
          /\ \/ repair' = None
             \/ /\ s.process = "stopped" /\ ~Elevated /\ (~Registered \/ s.config.manage)
                /\ repair' = [token |-> other, revision |-> revision + 1]
    BY <1>0, <1>2 DEF Confirm, Tokens, Empty
  <2>2. /\ revision' = revision + 1 /\ confirmed' = s.config
        /\ shown' = Append(shown, [config |-> s.config, consent |-> consent', repair |-> repair'])
    BY <1>2 DEF Confirm
  <2>3. /\ consent' \in Consents \cup {None}
        /\ consent' # None => consent'.revision = revision + 1 /\ consent'.enabled = ~s.config.manage
    <3>1. CASE consent' = None
      BY <3>1
    <3>2. PICK off \in BOOLEAN : off = ~s.config.manage
      BY <1>0
    <3>3. CASE consent' = [token |-> token, enabled |-> off, revision |-> revision + 1]
      BY <1>0, <3>2, <3>3 DEF Consents
    <3> QED
      BY <2>1, <3>1, <3>2, <3>3
  <2>4. /\ repair' \in Repairs \cup {None}
        /\ repair' # None => /\ repair'.revision = revision + 1 /\ repair'.token \in {revision + 1, Empty}
                            /\ s.process = "stopped" /\ (Registered => s.config.manage)
    BY <1>0, <2>1 DEF Repairs
  <2> DEFINE x == [config |-> s.config, consent |-> consent', repair |-> repair']
  <2>6. x \in Screens
    BY <1>0, <2>3, <2>4 DEF Screens
  <2>7. /\ shown' \in Seq(Screens) /\ Len(shown') = Len(shown) + 1
        /\ DOMAIN shown' = 1..(Len(shown) + 1) /\ DOMAIN shown = 1..Len(shown)
        /\ \A r \in 1..Len(shown) : shown'[r] = shown[r]
        /\ shown'[Len(shown) + 1] = x
    BY <1>0, <2>2, <2>6
  <2>8. x.config = s.config /\ x.consent = consent' /\ x.repair = repair'
    OBVIOUS
  <2> HIDE DEF x
  <2>9. \A r \in DOMAIN shown' :
          /\ shown'[r].consent # None => shown'[r].consent.revision = r
          /\ shown'[r].repair # None => shown'[r].repair.revision = r
                                       /\ shown'[r].repair.token \in {r, Empty}
    <3> TAKE r \in DOMAIN shown'
    <3>1. CASE r \in 1..Len(shown)
      BY <2>7, <3>1 DEF Displayed
    <3>2. CASE r = Len(shown) + 1
      BY <1>0, <2>3, <2>4, <2>7, <2>8, <3>2
    <3> QED
      BY <1>0, <2>7, <3>1, <3>2
  <2>10. revision' = Len(shown') /\ spent' \in 0..revision' /\ revision' > spent'
    BY <1>0, <2>2, <2>7
  <2>11. shown'[revision'] = x
    BY <1>0, <2>2, <2>7
  <2>12. Displayed'
    BY <2>2, <2>8, <2>9, <2>10, <2>11 DEF Displayed
  <2> QED
    BY <1>0, <1>2, <2>2, <2>3, <2>4, <2>7, <2>10, <2>12
<1> QED
  BY <1>1, <1>2

\* What is published rests on the file, or says that it does not.
LEMMA PublishShape ==
  ASSUME Inv, NEW r \in Snapshots, Publish(r),
         IF r.ready THEN r.config \in held ELSE r.source = "unconfirmed"
  PROVE  /\ state' \in Snapshots /\ known' \in Configs \cup {None}
         /\ state'.ready = r.ready /\ state'.process = r.process
         /\ r.ready => state'.config = r.config /\ known' = r.config
         /\ known' # None => known' \in held
         /\ state'.source \in {"read", "committed", "retained"} => state'.config \in held
<1>0. known \in Configs \cup {None} /\ (known # None => known \in held)
  BY DEF Inv, TypeOK, DisplayOK, Remembered
<1>1. CASE r.ready
  BY <1>0, <1>1 DEF Publish, Published, Snapshots
<1>2. CASE ~r.ready /\ known # None
  BY <1>0, <1>2 DEF Publish, Published, Snapshots
<1>3. CASE ~r.ready /\ known = None /\ r.invalid
  BY <1>0, <1>3 DEF Publish, Published, Snapshots
<1>4. CASE ~r.ready /\ known = None /\ ~r.invalid
  BY <1>0, <1>4 DEF Publish, Published, Snapshots
<1> QED
  BY <1>1, <1>2, <1>3, <1>4

\* A collected session is in order whatever became of its display, as long as
\* that is in order.
LEMMA CollectedInv ==
  ASSUME Inv, NEW w \in workers, Collect(w),
         state' \in Snapshots, known' \in Configs \cup {None}, confirmed' \in Configs,
         shown' \in Seq(Screens), revision' = Len(shown'), spent' \in 0..revision',
         consent' \in Consents \cup {None}, repair' \in Repairs \cup {None},
         outcome' \in {"none", "committed", "refused"}, failure' \in {"none", "refused", "timeout"},
         Displayed', known' # None => known' \in held,
         EndpointWasOnDisk', AuthorizationFitsView'
  PROVE  Inv'
<1>1. workers' = {} /\ foreground' = "idle" /\ UNCHANGED <<world, latch, operation, closed, interrupted, spent>>
  BY Busy DEF Collect
<1>2. WorldOK' /\ ControlOK'
  BY <1>1 DEF Inv, TypeOK, WorldOK, ControlOK, world
<1>3. DisplayOK'
  BY DEF DisplayOK
<1>4. OneWorker' /\ \A w_1 \in workers' : (Stage(w_1) /\ Authority(w_1) /\ Evidence(w_1))'
  BY <1>1 DEF OneWorker
<1>5. Remembered'
  BY <1>1 DEF Inv, Remembered, Pending, world
<1> QED
  BY <1>2, <1>3, <1>4, <1>5 DEF Inv, TypeOK

LEMMA CollectInv == ASSUME Inv, NEW w \in workers, Collect(w) PROVE Inv'
<1>0. /\ w \in Workers /\ Stage(w) /\ Evidence(w) /\ DisplayOK /\ Displayed /\ w.result \in Snapshots
      /\ foreground' = "idle" /\ UNCHANGED <<world, spent>> /\ w.at = "sent"
  BY Busy DEF Inv, TypeOK, Collect, Arrived, Workers
<1>w. ASSUME Withdraw
      PROVE  /\ consent' = None /\ repair' = None /\ confirmed' \in Configs
             /\ shown' \in Seq(Screens) /\ revision' = Len(shown') /\ spent' \in 0..revision'
             /\ Displayed' /\ AuthorizationFitsView'
  BY <1>0, <1>w DEF Withdraw, Invalidate, DisplayOK, Displayed, AuthorizationFitsView
<1>r. IF w.result.ready THEN w.result.config \in held ELSE w.result.source = "unconfirmed"
  BY <1>0 DEF Evidence
<1>c. ASSUME state' \in Snapshots, Confirm(state')
      PROVE  /\ shown' \in Seq(Screens) /\ revision' = Len(shown') /\ spent' \in 0..revision'
             /\ confirmed' \in Configs /\ Displayed' /\ AuthorizationFitsView'
             /\ consent' \in Consents \cup {None} /\ repair' \in Repairs \cup {None}
  <2>1. PICK s \in Snapshots : s = state'
    BY <1>c
  <2>2. Confirm(s)
    BY <1>c, <2>1
  <2>3. /\ shown' \in Seq(Screens) /\ revision' = Len(shown') /\ spent' \in 0..revision'
        /\ confirmed' \in Configs /\ Displayed'
        /\ consent' \in Consents \cup {None} /\ repair' \in Repairs \cup {None}
        /\ ~s.ready => consent' = None /\ repair' = None
        /\ s.ready => /\ confirmed' = s.config
                      /\ consent' # None => consent'.enabled = ~s.config.manage
                      /\ repair' # None => s.process = "stopped" /\ (Registered => s.config.manage)
    BY <1>0, <2>1, <2>2, ConfirmShape
  <2>4. AuthorizationFitsView'
    BY <1>0, <2>1, <2>3 DEF AuthorizationFitsView, Pending
  <2> QED
    BY <2>3, <2>4
<1>k. /\ known \in Configs \cup {None} /\ (known # None => known \in held) /\ state \in Snapshots
      /\ outcome \in {"none", "committed", "refused"} /\ failure \in {"none", "refused", "timeout"}
      /\ held' = held
  BY <1>0 DEF Inv, DisplayOK, Remembered, world
<1>1. CASE w.outcome = "launched"
  <2>1. /\ state' = [state EXCEPT !.process = "unknown"] /\ Withdraw
        /\ UNCHANGED <<known, outcome, failure>>
    BY <1>1 DEF Collect
  <2>2. state' \in Snapshots /\ state'.config = state.config /\ state'.source = state.source
    BY <1>k, <2>1 DEF Snapshots, Processes
  <2>3. EndpointWasOnDisk'
    BY <1>k, <2>2 DEF Inv, EndpointWasOnDisk
  <2> QED
    BY <1>k, <1>w, <2>1, <2>2, <2>3, CollectedInv
<1>2. CASE w.outcome = "committed"
  <2>1. Publish(w.result) /\ Confirm(state') /\ outcome' = "committed" /\ UNCHANGED failure
    BY <1>2 DEF Collect
  <2>2. /\ state' \in Snapshots /\ known' \in Configs \cup {None}
        /\ (known' # None => known' \in held) /\ EndpointWasOnDisk'
    BY <1>0, <1>r, <1>k, <2>1, PublishShape DEF EndpointWasOnDisk
  <2> QED
    BY <1>c, <1>k, <2>1, <2>2, CollectedInv
<1>3. CASE w.outcome = "refused"
  <2>1. Withdraw /\ outcome' = "refused" /\ failure' = "refused" /\ UNCHANGED <<state, known>>
    BY <1>3 DEF Collect
  <2>2. EndpointWasOnDisk'
    BY <1>k, <2>1 DEF Inv, EndpointWasOnDisk
  <2> QED
    BY <1>k, <1>w, <2>1, <2>2, CollectedInv
<1>4. CASE w.outcome \in {"none", "panicked"}
  <2>1. /\ IF w.outcome = "none" THEN Publish(w.result) ELSE UNCHANGED <<state, known>>
        /\ \/ Withdraw /\ failure' = "timeout"
           \/ Confirm(state') /\ UNCHANGED failure
        /\ UNCHANGED outcome
    BY <1>4 DEF Collect
  <2>2. /\ state' \in Snapshots /\ known' \in Configs \cup {None}
        /\ (known' # None => known' \in held) /\ EndpointWasOnDisk'
    <3>1. CASE w.outcome = "none"
      BY <1>0, <1>r, <1>k, <2>1, <3>1, PublishShape DEF EndpointWasOnDisk
    <3>2. CASE w.outcome # "none"
      BY <1>k, <2>1, <3>2 DEF Inv, EndpointWasOnDisk
    <3> QED
      BY <3>1, <3>2
  <2>3. CASE Withdraw /\ failure' = "timeout"
    BY <1>k, <1>w, <2>1, <2>2, <2>3, CollectedInv
  <2>4. CASE Confirm(state') /\ UNCHANGED failure
    BY <1>c, <1>k, <2>1, <2>2, <2>4, CollectedInv
  <2> QED
    BY <2>1, <2>3, <2>4
<1>5. w.outcome \in {"none", "committed", "refused", "launched", "panicked"}
  BY <1>0 DEF Workers
<1> QED
  BY <1>1, <1>2, <1>3, <1>4, <1>5

------------------------------------------------------------------------------
(* The theorems.                                                           *)

LEMMA NextInv == Inv /\ [Next]_vars => Inv'
<1> SUFFICES ASSUME Inv, [Next]_vars PROVE Inv'
  OBVIOUS
<1>1. CASE Request
  BY <1>1, RequestInv
<1>2. CASE Cancel \/ Close \/ TimeOut
  BY <1>2, CancelInv
<1>3. CASE Join
  BY <1>3, JoinInv
<1>4. CASE Work \/ \E w \in workers : Panic(w)
  BY <1>4, WorkInv DEF Work
<1>5. CASE \E w \in workers : Collect(w)
  BY <1>5, CollectInv
<1>6. CASE UserActs \/ \E f \in Configs \cup {Broken} : Edit(f)
  BY <1>6, OthersInv
<1>7. CASE UNCHANGED vars
  <2>1. UNCHANGED <<world, workers, latch, display, control, spent>>
    BY <1>7 DEF vars
  <2>2. WorldOK' /\ DisplayOK' /\ ControlOK'
    BY <2>1 DEF Inv, TypeOK, WorldOK, DisplayOK, ControlOK, world, display, control
  <2>3. OneWorker' /\ Displayed' /\ Remembered' /\ AuthorizationFitsView' /\ EndpointWasOnDisk'
    BY <2>1 DEF Inv, OneWorker, Pending, Displayed, Remembered, AuthorizationFitsView,
                EndpointWasOnDisk, world, display, control
  <2>4. \A w \in workers' : (Stage(w) /\ Authority(w) /\ Evidence(w))'
    BY <2>1 DEF Inv, Stage, Authority, Evidence, world, display, control
  <2> QED
    BY <2>2, <2>3, <2>4 DEF Inv, TypeOK
<1> QED
  BY <1>1, <1>2, <1>3, <1>4, <1>5, <1>6, <1>7 DEF Next, Poll

\* The inductive invariant holds in every reachable state of a session
\* (session.rs, requests, poll, worker and drop together).
THEOREM Invariance == Spec => []Inv
<1>1. Init => Inv
  BY InitInv
<1>2. Inv /\ [Next]_vars => Inv'
  BY NextInv
<1> QED
  BY <1>1, <1>2, PTL DEF Spec

\* Every variable keeps its type, for any endpoints and bounds.
THEOREM TypeCorrect == Spec => []TypeOK
<1>1. Inv => TypeOK
  BY DEF Inv
<1> QED
  BY <1>1, Invariance, PTL

\* One foreground effect at a time: a session has at most one worker, and none
\* when it is idle or closed (poll joins before it opens the gate, drop joins).
THEOREM OneEffect == Spec => []OneForegroundEffect
<1>1. Inv => OneForegroundEffect
  <2> SUFFICES ASSUME Inv PROVE OneForegroundEffect
    OBVIOUS
  <2>1. Cardinality(workers) <= 1
    <3>1. CASE workers = {}
      BY <3>1, FS_EmptySet
    <3>2. ASSUME NEW w \in workers PROVE Cardinality(workers) <= 1
      <4>1. workers = {w}
        BY <3>2, Busy
      <4> QED
        BY <4>1, FS_Singleton
    <3> QED
      BY <3>1, <3>2
  <2> QED
    BY <2>1 DEF Inv, OneWorker, Stage, OneForegroundEffect
<1> QED
  BY <1>1, Invariance, PTL

\* What is on display to be confirmed speaks about the view on display
\* (confirmations, invalidate).
THEOREM FittingAuthorization == Spec => []AuthorizationFitsView
<1>1. Inv => AuthorizationFitsView
  BY DEF Inv
<1> QED
  BY <1>1, Invariance, PTL

\* An endpoint shown as read, committed or retained was in the file once (publish).
THEOREM EndpointKnown == Spec => []EndpointWasOnDisk
<1>1. Inv => EndpointWasOnDisk
  BY DEF Inv
<1> QED
  BY <1>1, Invariance, PTL

\* A proposal submitted again after it was submitted or refused authorizes
\* nothing (request_consent, request_repair).
THEOREM SingleUse == Spec => ConfirmationsAreSingleUse
<1> DEFINE Once ==
      \A w \in Dispatched :
        /\ w.kind = "consent" => w.rev > spent
        /\ w.kind = "launch" /\ w.rev > 0 /\ shown[w.rev].repair.token # Empty => w.rev > spent
<1>1. Inv /\ [Next]_vars => [Once]_vars
  <2> SUFFICES ASSUME Inv, Next PROVE Once
    BY DEF vars
  <2>0. operation \in Nat /\ \A w \in workers : w.op = operation
    BY Records DEF Inv, TypeOK, ControlOK, Stage
  <2>1. CASE workers' \subseteq workers
    BY <2>0, <2>1 DEF Dispatched
  <2>2. ASSUME NEW kind, NEW expected, NEW next, NEW rev,
               Idle, Dispatch(Task(kind, expected, next, rev)),
               kind = "consent" => rev > spent,
               kind = "launch" /\ rev > 0 /\ shown[rev].repair.token # Empty => rev > spent
        PROVE  Once
    <3>1. PICK t : t = Task(kind, expected, next, rev)
      OBVIOUS
    <3>2. t.kind = kind /\ t.rev = rev
      BY <3>1 DEF Task
    <3>3. workers' = {t}
      BY <2>2, <3>1 DEF Inv, OneWorker, Idle, Dispatch
    <3> QED
      BY <2>2, <3>2, <3>3 DEF Dispatched
  <2>3. CASE Request
    <3>1. CASE Decline
      BY <2>1, <3>1 DEF Decline
    <3>2. CASE RequestRefresh
      BY <2>2, <3>2 DEF RequestRefresh
    <3>3. CASE RequestLaunch /\ ~Decline
      BY <2>2, <3>3 DEF RequestLaunch
    <3>4. ASSUME NEW port \in Ports, RequestSetProxy(port) PROVE Once
      BY <2>2, <3>4 DEF RequestSetProxy
    <3>5. ASSUME NEW r \in DOMAIN shown, shown[r].consent # None, RequestConsent(shown[r].consent),
                 ~Decline
          PROVE  Once
      <4>1. /\ consent = shown[r].consent /\ Idle
            /\ Dispatch(Task("consent", state.config,
                             [state.config EXCEPT !.manage = shown[r].consent.enabled], r))
        BY <3>5 DEF RequestConsent, Inv, Displayed
      <4>2. shown[r].consent # None /\ shown[r].consent.revision = r
        BY <3>5 DEF Inv, Displayed
      <4>3. revision \in DOMAIN shown /\ revision > spent /\ consent.revision = revision
        BY <4>1, <4>2 DEF Inv, Displayed, TypeOK, DisplayOK
      <4> QED
        BY <2>2, <4>1, <4>2, <4>3
    <3>6. ASSUME NEW r \in DOMAIN shown, shown[r].repair # None, RequestRepair(r), ~Decline
          PROVE  Once
      <4>1. /\ Idle /\ repair # None /\ repair.token = shown[r].repair.token
            /\ Dispatch(Task("launch", state.config, state.config, r))
        BY <3>6 DEF RequestRepair
      <4>2. /\ revision \in DOMAIN shown /\ revision > spent /\ repair = shown[revision].repair
            /\ repair.token \in {revision, Empty}
        BY <4>1 DEF Inv, Displayed, TypeOK, DisplayOK
      <4>3. shown[r].repair.token \in {r, Empty}
        BY <3>6 DEF Inv, Displayed
      <4> QED
        BY <2>2, <4>1, <4>2, <4>3
    <3> QED
      BY <2>3, <3>1, <3>2, <3>3, <3>4, <3>5, <3>6 DEF Request
  <2>4. CASE Cancel \/ Close \/ TimeOut \/ Join \/ UserActs \/ \E f \in Configs \cup {Broken} : Edit(f)
    BY <2>1, <2>4 DEF Cancel, Close, TimeOut, Join, UserActs, Edit
  <2>5. CASE \E w \in workers : Collect(w)
    BY <2>1, <2>5 DEF Collect
  <2>6. CASE Work \/ \E w \in workers : Panic(w)
    <3>1. UNCHANGED operation
      BY <2>6 DEF Work, Mutate, MutateRefused, Read, ReadFails, Observe, Launch, Panic, Worker, control
    <3>2. Inv'
      BY <2>6, WorkInv DEF Work
    <3> QED
      BY <2>0, <3>1, <3>2 DEF Inv, Stage, Dispatched
  <2> QED
    BY <2>3, <2>4, <2>5, <2>6 DEF Next, Poll
<1> QED
  BY <1>1, Invariance, PTL DEF Spec, ConfirmationsAreSingleUse

\* Consent changes in the file only over the configuration displayed with the
\* proposal, and as the proposal said (update_consent).
THEOREM AsShown == Spec => ConsentChangesAsShown
<1> DEFINE Shown ==
      \A w \in workers :
        w.kind = "consent" /\ w.at = "mutate" /\ file' # file
          /\ (\E v \in workers' : v.op = w.op /\ v.wrote) =>
        /\ file = shown[w.rev].config
        /\ file' = [file EXCEPT !.manage = shown[w.rev].consent.enabled]
<1>1. Inv /\ [Next]_vars => [Shown]_vars
  <2> SUFFICES ASSUME Inv, Next, NEW w \in workers, w.kind = "consent", w.at = "mutate",
                      file' # file, \E v \in workers' : v.op = w.op /\ v.wrote
               PROVE  /\ file = shown[w.rev].config
                      /\ file' = [file EXCEPT !.manage = shown[w.rev].consent.enabled]
    BY DEF vars
  <2>0. Stage(w) /\ Authority(w) /\ workers = {w}
    BY Busy DEF Inv
  <2>1. CASE Mutate(w)
    BY <2>0, <2>1 DEF Mutate, Authority
  <2>2. ~(\E f \in Configs \cup {Broken} : Edit(f))
    BY <2>0 DEF Edit, Stage
  <2>3. ~UserActs
    BY DEF UserActs
  <2>4. ~Work \/ Mutate(w)
    BY <2>0 DEF Work, MutateRefused, Read, ReadFails, Observe, Launch, world
  <2>5. ~Request
    BY DEF Request, RequestRefresh, RequestLaunch, RequestSetProxy, RequestConsent, RequestRepair,
           Requested, world
  <2>6. ~Cancel /\ ~Close /\ ~Join /\ ~TimeOut /\ ~(\E v \in workers : Panic(v) \/ Collect(v))
    BY DEF Cancel, Close, Join, TimeOut, Panic, Collect, world
  <2> QED
    BY <2>1, <2>2, <2>3, <2>4, <2>5, <2>6 DEF Next, Poll
<1> QED
  BY <1>1, Invariance, PTL DEF Spec, ConsentChangesAsShown

\* A committed write is reported as committed and known, whatever happens to the
\* refresh after it (refresh after a commit, publish, poll).
THEOREM FactsSurvive == Spec => CommittedFactsSurvive
<1> DEFINE Survive ==
      \A w \in Collected :
        w.kind \in {"proxy", "consent"} /\ w.outcome # "panicked" /\ closed = "open" =>
          /\ w.wrote <=> outcome' = "committed"
          /\ w.wrote => state'.ready /\ failure' = "none" /\ known' = state'.config
<1>1. Inv /\ [Next]_vars => [Survive]_vars
  <2> SUFFICES ASSUME Inv, Next, NEW w \in Collected, w.kind \in {"proxy", "consent"},
                      w.outcome # "panicked", closed = "open"
               PROVE  /\ w.wrote <=> outcome' = "committed"
                      /\ w.wrote => state'.ready /\ failure' = "none" /\ known' = state'.config
    BY DEF vars
  <2>0. /\ w \in workers /\ \A v \in workers' : v.op # w.op
        /\ workers = {w} /\ w \in Workers /\ Pending /\ Stage(w) /\ Evidence(w)
    BY Busy DEF Collected, Inv
  <2>1. CASE Collect(w)
    <3>1. w.at = "sent" /\ w.wrote \in BOOLEAN /\ w.result \in Snapshots
      BY <2>0, <2>1 DEF Collect, Arrived, Workers
    <3>2. CASE w.outcome = "committed"
      <4>1. Publish(w.result) /\ outcome' = "committed" /\ failure' = failure /\ failure = "none"
        BY <2>0, <2>1, <3>2 DEF Collect, Inv, Remembered
      <4>2. w.wrote /\ w.result.ready
        BY <2>0, <3>1, <3>2 DEF Evidence
      <4>3. state'.ready /\ state'.config = w.result.config /\ known' = w.result.config
        BY <2>0, <3>1, <4>1, <4>2, PublishShape DEF Evidence
      <4> QED
        BY <4>1, <4>2, <4>3
    <3>3. CASE w.outcome = "refused"
      BY <2>0, <2>1, <3>3 DEF Collect, Stage
    <3> QED
      BY <2>0, <3>1, <3>2, <3>3 DEF Stage
  <2>3. ~Request /\ ~Cancel /\ ~Close /\ ~TimeOut /\ ~Join /\ ~UserActs
        /\ ~(\E f \in Configs \cup {Broken} : Edit(f))
    BY <2>0 DEF Request, RequestRefresh, RequestLaunch, RequestSetProxy, RequestConsent, RequestRepair,
                Idle, Cancel, Close, TimeOut, Join, UserActs, Edit
  <2>4. ~Work /\ ~(\E v \in workers : Panic(v))
    <3>1. (Work \/ \E v \in workers : Panic(v)) => Inv' /\ operation' = operation /\ workers' # {}
      BY <2>0, WorkInv DEF Work, Mutate, MutateRefused, Read, ReadFails, Observe, Launch, Panic, Worker,
                           control, Becomes
    <3> QED
      BY <2>0, <3>1 DEF Inv, Stage
  <2> QED
    BY <2>0, <2>1, <2>3, <2>4 DEF Next, Poll
<1> QED
  BY <1>1, Invariance, PTL DEF Spec, CommittedFactsSurvive

------------------------------------------------------------------------------
(* EngineSession implements SessionContract.                               *)

KindOf(w) == IF w.kind = "launch" /\ w.rev > 0 THEN "repair" ELSE w.kind

\* The operation in hand is that of the one worker.
LEMMA Hand ==
  /\ workers = {} => HandKind = "none"
  /\ workers' = {} => HandKind' = "none"
  /\ \A w : workers = {w} => HandKind = KindOf(w)
  /\ \A w : workers' = {w} => HandKind' = KindOf(w)
<1>1. \A w : (CHOOSE v \in {w} : TRUE) = w
  OBVIOUS
<1> QED
  BY <1>1 DEF HandKind, KindOf

\* Withdrawing the proposals withdraws the offers.
LEMMA Withdrawn == Invalidate => Offered(consent)' = 0 /\ Offered(repair)' = 0
  BY DEF Invalidate, Offered

LEMMA InitContract == Init => Contract!Init
  BY Hand DEF Init, Contract!Init, Blank, Offered

\* A request the session accepts is a request of its kind.
LEMMA RequestContract ==
  ASSUME Inv, Idle, Invalidate, Requested, NEW k \in {"refresh", "proxy", "consent", "launch", "repair"},
         Contract!Authorized(k),
         NEW kind, NEW expected, NEW next, NEW rev, Dispatch(Task(kind, expected, next, rev)),
         k = IF kind = "launch" /\ rev > 0 THEN "repair" ELSE kind
  PROVE  Contract!Next
<1>1. PICK t : t = Task(kind, expected, next, rev)
  OBVIOUS
<1>2. workers' = {t} /\ KindOf(t) = k
  BY <1>1 DEF Inv, OneWorker, Idle, Dispatch, Task, KindOf
<1>3. HandKind' = k
  BY <1>2, Hand
<1>4. /\ foreground = "idle" /\ foreground' = "running" /\ closed = "open" /\ closed' = closed
      /\ operation' = operation + 1 /\ state' = state /\ revision' = revision
  BY DEF Idle, Pending, Dispatch, Requested
<1>5. Contract!Request(k)
  BY <1>3, <1>4, Withdrawn DEF Contract!Request, Contract!Idle, Contract!Withdraw
<1> QED
  BY <1>5 DEF Contract!Next, Contract!Kinds

\* A request the session refuses leaves nothing to confirm.
LEMMA DeclineContract ==
  ASSUME Idle, Invalidate, Requested, Decline PROVE Contract!Next
<1>1. /\ closed = "open" /\ UNCHANGED <<workers, foreground, operation, closed, state, revision>>
  BY DEF Idle, Decline, Requested, control
<1>2. HandKind' = HandKind
  BY <1>1 DEF HandKind
<1>3. Contract!Refuse
  BY <1>1, <1>2, Withdrawn DEF Contract!Refuse, Contract!Withdraw
<1> QED
  BY <1>3 DEF Contract!Next

\* An offer on display is its own revision, and never 0.
LEMMA OffersAreRevisions ==
  ASSUME Inv
  PROVE  /\ consent # None => Offered(consent) = revision /\ revision # 0
         /\ repair # None => Offered(repair) = revision /\ revision # 0
<1>1. (consent # None \/ repair # None) => revision \in DOMAIN shown /\ revision # 0
  BY DEF Inv, Displayed, TypeOK, DisplayOK
<1> QED
  BY <1>1 DEF Inv, Displayed, Offered

LEMMA RequestsContract == ASSUME Inv, Request PROVE Contract!Next
<1>1. CASE RequestRefresh
  BY <1>1, RequestContract DEF RequestRefresh, Contract!Authorized
<1>2. CASE RequestLaunch
  <2>1. CASE state.ready /\ Dispatch(Task("launch", state.config, state.config, 0))
    BY <1>2, <2>1, RequestContract DEF RequestLaunch, Contract!Authorized
  <2>2. CASE Decline
    BY <1>2, <2>2, DeclineContract DEF RequestLaunch
  <2> QED
    BY <1>2, <2>1, <2>2 DEF RequestLaunch
<1>3. ASSUME NEW port \in Ports, RequestSetProxy(port) PROVE Contract!Next
  BY <1>3, RequestContract DEF RequestSetProxy, Contract!Authorized
<1>4. ASSUME NEW r \in DOMAIN shown, shown[r].consent # None, RequestConsent(shown[r].consent)
      PROVE  Contract!Next
  <2>1. CASE Decline
    BY <1>4, <2>1, DeclineContract DEF RequestConsent
  <2>2. CASE ~Decline
    <3>1. /\ state.ready /\ consent = shown[r].consent
          /\ Dispatch(Task("consent", state.config,
                           [state.config EXCEPT !.manage = shown[r].consent.enabled],
                           shown[r].consent.revision))
          /\ Idle /\ Invalidate /\ Requested
      BY <1>4, <2>2 DEF RequestConsent
    <3>2. Contract!Authorized("consent")
      BY <1>4, <3>1, OffersAreRevisions DEF Inv, Displayed, Contract!Authorized
    <3> QED
      BY <3>1, <3>2, RequestContract
  <2> QED
    BY <2>1, <2>2
<1>5. ASSUME NEW r \in DOMAIN shown, RequestRepair(r) PROVE Contract!Next
  <2>1. CASE Decline
    BY <1>5, <2>1, DeclineContract DEF RequestRepair
  <2>2. CASE ~Decline
    <3>1. /\ state.ready /\ repair # None
          /\ Dispatch(Task("launch", state.config, state.config, r))
          /\ Idle /\ Invalidate /\ Requested
      BY <1>5, <2>2 DEF RequestRepair
    <3>2. Contract!Authorized("repair") /\ r > 0
      BY <3>1, OffersAreRevisions DEF Contract!Authorized, Inv, TypeOK, DisplayOK
    <3> QED
      BY <3>1, <3>2, RequestContract
  <2> QED
    BY <2>1, <2>2
<1> QED
  BY <1>1, <1>2, <1>3, <1>4, <1>5 DEF Request

\* The steps of a worker are not seen.
LEMMA WorkContract ==
  ASSUME Inv, Work \/ \E w \in workers : Panic(w) PROVE UNCHANGED Contract!contract
<1>1. PICK w \in workers :
        \/ Mutate(w) \/ MutateRefused(w) \/ Read(w) \/ ReadFails(w) \/ Observe(w) \/ Launch(w)
        \/ Panic(w)
  BY DEF Work
<1>2. w \in Workers /\ workers = {w}
  BY Busy
<1>3. Worker
  BY <1>1 DEF Mutate, MutateRefused, Read, ReadFails, Observe, Launch, Panic
<1>4. \E v : Becomes(w, v) /\ v.kind = w.kind /\ v.rev = w.rev
  <2>1. \A result : Sent(w, result).kind = w.kind /\ Sent(w, result).rev = w.rev
    BY <1>2 DEF Sent, Workers
  <2>2. CASE Mutate(w) \/ MutateRefused(w) \/ Launch(w) \/ Panic(w)
    <3> DEFINE Same(v) == v.kind = w.kind /\ v.rev = w.rev
    <3>1. CASE Mutate(w)
      <4>1. Same([w EXCEPT !.at = "read", !.wrote = TRUE, !.outcome = "committed"])
        BY <1>2 DEF Workers
      <4> QED
        BY <3>1, <4>1 DEF Mutate
    <3>2. CASE MutateRefused(w)
      <4>1. Same([w EXCEPT !.at = "sent", !.outcome = "refused"])
        BY <1>2 DEF Workers
      <4> QED
        BY <3>2, <4>1 DEF MutateRefused
    <3>3. CASE Launch(w)
      <4>1. /\ Same([w EXCEPT !.at = "sent", !.wrote = TRUE, !.outcome = "launched"])
            /\ Same([w EXCEPT !.at = "sent", !.outcome = "launched"])
        BY <1>2 DEF Workers
      <4> QED
        BY <3>3, <4>1 DEF Launch
    <3>4. CASE Panic(w)
      <4>1. Same([w EXCEPT !.at = "sent", !.outcome = "panicked", !.result = Blank])
        BY <1>2 DEF Workers
      <4> QED
        BY <3>4, <4>1 DEF Panic
    <3> QED
      BY <2>2, <3>1, <3>2, <3>3, <3>4
  <2>3. CASE Read(w)
    <3>1. \A r : [w EXCEPT !.at = "observe", !.result = r].kind = w.kind
                /\ [w EXCEPT !.at = "observe", !.result = r].rev = w.rev
      BY <1>2 DEF Workers
    <3>2. CASE latch \/ file = Broken
      BY <2>1, <2>3, <3>2 DEF Read
    <3>3. CASE ~latch /\ file # Broken
      BY <2>3, <3>1, <3>3 DEF Read
    <3> QED
      BY <3>2, <3>3
  <2>4. CASE ReadFails(w) \/ Observe(w)
    BY <2>1, <2>4 DEF ReadFails, Observe
  <2> QED
    BY <1>1, <2>2, <2>3, <2>4
<1>5. PICK v : workers' = {v} /\ KindOf(v) = KindOf(w)
  BY <1>2, <1>4 DEF Becomes, KindOf
<1>6. HandKind' = HandKind
  BY <1>2, <1>5, Hand
<1> QED
  BY <1>3, <1>6 DEF Contract!contract, Worker, display, control, Offered

\* Collecting a result settles the operation with the fate of its kind.
LEMMA CollectContract == ASSUME Inv, NEW w \in workers, Collect(w) PROVE Contract!Next
<1>0. /\ w \in Workers /\ workers = {w} /\ Stage(w) /\ Evidence(w) /\ w.at = "sent"
      /\ w.kind \in Kinds /\ w.result \in Snapshots
      /\ Pending /\ closed = "open" /\ UNCHANGED <<operation, closed>>
      /\ workers' = {} /\ foreground' = "idle"
  BY Busy DEF Inv, Collect, Arrived, Workers
<1>1. HandKind = KindOf(w) /\ HandKind' = "none" /\ HandKind \in Contract!Kinds
  BY <1>0, Hand DEF KindOf, Kinds, Contract!Kinds
<1>2. state' \in Snapshots /\ DisplayOK /\ Displayed /\ spent' = spent
  BY <1>0, CollectInv DEF Inv, TypeOK, DisplayOK, Collect
<1>w. Withdraw => Contract!Withdraw
  BY Withdrawn DEF Withdraw, Contract!Withdraw
<1>c. Confirm(state') => Contract!Offer
  <2> SUFFICES ASSUME Confirm(state') PROVE Contract!Offer
    OBVIOUS
  <2>1. PICK s \in Snapshots : s = state' /\ Confirm(s)
    BY <1>2
  <2>2. /\ ~s.ready => consent' = None /\ repair' = None /\ revision' = revision
        /\ s.ready => /\ revision' = revision + 1
                      /\ consent' # None => consent'.revision = revision'
                      /\ repair' # None => repair'.revision = revision'
    BY <1>2, <2>1, ConfirmShape
  <2> QED
    BY <2>1, <2>2 DEF Contract!Offer, Contract!Withdraw, Offered
<1> DEFINE fate == IF w.outcome = "none" THEN "snapshot" ELSE w.outcome
<1>3. fate \in Contract!Fates[HandKind]
  <2>1. CASE w.kind = "refresh"
    BY <1>0, <1>1, <2>1 DEF Contract!Fates, KindOf, Stage
  <2>2. CASE w.kind \in {"proxy", "consent"}
    BY <1>0, <1>1, <2>2 DEF Contract!Fates, KindOf, Stage
  <2>3. CASE w.kind = "launch"
    BY <1>0, <1>1, <2>3 DEF Contract!Fates, KindOf, Stage
  <2> QED
    BY <1>0, <2>1, <2>2, <2>3 DEF Kinds
<1>4. /\ fate = "committed" => state'.ready
      /\ fate \in {"refused", "launched", "panicked"} => state'.ready = state.ready
      /\ IF fate \in {"refused", "launched"} \/ (fate # "committed" /\ foreground = "cancelling")
           THEN Contract!Withdraw ELSE Contract!Offer
  <2>1. CASE w.outcome = "launched"
    <3>1. state \in Snapshots /\ state' = [state EXCEPT !.process = "unknown"] /\ Withdraw
      BY <1>2, <2>1 DEF Collect, DisplayOK
    <3> QED
      BY <1>w, <2>1, <3>1 DEF Snapshots
  <2>2. CASE w.outcome = "committed"
    <3>1. Publish(w.result) /\ Confirm(state') /\ w.result.ready
      BY <1>0, <2>2 DEF Collect, Evidence
    <3>2. state'.ready
      BY <1>0, <3>1, PublishShape DEF Evidence
    <3> QED
      BY <1>c, <2>2, <3>1, <3>2
  <2>3. CASE w.outcome = "refused"
    BY <1>w, <2>3 DEF Collect
  <2>4. CASE w.outcome \in {"none", "panicked"}
    BY <1>w, <1>c, <2>4 DEF Collect
  <2> QED
    BY <1>0, <2>1, <2>2, <2>3, <2>4 DEF Workers
<1> HIDE DEF fate
<1>5. state'.ready \in BOOLEAN
  BY <1>2 DEF Snapshots
<1>6. Contract!Settle(fate)
  BY <1>0, <1>1, <1>3, <1>4, <1>5 DEF Contract!Settle, Pending
<1> QED
  BY <1>1, <1>3, <1>6 DEF Contract!Next

\* EngineSession implements SessionContract, which the front ends are built on:
\* every step of a session is a step of the contract or is not seen.
THEOREM Implements == Spec => KeepsContract
<1>1. Init => Contract!Init
  BY InitContract
<1>2. Inv /\ [Next]_vars => [Contract!Next]_(Contract!contract)
  <2> SUFFICES ASSUME Inv, [Next]_vars PROVE Contract!Next \/ UNCHANGED Contract!contract
    OBVIOUS
  <2>1. CASE Request
    BY <2>1, RequestsContract
  <2>2. CASE Cancel
    <3>1. Contract!Refuse
      BY <2>2, Withdrawn DEF Cancel, Contract!Refuse, Contract!Withdraw, HandKind
    <3> QED
      BY <3>1 DEF Contract!Next
  <2>3. CASE TimeOut
    <3>1. Contract!TimeOut
      BY <2>3, Withdrawn DEF TimeOut, Contract!TimeOut, Contract!Withdraw, HandKind
    <3> QED
      BY <3>1 DEF Contract!Next
  <2>4. CASE Close
    <3>1. Contract!Close
      BY <2>4, Withdrawn DEF Close, Contract!Close, Contract!Withdraw, HandKind
    <3> QED
      BY <3>1 DEF Contract!Next
  <2>5. CASE Join
    <3>1. HandKind' = "none"
      BY <2>5, JoinInv, Hand
    <3>2. Contract!Join
      BY <2>5, <3>1 DEF Join, display, Contract!Join, Offered
    <3> QED
      BY <3>2 DEF Contract!Next
  <2>6. CASE Work \/ \E w \in workers : Panic(w)
    BY <2>6, WorkContract
  <2>7. CASE \E w \in workers : Collect(w)
    BY <2>7, CollectContract
  <2>8. CASE UserActs \/ (\E f \in Configs \cup {Broken} : Edit(f)) \/ UNCHANGED vars
    <3>1. UNCHANGED <<workers, display, control>>
      BY <2>8 DEF UserActs, Edit, vars
    <3> QED
      BY <3>1 DEF display, control, Contract!contract, Offered, HandKind
  <2> QED
    BY <2>1, <2>2, <2>3, <2>4, <2>5, <2>6, <2>7, <2>8 DEF Next, Poll
<1> QED
  BY <1>1, <1>2, Invariance, PTL DEF Spec, KeepsContract, Contract!Spec

=============================================================================
