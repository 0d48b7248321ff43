--------------------------- MODULE Console_proofs ---------------------------
(***************************************************************************)
(* Proofs about Console: its invariant Inv is inductive for any endpoints, *)
(* any number of operations and any number of signals, and both front ends *)
(* keep to SessionContract.                                                *)
(***************************************************************************)
EXTENDS Console, TLAPS

------------------------------------------------------------------------------
(* The session under either front end.                                     *)

\* Nothing a front end does to its session takes these back.
Grows == operation' >= operation /\ revision' >= revision

LEMMA ViewType == ASSUME SessionInv PROVE View \in Views
  <1> USE DEF SessionInv, ClientTypeOK
  <1>1. snap.endpoint \in Endpoints \cup {Blank}
    BY DEF Snapshots
  <1>2. CanLaunch \in BOOLEAN /\ ViewError \in BOOLEAN /\ (~Busy) \in BOOLEAN
    BY DEF CanLaunch, ViewError, Busy, Snapshots
  <1>3. consent \in Nat /\ repair \in Nat
    OBVIOUS
  <1> QED BY <1>1, <1>2, <1>3 DEF View, Views

LEMMA DispatchInv ==
  ASSUME SessionInv, NEW k \in Session!Kinds, Dispatch(k),
         operation <= MaxOps, k \in {"launch", "repair"} => operation < MaxOps,
         target' \in Endpoints \cup {Blank}
  PROVE  /\ SessionInv' /\ Grows
         /\ operation' = operation + 1 /\ kind' = k /\ phase' = "running"
         /\ UNCHANGED <<snap, launched, mutation, elevated>>
  <1> USE ClientAssumption DEF SessionInv, ClientTypeOK, Dispatch, Facts, Session!Request, Session!Idle, Session!Withdraw
  <1>1. /\ operation' = operation + 1 /\ kind' = k /\ phase' = "running" /\ Grows
        /\ UNCHANGED <<snap, launched, mutation, elevated>>
    BY DEF Grows
  <1>2. ClientTypeOK'
    <2>1. {launched', mutation'} \subseteq [op : 0..operation', failed : BOOLEAN]
      BY <1>1
    <2>2. consent' = 0 /\ repair' = 0 /\ revision' = revision /\ operation' \in 0..(MaxOps + 1) /\ revision' \in 0..operation'
      BY <1>1
    <2>3. /\ phase' \in {"idle", "running", "cancelling"} /\ kind' \in Session!Kinds \cup {"none"}
          /\ closed' \in {"open", "closing", "closed"} /\ snap' \in Snapshots
          /\ known' \in Endpoints \cup {Blank} /\ {mail, latch, elevated}' \subseteq BOOLEAN
      BY <1>1
    <2> QED BY <2>1, <2>2, <2>3
  <1>3. (phase # "idle" => revision < operation /\ launched.op < operation /\ mutation.op < operation)'
    BY <1>1
  <1> QED BY <1>1, <1>2, <1>3

\* What leaves the operation in hand, and takes offers away at most.
LEMMA WithdrawInv ==
  ASSUME SessionInv, UNCHANGED <<Facts, target, revision, operation>>,
         consent' \in {0, consent}, repair' \in {0, repair},
         mail' \in BOOLEAN, latch' \in BOOLEAN,
         closed' \in {"open", "closing", "closed"},
         kind' \in {kind, "none"},
         phase' = phase \/ (phase = "running" /\ phase' = "cancelling" /\ consent' = 0 /\ repair' = 0)
  PROVE  SessionInv' /\ Grows
  <1> USE DEF SessionInv, ClientTypeOK, Facts
  <1>1. ClientTypeOK'
    <2>1. {launched', mutation'} \subseteq [op : 0..operation', failed : BOOLEAN]
      OBVIOUS
    <2> QED BY <2>1
  <1> QED BY <1>1 DEF Grows

LEMMA RefusedInv ==
  ASSUME SessionInv, Refused PROVE SessionInv' /\ Grows /\ UNCHANGED <<phase, operation, kind, launched, mutation>> /\ consent' = 0 /\ repair' = 0
  BY WithdrawInv DEF Refused, Session!Refuse, Session!Withdraw, SessionInv, ClientTypeOK, Facts

LEMMA CancelInv ==
  ASSUME SessionInv, CancelOperation
  PROVE  /\ SessionInv' /\ Grows /\ UNCHANGED <<phase, operation, kind, launched, mutation>>
         /\ consent' \in {0, consent} /\ repair' \in {0, repair}
  BY WithdrawInv DEF CancelOperation, Session!Refuse, Session!Withdraw, SessionInv, ClientTypeOK, Facts, session

LEMMA OverBudgetInv ==
  ASSUME SessionInv, OverBudget
  PROVE  SessionInv' /\ Grows /\ UNCHANGED <<operation, kind, launched, mutation>> /\ phase # "idle"
  BY WithdrawInv DEF OverBudget, Session!TimeOut, Session!Withdraw, SessionInv, ClientTypeOK, Facts

LEMMA ArriveInv ==
  ASSUME SessionInv, Arrive
  PROVE  SessionInv' /\ Grows /\ View' = View /\ UNCHANGED <<phase, operation, kind, revision, consent, repair, launched, mutation>>
  BY WithdrawInv DEF Arrive, SessionInv, ClientTypeOK, Facts, View, CanLaunch, ViewError, Busy

LEMMA PublishedType ==
  ASSUME SessionInv, NEW s \in Findings
  PROVE  Published(s) \in Snapshots /\ Published(s).ready = s.ready
  BY DEF Findings, Published, Snapshots, SessionInv, ClientTypeOK

\* The end of an operation: its offers are later than every other, and only a
\* launch or a change leaves an outcome with its number.
LEMMA SettleInv ==
  ASSUME SessionInv, NEW fate \in UNION {Session!Fates[k] : k \in Session!Kinds}, Session!Settle(fate)
  PROVE  /\ phase # "idle" /\ phase' = "idle" /\ kind' = "none" /\ operation' = operation
         /\ closed' = closed /\ fate \in Session!Fates[kind] /\ kind \in Session!Kinds
         /\ revision' \in 0..operation /\ revision' >= revision
         /\ {consent', repair'} \subseteq 0..revision'
         /\ (consent' # 0 \/ repair' # 0) => snap.ready'
  <1> USE DEF SessionInv, ClientTypeOK
  <1>1. /\ phase # "idle" /\ phase' = "idle" /\ kind' = "none" /\ operation' = operation
        /\ closed' = closed /\ fate \in Session!Fates[kind] /\ kind \in Session!Kinds
    BY DEF Session!Settle
  <1>2. Session!Withdraw \/ Session!Offer
    BY DEF Session!Settle
  <1>3. revision \in 0..operation /\ revision < operation
    BY <1>1
  <1>4. CASE Session!Withdraw
    BY <1>1, <1>3, <1>4 DEF Session!Withdraw
  <1>5. CASE Session!Offer
    <2>1. CASE Session!Withdraw
      BY <1>4, <2>1
    <2>2. CASE snap.ready' /\ revision' = revision + 1 /\ consent' \in {0, revision'} /\ repair' \in {0, revision'}
      BY <1>1, <1>3, <2>2
    <2> QED BY <1>5, <2>1, <2>2 DEF Session!Offer
  <1> QED BY <1>2, <1>4, <1>5

LEMMA CollectInv ==
  ASSUME SessionInv, Collect
  PROVE  /\ SessionInv' /\ Grows
         /\ phase # "idle" /\ phase' = "idle" /\ operation' = operation /\ revision' <= operation
         /\ launched.op # 0 => launched'.op # 0
         /\ EventOf \in {"SnapshotArrived", "OperationFinished", "MutationFailed", "MutationFinished"}
         /\ EventOf = "OperationFinished" => kind \in {"launch", "repair"} /\ operation <= MaxOps
         /\ EventOf = "MutationFinished" => kind \in {"proxy", "consent"} /\ mutation'.op = operation
  <1> USE DEF SessionInv, ClientTypeOK
  <1>1. PICK fate \in UNION {Session!Fates[k] : k \in Session!Kinds} :
          /\ Session!Settle(fate)
          /\ snap' \in Snapshots /\ known' \in Endpoints \cup {Blank}
          /\ fate = "launched" => launched'.op = operation
          /\ fate # "launched" => launched' = launched
          /\ fate \in {"committed", "refused"} => mutation'.op = operation
          /\ fate \notin {"committed", "refused"} => mutation' = mutation
          /\ {launched', mutation'} \subseteq [op : 0..operation, failed : BOOLEAN]
    <2>1. \A f \in {"snapshot", "panicked", "committed", "refused", "launched"} :
            f \in UNION {Session!Fates[k] : k \in Session!Kinds}
      BY DEF Session!Fates, Session!Kinds
    <2>2. CASE Refreshed
      <3>1. PICK s \in Fresh : snap' = Published(s)
        BY <2>2 DEF Refreshed
      <3>2. s \in Findings
        BY DEF Fresh
      <3>3. snap' \in Snapshots
        BY <3>1, <3>2, PublishedType
      <3> QED BY <2>1, <2>2, <3>3 DEF Refreshed, Remember, Snapshots
    <2>3. CASE Committed
      <3>1. PICK s \in Fresh :
              snap' = IF s.ready THEN Published(s)
                      ELSE [s EXCEPT !.ready = TRUE, !.known = TRUE,
                                     !.endpoint = IF kind = "proxy" THEN target ELSE snap.endpoint]
        BY <2>3 DEF Committed
      <3>2. s \in Findings /\ s \in Snapshots
        BY DEF Fresh, Findings
      <3>3. snap' \in Snapshots
        BY <3>1, <3>2, PublishedType DEF Snapshots
      <3>4. mutation' \in [op : 0..operation, failed : BOOLEAN] /\ mutation'.op = operation
        BY <2>3 DEF Committed
      <3> QED BY <2>1, <2>3, <3>3, <3>4 DEF Committed, Remember, Snapshots
    <2>4. CASE Declined
      <3>1. mutation' \in [op : 0..operation, failed : BOOLEAN] /\ mutation'.op = operation
        BY <2>4 DEF Declined
      <3> QED BY <2>1, <2>4, <3>1 DEF Declined
    <2>5. CASE Launched
      <3>1. launched' \in [op : 0..operation, failed : BOOLEAN] /\ launched'.op = operation
        BY <2>5 DEF Launched
      <3>2. snap' \in Snapshots
        BY <2>5 DEF Launched, Snapshots
      <3> QED BY <2>1, <2>5, <3>1, <3>2 DEF Launched
    <2>6. CASE Panicked
      <3>1. snap' \in Snapshots
        BY <2>6 DEF Panicked, Snapshots
      <3> QED BY <2>1, <2>6, <3>1 DEF Panicked
    <2> QED BY <2>2, <2>3, <2>4, <2>5, <2>6 DEF Collect
  <1>2. /\ phase # "idle" /\ phase' = "idle" /\ kind' = "none" /\ operation' = operation
        /\ closed' = closed /\ fate \in Session!Fates[kind] /\ kind \in Session!Kinds
        /\ revision' \in 0..operation /\ revision' >= revision
        /\ {consent', repair'} \subseteq 0..revision'
        /\ (consent' # 0 \/ repair' # 0) => snap.ready'
    BY <1>1, SettleInv
  <1>3. launched.op < operation /\ mutation.op < operation /\ launched.op \in Nat /\ mutation.op \in Nat
    BY <1>2
  <1>4. /\ fate = "launched" => kind \in {"launch", "repair"}
        /\ fate \in {"committed", "refused"} => kind \in {"proxy", "consent"}
    BY <1>2 DEF Session!Fates, Session!Kinds
  <1>5. SessionInv'
    <2>1. /\ mail' \in BOOLEAN /\ UNCHANGED <<latch, target, elevated>>
      BY DEF Collect
    <2>2. ClientTypeOK'
      BY <1>1, <1>2, <2>1
    <2> QED BY <1>2, <2>2
  <1>6. /\ EventOf = "OperationFinished" <=> launched'.op = operation
        /\ EventOf = "MutationFinished" => mutation'.op = operation
        /\ EventOf \in {"SnapshotArrived", "OperationFinished", "MutationFailed", "MutationFinished"}
    BY DEF EventOf
  <1>7. EventOf = "OperationFinished" => fate = "launched"
    BY <1>1, <1>3, <1>6
  <1>8. EventOf = "MutationFinished" => fate \in {"committed", "refused"}
    BY <1>1, <1>3, <1>6
  <1> QED BY <1>1, <1>2, <1>3, <1>4, <1>5, <1>6, <1>7, <1>8 DEF Grows

------------------------------------------------------------------------------
(* The full-screen console.                                                *)

LEMMA NextViewType == (SessionInv => View \in Views)'
  <1>1. SessionInv => View \in Views
    BY ViewType
  <1> QED BY <1>1, PTL

\* A key that leaves the session alone.
LEMMA LocalKeyInv ==
  ASSUME SessionInv, TuiInv, UNCHANGED session, Synchronize, at = "input", at' = "poll",
         UNCHANGED <<event, refreshed>>, modal' \in Modals, draft' \in Drafts,
         {inline', notice', exiting', typed'} \subseteq BOOLEAN,
         saving' \in {0, saving}, result' \in {0, result},
         \/ opened' = opened /\ (modal' \in {"Consent", "Repair"} => modal' = modal)
         \/ modal' \notin {"Consent", "Repair"} /\ opened' \in {0, opened}
         \/ phase = "idle" /\ modal' = "Consent" /\ opened' = screen.consent /\ screen.consent # 0
         \/ phase = "idle" /\ modal' = "Repair" /\ opened' = screen.repair /\ screen.repair # 0,
         modal' \in Results => modal' = modal
  PROVE  SessionInv' /\ TuiInv' /\ Grows
  <1> USE DEF TuiInv
  <1>1. SessionInv' /\ Grows /\ View' = View
    BY DEF session, SessionInv, ClientTypeOK, Grows, View, CanLaunch, ViewError, Busy
  <1>2. screen' \in Views /\ screen' = View'
    BY <1>1, NextViewType DEF Synchronize
  <1>3. /\ screen.consent # 0 => screen.consent = consent
        /\ screen.repair # 0 => screen.repair = repair
    BY DEF View
  <1>4. opened' \in 0..revision'
    BY <1>3 DEF session, TuiTypeOK, SessionInv, ClientTypeOK
  <1>5. {saving, result, refreshed}' \subseteq 0..operation'
    <2>1. operation \in Nat /\ operation' = operation
      BY DEF session, SessionInv, ClientTypeOK
    <2> QED BY <2>1 DEF TuiTypeOK
  <1>6. TuiTypeOK'
    BY <1>2, <1>4, <1>5 DEF TuiTypeOK
  <1> QED BY <1>1, <1>2, <1>3, <1>6 DEF session, Results, TuiTypeOK

\* A key that takes offers away, by a cancellation or a refusal.
LEMMA WithdrawingKeyInv ==
  ASSUME SessionInv, TuiInv, CancelOperation \/ Refused, Synchronize, at = "input", at' = "poll",
         UNCHANGED <<event, refreshed, draft, saving>>, modal' \in Modals \ {"Consent", "Repair"},
         {inline', notice', exiting', typed'} \subseteq BOOLEAN,
         result' \in {0, result}, opened' \in {0, opened},
         modal' \in Results => modal' = modal \/ phase = "idle"
  PROVE  SessionInv' /\ TuiInv' /\ Grows
  <1> USE DEF TuiInv
  <1>1. /\ SessionInv' /\ Grows /\ UNCHANGED <<phase, operation, kind, launched, mutation>>
        /\ consent' \in {0, consent} /\ repair' \in {0, repair}
    BY CancelInv, RefusedInv
  <1>2. screen' \in Views /\ screen' = View'
    BY <1>1, NextViewType DEF Synchronize
  <1>3. opened' \in 0..revision'
    BY <1>1 DEF TuiTypeOK, SessionInv, ClientTypeOK, Grows
  <1>4. {saving, result, refreshed}' \subseteq 0..operation'
    BY <1>1 DEF TuiTypeOK, SessionInv, ClientTypeOK
  <1>5. TuiTypeOK'
    BY <1>2, <1>3, <1>4 DEF TuiTypeOK
  <1> QED BY <1>1, <1>2, <1>5 DEF Results

\* A key that starts an operation.
LEMMA StartingKeyInv ==
  ASSUME SessionInv, TuiInv, NEW k \in Session!Kinds, Dispatch(k), operation < MaxOps,
         target' \in Endpoints \cup {Blank}, Synchronize, at = "input", at' = "poll",
         UNCHANGED <<event, refreshed>>, modal' \in Modals \ {"Consent", "Repair"}, draft' \in Drafts,
         {inline', notice', exiting', typed'} \subseteq BOOLEAN,
         saving' \in {0, saving, operation'}, result' \in {0, result}, opened' \in {0, opened},
         k # "refresh" => modal' \notin Results
  PROVE  SessionInv' /\ TuiInv' /\ Grows
  <1> USE DEF TuiInv
  <1>1. operation \in Nat /\ operation <= MaxOps
    BY ClientAssumption DEF SessionInv, ClientTypeOK
  <1>2. /\ SessionInv' /\ Grows /\ operation' = operation + 1 /\ kind' = k /\ phase' = "running"
        /\ UNCHANGED <<launched, mutation>>
    BY <1>1, DispatchInv
  <1>3. screen' \in Views /\ screen' = View'
    BY <1>2, NextViewType DEF Synchronize
  <1>4. opened' \in 0..revision'
    BY <1>2 DEF TuiTypeOK, SessionInv, ClientTypeOK, Grows
  <1>5. {saving, result, refreshed}' \subseteq 0..operation'
    BY <1>1, <1>2 DEF TuiTypeOK
  <1>6. TuiTypeOK'
    BY <1>3, <1>4, <1>5 DEF TuiTypeOK
  <1> QED BY <1>2, <1>3, <1>6 DEF Results

LEMMA KeyInv ==
  ASSUME SessionInv, TuiInv, Key
  PROVE  SessionInv' /\ TuiInv' /\ Grows
  <1> USE DEF Pressed, Quiet, Free, Dialog, dialog
  <1>1. /\ modal \in Modals /\ draft \in Drafts /\ {inline, notice, exiting, typed} \subseteq BOOLEAN
        /\ target \in Endpoints \cup {Blank} /\ (screen = View \/ at = "failed")
    BY DEF TuiInv, TuiTypeOK, SessionInv, ClientTypeOK
  <1>2. CASE NoKey
    <2>1. Synchronize
      BY <1>1, <1>2 DEF NoKey, Synchronize, session, View, CanLaunch, ViewError, Busy
    <2> QED BY <1>1, <1>2, <2>1, LocalKeyInv DEF NoKey
  <1>3. CASE IgnoredKey
    BY <1>1, <1>3, LocalKeyInv DEF IgnoredKey
  <1>4. CASE CtrlC
    BY <1>1, <1>4, WithdrawingKeyInv DEF CtrlC, Busy, TuiInv
  <1>5. CASE AskToQuit
    BY <1>1, <1>5, LocalKeyInv DEF AskToQuit, Modals, Results
  <1>6. CASE KeepRunning
    BY <1>1, <1>6, LocalKeyInv DEF KeepRunning, Modals, Results
  <1>7. CASE CancelAndQuit
    BY <1>1, <1>7, WithdrawingKeyInv DEF CancelAndQuit, Modals, Results
  <1>8. CASE Quit
    BY <1>1, <1>8, LocalKeyInv DEF Quit
  <1>9. CASE Help
    BY <1>1, <1>9, LocalKeyInv DEF Help, Modals, Results
  <1>10. CASE Close
    BY <1>1, <1>10, LocalKeyInv DEF Close, Modals, Results, Drafts
  <1>11. CASE CopyDiagnostic
    BY <1>1, <1>11, LocalKeyInv DEF CopyDiagnostic
  <1>12. CASE Unavailable
    BY <1>1, <1>12, LocalKeyInv DEF Unavailable
  <1>13. CASE OpenEditor
    <2>1. View.endpoint \in Drafts
      BY ViewType DEF Views, Drafts
    <2> QED BY <1>1, <1>13, <2>1, LocalKeyInv DEF OpenEditor, Modals, Results
  <1>14. CASE OpenConsent
    BY <1>1, <1>14, LocalKeyInv DEF OpenConsent, Modals, Results, Busy
  <1>15. CASE OpenRepair
    BY <1>1, <1>15, LocalKeyInv DEF OpenRepair, Modals, Results, Busy
  <1>16. CASE EditDraft
    BY <1>1, <1>16, LocalKeyInv DEF EditDraft
  <1>17. CASE Type
    BY <1>1, <1>17, LocalKeyInv DEF Type
  <1>18. \A k \in {"refresh", "proxy", "consent", "launch", "repair"} : k \in Session!Kinds
    BY DEF Session!Kinds
  <1>19. CASE PressRefresh
    BY <1>1, <1>18, <1>19, StartingKeyInv DEF PressRefresh, Refresh
  <1>20. CASE PressLaunch
    <2>1. CASE operation < MaxOps /\ Launch /\ Quiet /\ UNCHANGED <<modal, dialog>>
      BY <1>1, <1>18, <1>20, <2>1, StartingKeyInv DEF PressLaunch, Launch, Results
    <2>2. CASE Refused /\ PublishRefusal
      BY <1>1, <1>20, <2>2, WithdrawingKeyInv DEF PressLaunch, PublishRefusal, ShowOutcome, Modals, Busy
    <2> QED BY <1>20, <2>1, <2>2 DEF PressLaunch
  <1>21. CASE Save
    <2>1. CASE draft \notin Endpoints /\ inline' = TRUE /\ UNCHANGED <<session, saving>>
      BY <1>1, <1>21, <2>1, LocalKeyInv DEF Save
    <2>2. CASE operation < MaxOps /\ SaveProxy(draft) /\ saving' = operation' /\ inline' = FALSE
      BY <1>1, <1>18, <1>21, <2>2, StartingKeyInv DEF Save, SaveProxy, Results
    <2> QED BY <1>21, <2>1, <2>2 DEF Save
  <1>22. CASE Confirm
    <2> DEFINE offer == IF modal = "Repair" THEN repair ELSE consent
    <2>1. CASE operation < MaxOps /\ Submit(offer) /\ modal' = "None" /\ Quiet /\ opened' = 0
               /\ UNCHANGED <<draft, inline, saving, result>>
      <3>1. PICK k \in {"consent", "repair"} : Dispatch(k) /\ target' = target
        BY <2>1 DEF Submit, RepairLaunch, SetConsent
      <3> QED BY <1>1, <1>18, <1>22, <2>1, <3>1, StartingKeyInv DEF Confirm, Modals, Results
    <2>2. CASE Refused /\ ShowOutcome(0, TRUE) /\ opened' = 0 /\ UNCHANGED <<draft, inline, saving>>
      BY <1>1, <1>22, <2>2, WithdrawingKeyInv DEF Confirm, ShowOutcome, Modals, Busy
    <2>3. CASE Quiet /\ UNCHANGED <<session, modal, draft, inline, saving, result, opened>>
      BY <1>1, <1>22, <2>3, LocalKeyInv DEF Confirm
    <2> QED BY <1>22, <2>1, <2>2, <2>3 DEF Confirm
  <1> QED
    BY <1>2, <1>3, <1>4, <1>5, <1>6, <1>7, <1>8, <1>9, <1>10, <1>11, <1>12, <1>13, <1>14,
       <1>15, <1>16, <1>17, <1>19, <1>20, <1>21, <1>22 DEF Key

\* What a screen drawn from the next view needs of the rest.
LEMMA NextScreen ==
  ASSUME SessionInv', Grows, TuiInv, Synchronize, opened' = opened, SessionInv,
         {saving, result, refreshed}' \subseteq 0..operation'
  PROVE  /\ screen' \in Views /\ screen' = View' /\ opened' \in 0..revision'
         /\ {saving, result, refreshed}' \subseteq 0..operation'
  <1>1. screen' \in Views /\ screen' = View'
    BY NextViewType DEF Synchronize
  <1>2. opened' \in 0..revision'
    BY DEF TuiInv, TuiTypeOK, SessionInv, ClientTypeOK, Grows
  <1> QED BY <1>1, <1>2

LEMMA StartUpInv ==
  ASSUME SessionInv, TuiInv, StartUp
  PROVE  SessionInv' /\ TuiInv' /\ Grows
  <1> USE DEF StartUp
  <1>1. operation = 0 /\ operation <= MaxOps /\ "refresh" \in Session!Kinds /\ target \in Endpoints \cup {Blank}
    BY ClientAssumption DEF TuiInv, SessionInv, ClientTypeOK, Session!Kinds
  <1>2. /\ SessionInv' /\ Grows /\ operation' = operation + 1 /\ kind' = "refresh" /\ phase' = "running"
        /\ UNCHANGED <<launched, mutation>> /\ consent' = 0 /\ repair' = 0
    BY <1>1, DispatchInv DEF Refresh, Dispatch, Session!Request, Session!Withdraw
  <1>3. {saving, result, refreshed}' \subseteq 0..operation'
    BY <1>1, <1>2 DEF TuiInv, TuiTypeOK, dialog
  <1>4. /\ screen' \in Views /\ screen' = View' /\ opened' \in 0..revision'
    BY <1>2, <1>3, NextScreen DEF dialog
  <1>5. Session!Idle
    BY DEF Refresh, Dispatch, Session!Request
  <1>6. TuiTypeOK'
    BY <1>3, <1>4 DEF TuiTypeOK, TuiInv, dialog
  <1> QED BY <1>2, <1>4, <1>5, <1>6 DEF TuiInv, dialog, Session!Idle

LEMMA PollInv ==
  ASSUME SessionInv, TuiInv, Poll
  PROVE  SessionInv' /\ TuiInv' /\ Grows
  <1> USE DEF TuiInv
  <1>1. /\ at = "poll" /\ UNCHANGED <<modal, notice, exiting, refreshed, dialog>> /\ Synchronize
    BY DEF Poll
  <1>2. CASE UNCHANGED session /\ UNCHANGED event /\ NextRound
    <2>1. SessionInv' /\ Grows
      BY <1>2 DEF session, SessionInv, ClientTypeOK, Grows
    <2>2. {saving, result, refreshed}' \subseteq 0..operation'
      BY <1>1, <1>2 DEF TuiTypeOK, dialog, session
    <2>3. screen' \in Views /\ screen' = View' /\ opened' \in 0..revision'
      BY <1>1, <2>1, <2>2, NextScreen DEF dialog
    <2>4. at' \in {"exited", "input"}
      BY <1>2 DEF NextRound
    <2>5. TuiTypeOK'
      BY <1>1, <1>2, <2>2, <2>3, <2>4 DEF TuiTypeOK, dialog
    <2> QED BY <1>1, <1>2, <2>1, <2>3, <2>4, <2>5 DEF dialog, session
  <1>3. CASE OverBudget /\ UNCHANGED event /\ NextRound
    <2>1. SessionInv' /\ Grows /\ UNCHANGED <<operation, kind, launched, mutation>> /\ phase # "idle"
      BY <1>3, OverBudgetInv
    <2>2. {saving, result, refreshed}' \subseteq 0..operation'
      BY <1>1, <2>1 DEF TuiTypeOK, dialog
    <2>3. screen' \in Views /\ screen' = View' /\ opened' \in 0..revision'
      BY <1>1, <2>1, <2>2, NextScreen DEF dialog
    <2>4. at' \in {"exited", "input"}
      BY <1>3 DEF NextRound
    <2>5. TuiTypeOK'
      BY <1>1, <1>3, <2>2, <2>3, <2>4 DEF TuiTypeOK, dialog
    <2> QED BY <1>1, <1>3, <2>1, <2>3, <2>4, <2>5 DEF dialog
  <1>4. CASE Collect /\ event' = EventOf /\ at' = "handle"
    <2>1. /\ SessionInv' /\ Grows
          /\ phase # "idle" /\ phase' = "idle" /\ operation' = operation
          /\ launched.op # 0 => launched'.op # 0
          /\ EventOf \in {"SnapshotArrived", "OperationFinished", "MutationFailed", "MutationFinished"}
          /\ EventOf = "OperationFinished" => kind \in {"launch", "repair"} /\ operation <= MaxOps
          /\ EventOf = "MutationFinished" => kind \in {"proxy", "consent"} /\ mutation'.op = operation
      BY <1>4, CollectInv
    <2>2. {saving, result, refreshed}' \subseteq 0..operation'
      BY <1>1, <2>1 DEF TuiTypeOK, dialog
    <2>3. screen' \in Views /\ screen' = View' /\ opened' \in 0..revision'
      BY <1>1, <2>1, <2>2, NextScreen DEF dialog
    <2>4. TuiTypeOK'
      BY <1>1, <1>4, <2>1, <2>2, <2>3 DEF TuiTypeOK, dialog
    <2> QED BY <1>1, <1>4, <2>1, <2>3, <2>4 DEF dialog
  <1> QED BY <1>2, <1>3, <1>4 DEF Poll

LEMMA HandleInv ==
  ASSUME SessionInv, TuiInv, Handle
  PROVE  SessionInv' /\ TuiInv' /\ Grows
  <1> USE DEF TuiInv
  <1>1. at = "handle" /\ phase = "idle" /\ Synchronize /\ event' = "None" /\ UNCHANGED exiting /\ NextRound
    BY DEF Handle
  <1>2. at' \in {"exited", "input"}
    BY <1>1 DEF NextRound
  <1>3. launched.op \in 0..operation /\ mutation.op \in 0..operation /\ operation \in Nat /\ operation <= MaxOps + 1
    BY DEF SessionInv, ClientTypeOK
  \* The dialog after an event: an outcome of the operation, or what was there.
  <1>4. /\ modal' \in Modals \ {"Consent", "Repair"} \/ UNCHANGED <<modal, opened>>
        /\ opened' = opened /\ typed' \in BOOLEAN /\ draft' \in Drafts /\ {inline', notice'} \subseteq BOOLEAN
        /\ saving' \in {0, saving} /\ result' \in {0, result, launched.op}
    BY <1>1 DEF Handle, OnOperation, OnSnapshot, OnMutation, OnFailure, ApplyMutationOutcome, Retain,
         ShowOutcome, ShowError, Note, Nothing, NoLaunchYet, Quiet, dialog, Modals, TuiTypeOK
  <1>5. CASE event = "OperationFinished" /\ OnOperation /\ refreshed' = launched.op /\ Refresh
    <2>1. "refresh" \in Session!Kinds /\ operation <= MaxOps /\ target \in Endpoints \cup {Blank}
      BY <1>1, <1>5 DEF Session!Kinds, SessionInv, ClientTypeOK
    <2>2. /\ SessionInv' /\ Grows /\ operation' = operation + 1 /\ kind' = "refresh" /\ phase' = "running"
          /\ UNCHANGED <<launched, mutation>>
      BY <1>5, <2>1, DispatchInv DEF Refresh
    <2>3. {saving, result, refreshed}' \subseteq 0..operation'
      BY <1>3, <1>4, <1>5, <2>2 DEF TuiTypeOK
    <2>4. screen' \in Views /\ screen' = View' /\ opened' \in 0..revision'
      BY <1>1, <1>4, <2>2, <2>3, NextScreen
    <2>5. modal' \in Results
      BY <1>5 DEF OnOperation, ShowOutcome, Results
    <2>6. TuiTypeOK'
      BY <1>1, <1>2, <1>4, <2>3, <2>4, <2>5 DEF TuiTypeOK, Modals, Results
    <2> QED BY <1>1, <1>2, <1>4, <2>2, <2>4, <2>5, <2>6 DEF Results
  <1>6. CASE UNCHANGED <<session, refreshed>>
    <2>1. SessionInv' /\ Grows
      BY <1>6 DEF session, SessionInv, ClientTypeOK, Grows
    <2>2. {saving, result, refreshed}' \subseteq 0..operation'
      BY <1>3, <1>4, <1>6 DEF TuiTypeOK, session
    <2>3. screen' \in Views /\ screen' = View' /\ opened' \in 0..revision'
      BY <1>1, <1>4, <2>1, <2>2, NextScreen
    <2>4. TuiTypeOK'
      BY <1>1, <1>2, <1>4, <2>2, <2>3 DEF TuiTypeOK
    <2>5. result' # 0 => launched'.op # 0
      BY <1>4, <1>6 DEF session
    <2> QED BY <1>1, <1>2, <1>4, <1>6, <2>1, <2>3, <2>4, <2>5 DEF session
  <1> QED BY <1>5, <1>6 DEF Handle, OnOperation

LEMMA TuiRunsInv ==
  ASSUME SessionInv, TuiInv, StartUp \/ Key \/ Poll \/ Handle
  PROVE  SessionInv' /\ TuiInv' /\ Grows
  BY StartUpInv, KeyInv, PollInv, HandleInv

LEMMA DrawFailsInv ==
  ASSUME SessionInv, TuiInv, DrawFails
  PROVE  SessionInv' /\ TuiInv' /\ Grows
  <1> USE DEF DrawFails, Facts, Session!Close, Session!Withdraw, TuiInv, dialog
  <1>1. SessionInv' /\ Grows
    BY WithdrawInv DEF SessionInv, ClientTypeOK, Busy
  <1>2. TuiTypeOK'
    BY <1>1 DEF TuiTypeOK
  <1> QED BY <1>1, <1>2

\* The full-screen console at rest: its session changes, or is gone.
LEMMA TuiRests ==
  ASSUME SessionInv', Grows, TuiTypeOK, UNCHANGED tui, SessionInv PROVE TuiTypeOK'
  <1>1. UNCHANGED <<at, event, modal, screen, notice, exiting, refreshed, draft, inline, saving, typed, result, opened>>
    BY DEF tui, dialog
  <1>2. {saving, result, refreshed}' \subseteq 0..operation' /\ opened' \in 0..revision'
    BY <1>1 DEF TuiTypeOK, Grows, SessionInv, ClientTypeOK
  <1> QED BY <1>1, <1>2 DEF TuiTypeOK

LEMMA LineRests ==
  ASSUME SessionInv', Grows, LineTypeOK, UNCHANGED console, SessionInv PROVE LineTypeOK'
  <1>1. UNCHANGED <<line, flags, signals, stray, asking, shown, reported>>
    BY DEF console
  <1>2. shown' \in 0..revision' /\ reported' \in [launch : 0..operation', mutation : 0..operation']
    BY <1>1 DEF LineTypeOK, Grows, SessionInv, ClientTypeOK
  <1> QED BY <1>1, <1>2 DEF LineTypeOK

------------------------------------------------------------------------------
(* The line console.                                                       *)

\* A step that leaves the session alone, up to the worker's answer.
LEMMA LocalLineInv ==
  ASSUME SessionInv, LineInv, UNCHANGED session,
         \/ line' \in {"wait", "clear", "close", "poll", "report", "leaving", "left"}
         \/ line' = line
         \/ {line, line'} \subseteq {"prompt", "drain", "idle", "command", "host", "port"},
         flags' \subseteq {"cancel", "close"}, signals' \in 0..MaxSignals, stray' \in BOOLEAN,
         UNCHANGED <<asking, shown, reported>> 
  PROVE  SessionInv' /\ LineInv' /\ Grows
  <1> USE DEF LineInv
  <1>1. SessionInv' /\ Grows /\ View' = View
    BY DEF session, SessionInv, ClientTypeOK, Grows, View, CanLaunch, ViewError, Busy
  <1>2. LineTypeOK'
    BY DEF LineTypeOK, session
  <1> QED BY <1>1, <1>2 DEF session, Offer

\* A step to where nothing is asked and nothing has to be printed yet.
LEMMA WorkingLineInv ==
  ASSUME SessionInv, SessionInv', Grows, LineInv,
         line' \in {"wait", "clear", "close", "poll", "report", "leaving", "left"},
         flags' \subseteq {"cancel", "close"}, signals' \in 0..MaxSignals, stray' \in BOOLEAN,
         asking' \in {"none", asking}, shown' \in {0, shown}, UNCHANGED reported
  PROVE  LineInv'
  <1>1. shown' \in 0..revision' /\ reported' \in [launch : 0..operation', mutation : 0..operation']
    BY DEF LineInv, LineTypeOK, Grows, SessionInv, ClientTypeOK
  <1>2. LineTypeOK'
    BY <1>1 DEF LineInv, LineTypeOK
  <1> QED BY <1>2 DEF LineInv

LEMMA LineStartsInv ==
  ASSUME SessionInv, LineInv, NEW k \in {"refresh", "proxy", "consent", "launch", "repair"}, Dispatch(k), line' = "wait",
         operation <= MaxOps, k \in {"launch", "repair"} => operation < MaxOps,
         target' \in Endpoints \cup {Blank}, Inputs,
         asking' \in {"none", asking}, shown' \in {0, shown}, UNCHANGED reported
  PROVE  SessionInv' /\ LineInv' /\ Grows
  <1>1. k \in Session!Kinds
    BY DEF Session!Kinds
  <1>2. SessionInv' /\ Grows
    BY <1>1, DispatchInv
  <1> QED BY <1>2, WorkingLineInv DEF Inputs, LineInv, LineTypeOK

LEMMA InteractInv ==
  ASSUME SessionInv, LineInv, Interact
  PROVE  SessionInv' /\ LineInv' /\ Grows
  <1> USE DEF Goto, Inputs, Prompts
  <1>1. /\ flags \subseteq {"cancel", "close"} /\ signals \in 0..MaxSignals /\ stray \in BOOLEAN
        /\ target \in Endpoints \cup {Blank} /\ operation \in Nat
    BY DEF LineInv, LineTypeOK, SessionInv, ClientTypeOK
  <1>2. /\ flags' \subseteq {"cancel", "close"} /\ signals' \in 0..MaxSignals /\ stray' \in BOOLEAN
    BY <1>1 DEF Interact, ReadCommand, EndOfInput, DrainClose, DrainCancel, Again, NotListed, QuitCommand, RefreshCommand,
         LaunchCommand, EditCommand, ReadHost, ReadPort, AskCommand, ReadConfirmation, Consume
  <1>3. CASE ReadCommand \/ EndOfInput \/ DrainClose \/ DrainCancel \/ Again \/ NotListed
             \/ QuitCommand \/ EditCommand \/ ReadHost
    BY <1>2, <1>3, LocalLineInv DEF ReadCommand, EndOfInput, DrainClose, DrainCancel, Again, NotListed,
         QuitCommand, EditCommand, ReadHost
  <1>4. CASE RefreshCommand
    BY <1>1, <1>4, ClientAssumption, LineStartsInv DEF RefreshCommand, Refresh
  <1>5. CASE LaunchCommand
    <2>1. CASE operation < MaxOps /\ Launch
      BY <1>1, <1>5, <2>1, ClientAssumption, LineStartsInv DEF LaunchCommand, Launch
    <2>2. CASE Refused
      BY <1>2, <1>5, <2>2, RefusedInv, WorkingLineInv DEF LaunchCommand
    <2> QED BY <1>5, <2>1, <2>2 DEF LaunchCommand
  <1>6. CASE ReadPort
    <2>1. CASE View.endpoint = Blank /\ Goto("port", "prompt") /\ UNCHANGED session
      BY <1>2, <1>6, <2>1, LocalLineInv DEF ReadPort
    <2>2. CASE Goto("port", "report") /\ UNCHANGED session
      BY <1>2, <1>6, <2>2, LocalLineInv DEF ReadPort
    <2>3. CASE \E endpoint \in Endpoints : operation < MaxOps /\ SaveProxy(endpoint) /\ Goto("port", "wait")
      BY <1>1, <1>6, <2>3, ClientAssumption, LineStartsInv DEF ReadPort, SaveProxy
    <2> QED BY <1>6, <2>1, <2>2, <2>3 DEF ReadPort
  <1>7. CASE AskCommand
    <2>1. SessionInv' /\ Grows /\ View' = View
      BY <1>7 DEF AskCommand, session, SessionInv, ClientTypeOK, Grows, View, CanLaunch, ViewError, Busy
    <2>2. shown' = Offer(asking') /\ Offer(asking') \in {0, consent, repair} /\ asking' \in {"consent", "repair"}
      BY <1>7 DEF AskCommand, Offer, View
    <2>3. shown' \in 0..revision
      BY <2>2 DEF SessionInv, ClientTypeOK
    <2>4. shown' = Offer(asking)'
      BY <2>1, <2>2 DEF Offer
    <2>5. LineTypeOK'
      BY <1>2, <1>7, <2>2, <2>3 DEF AskCommand, LineInv, LineTypeOK, session
    <2> QED BY <1>7, <2>1, <2>2, <2>4, <2>5 DEF AskCommand, LineInv, session
  <1>8. CASE ReadConfirmation
    <2>1. CASE line' = "report" /\ UNCHANGED session
      <3>1. SessionInv' /\ Grows
        BY <2>1 DEF session, SessionInv, ClientTypeOK, Grows
      <3> QED BY <1>2, <1>8, <2>1, <3>1, WorkingLineInv DEF ReadConfirmation
    <2>2. CASE line' = "wait" /\ operation < MaxOps
               /\ IF asking = "repair" THEN RepairLaunch(Offer(asking)) ELSE SetConsent(Offer(asking))
      <3>1. PICK k \in {"consent", "repair"} : Dispatch(k) /\ target' = target
        BY <2>2 DEF RepairLaunch, SetConsent
      <3> QED BY <1>1, <1>8, <2>2, <3>1, ClientAssumption, LineStartsInv DEF ReadConfirmation
    <2>3. CASE line' = "wait" /\ Refused
      BY <1>2, <1>8, <2>3, RefusedInv, WorkingLineInv DEF ReadConfirmation
    <2> QED BY <1>8, <2>1, <2>2, <2>3 DEF ReadConfirmation
  <1> QED BY <1>3, <1>4, <1>5, <1>6, <1>7, <1>8 DEF Interact

LEMMA ProceedInv ==
  ASSUME SessionInv, LineInv, Proceed
  PROVE  SessionInv' /\ LineInv' /\ Grows
  <1> USE DEF Goto, Inputs, Prompts
  <1>1. /\ flags \subseteq {"cancel", "close"} /\ signals \in 0..MaxSignals /\ stray \in BOOLEAN
        /\ target \in Endpoints \cup {Blank}
    BY DEF LineInv, LineTypeOK, SessionInv, ClientTypeOK
  <1>2. /\ flags' \subseteq {"cancel", "close"} /\ signals' \in 0..MaxSignals /\ stray' \in BOOLEAN
    BY <1>1 DEF Proceed, Start, WaitOver, LoadCancel, ClearCancel, TakeClose, PollOnce, Report, Leave, Consume
  <1>3. CASE Start
    <2>1. operation = 0 /\ operation <= MaxOps
      BY <1>3, ClientAssumption DEF Start, LineInv
    <2> QED BY <1>1, <1>3, <2>1, LineStartsInv DEF Start, Refresh
  <1>4. CASE WaitOver \/ LoadCancel \/ Leave
    BY <1>2, <1>4, LocalLineInv DEF WaitOver, LoadCancel, Leave
  <1>5. CASE ClearCancel
    BY <1>2, <1>5, CancelInv, WorkingLineInv DEF ClearCancel
  <1>6. CASE TakeClose
    <2>1. SessionInv' /\ Grows
      <3>1. CASE CancelOperation
        BY <3>1, CancelInv
      <3>2. CASE UNCHANGED session
        BY <3>2 DEF session, SessionInv, ClientTypeOK, Grows
      <3> QED BY <1>6, <3>1, <3>2 DEF TakeClose
    <2> QED BY <1>2, <1>6, <2>1, WorkingLineInv DEF TakeClose
  <1>7. CASE PollOnce
    <2>1. SessionInv' /\ Grows
      <3>1. CASE Collect
        BY <3>1, CollectInv
      <3>2. CASE OverBudget
        BY <3>2, OverBudgetInv
      <3>3. CASE UNCHANGED session
        BY <3>3 DEF session, SessionInv, ClientTypeOK, Grows
      <3> QED BY <1>7, <3>1, <3>2, <3>3 DEF PollOnce
    <2> QED BY <1>2, <1>7, <2>1, WorkingLineInv DEF PollOnce
  <1>8. CASE Report
    <2>1. SessionInv' /\ Grows
      BY <1>8 DEF Report, session, SessionInv, ClientTypeOK, Grows
    <2>2. launched.op \in 0..operation /\ mutation.op \in 0..operation /\ reported.mutation \in 0..operation
      BY DEF SessionInv, ClientTypeOK, LineInv, LineTypeOK
    <2>3. LineTypeOK'
      BY <1>2, <1>8, <2>2 DEF Report, LineInv, LineTypeOK, session
    <2> QED BY <1>8, <2>1, <2>3 DEF Report, LineInv, session
  <1> QED BY <1>3, <1>4, <1>5, <1>6, <1>7, <1>8 DEF Proceed

LEMMA SignalInv ==
  ASSUME SessionInv, LineInv, Signal
  PROVE  SessionInv' /\ LineInv' /\ Grows
  <1>1. PICK bits \in {{"cancel"}, {"cancel", "close"}} :
          /\ flags' = flags \cup bits
          /\ stray' = (bits = {"cancel"} /\ line \in Reads /\ ("cancel" \in flags => stray))
    BY DEF Signal
  <1>2. flags' \subseteq {"cancel", "close"} /\ stray' \in BOOLEAN
    BY <1>1 DEF LineInv, LineTypeOK
  <1>3. signals' \in 0..MaxSignals
    BY LineAssumption DEF Signal, LineInv, LineTypeOK
  <1> QED BY <1>2, <1>3, LocalLineInv DEF Signal, Prompts, session

------------------------------------------------------------------------------
(* The console.                                                            *)

LEMMA FirstValues ==
  /\ Unread \in Snapshots /\ Unread.ready = FALSE
  /\ NoOutcome \in [op : 0..0, failed : BOOLEAN] /\ NoOutcome.op = 0
  /\ Unreported \in [launch : 0..0, mutation : 0..0] /\ 0 \in 0..0 /\ 0 \in 0..(MaxOps + 1) /\ 0 \in 0..MaxSignals
  /\ Blank \in Drafts /\ "None" \in Modals
  BY ClientAssumption, LineAssumption DEF Unread, Snapshots, Plans, NoOutcome, Unreported, Drafts, Modals

LEMMA InitInv == Init => Inv
  <1> SUFFICES ASSUME Init PROVE Inv
    OBVIOUS
  <1> USE ClientAssumption, LineAssumption DEF Init, ClientInit, TuiInit, LineInit, Session!Init
  <1>1. SessionInv
    <2>1. ClientTypeOK
      BY FirstValues DEF ClientTypeOK
    <2> QED BY <2>1, FirstValues DEF SessionInv
  <1>2. screen \in Views /\ screen = View
    BY <1>1, ViewType
  <1>3. TuiInv
    <2>1. TuiTypeOK
      BY <1>2, FirstValues DEF TuiTypeOK
    <2> QED BY <1>2, <2>1, FirstValues DEF TuiInv, Results
  <1>4. LineInv
    <2>1. LineTypeOK
      BY FirstValues DEF LineTypeOK
    <2> QED BY <2>1, FirstValues DEF LineInv, Unreported
  <1> QED BY <1>1, <1>3, <1>4 DEF Inv, Untouched, TuiInv

LEMMA FallBackInv ==
  ASSUME Inv, FallBack PROVE Inv'
  <1> USE ClientAssumption, LineAssumption DEF FallBack
  <1>1. SessionInv'
    <2>1. ClientTypeOK'
      BY FirstValues DEF ClientTypeOK, Inv, SessionInv
    <2> QED BY <2>1, FirstValues DEF SessionInv
  <1>2. screen' \in Views
    BY <1>1, NextViewType
  <1>3. TuiTypeOK'
    BY <1>2, FirstValues DEF TuiTypeOK
  <1>4. LineInv'
    BY DEF Inv, LineInv, LineTypeOK, Untouched, Unreported
  <1> QED BY <1>1, <1>3, <1>4 DEF Inv

LEMMA StepInv == Inv /\ [Next]_vars => Inv'
  <1> SUFFICES ASSUME Inv, [Next]_vars PROVE Inv'
    OBVIOUS
  <1>1. SessionInv /\ LineInv /\ LineTypeOK /\ TuiTypeOK
    BY DEF Inv, LineInv, TuiInv
  <1>2. CASE TuiRuns
    <2>1. front = "tui" /\ TuiInv /\ Untouched
      BY <1>2 DEF TuiRuns, Inv
    <2>2. SessionInv' /\ TuiInv' /\ Grows
      BY <1>1, <1>2, <2>1, TuiRunsInv DEF TuiRuns
    <2>3. LineTypeOK' /\ Untouched' /\ front' = "tui"
      BY <1>1, <1>2, <2>1, <2>2, LineRests DEF TuiRuns, Untouched, console
    <2> QED BY <2>2, <2>3 DEF Inv, LineInv, Untouched
  <1>3. CASE TuiFails
    <2>1. front = "tui" /\ TuiInv /\ Untouched
      BY <1>3 DEF TuiFails, Inv
    <2>2. SessionInv' /\ TuiInv' /\ Grows
      BY <1>1, <1>3, <2>1, DrawFailsInv DEF TuiFails
    <2>3. LineTypeOK' /\ Untouched' /\ front' = "tui"
      BY <1>1, <1>3, <2>1, <2>2, LineRests DEF TuiFails, Untouched, console
    <2> QED BY <2>2, <2>3 DEF Inv, LineInv, Untouched
  <1>4. CASE LineReads \/ LineProceeds \/ Signalled
    <2>1. front' = "line" /\ UNCHANGED tui
      BY <1>4 DEF LineReads, LineProceeds, Signalled
    <2>2. SessionInv' /\ LineInv' /\ Grows
      BY <1>1, <1>4, InteractInv, ProceedInv, SignalInv DEF LineReads, LineProceeds, Signalled
    <2>3. TuiTypeOK'
      BY <1>1, <2>1, <2>2, TuiRests
    <2> QED BY <2>1, <2>2, <2>3 DEF Inv
  <1>5. CASE Works
    <2>1. /\ SessionInv' /\ Grows /\ View' = View
          /\ UNCHANGED <<phase, operation, kind, revision, consent, repair, launched, mutation>>
      BY <1>1, <1>5, ArriveInv DEF Works
    <2>2. UNCHANGED <<tui, console, front>>
      BY <1>5 DEF Works
    <2>3. TuiTypeOK' /\ LineTypeOK'
      BY <1>1, <2>1, <2>2, TuiRests, LineRests
    <2>4. LineInv'
      BY <1>1, <2>1, <2>2, <2>3 DEF LineInv, Offer, console
    <2>5. TuiInv => TuiInv'
      BY <2>1, <2>2, <2>3 DEF TuiInv, tui, dialog, Results
    <2> QED BY <2>1, <2>2, <2>3, <2>4, <2>5 DEF Inv, Untouched, console
  <1>6. CASE SessionDropped
    <2>1. UNCHANGED <<Facts, mail, latch, target, tui, console, front>> /\ Session!Join
      BY <1>6 DEF SessionDropped
    <2>2. SessionInv' /\ Grows
      BY <1>1, <2>1, WithdrawInv DEF Session!Join, Facts, SessionInv, ClientTypeOK
    <2>3. TuiTypeOK' /\ LineTypeOK'
      BY <1>1, <2>1, <2>2, TuiRests, LineRests
    <2>4. UNCHANGED <<phase, operation, revision, consent, repair, launched, mutation, snap, elevated>> /\ kind' = "none" /\ closed = "closing"
      BY <2>1 DEF Session!Join, Facts
    <2>5. View' = View
      BY <2>4 DEF View, CanLaunch, ViewError, Busy
    <2>6. LineInv'
      BY <1>1, <2>1, <2>3, <2>4, <2>5 DEF LineInv, Offer, console
    <2>7. TuiInv => TuiInv'
      BY <2>1, <2>3, <2>4, <2>5 DEF TuiInv, tui, dialog, Results
    <2> QED BY <2>1, <2>2, <2>3, <2>6, <2>7 DEF Inv, Untouched, console
  <1>7. CASE FallBack
    BY <1>7, FallBackInv
  <1>8. CASE UNCHANGED vars
    <2>1. UNCHANGED <<session, tui, console, front>>
      BY <1>8 DEF vars
    <2>2. UNCHANGED <<phase, kind, operation, revision, consent, repair, closed, snap, known,
                      mail, latch, target, launched, mutation, elevated>>
      BY <2>1 DEF session
    <2>3. SessionInv' /\ Grows /\ View' = View
      BY <1>1, <2>2 DEF SessionInv, ClientTypeOK, Grows, View, CanLaunch, ViewError, Busy
    <2>4. TuiTypeOK' /\ LineTypeOK'
      BY <1>1, <2>1, <2>3, TuiRests, LineRests
    <2>5. LineInv'
      BY <1>1, <2>1, <2>2, <2>3, <2>4 DEF LineInv, Offer, console
    <2>6. TuiInv => TuiInv'
      BY <2>1, <2>2, <2>3, <2>4 DEF TuiInv, tui, dialog, Results
    <2> QED BY <2>1, <2>3, <2>4, <2>5, <2>6 DEF Inv, Untouched, console
  <1> QED BY <1>2, <1>3, <1>4, <1>5, <1>6, <1>7, <1>8 DEF Next

\* The invariant behind the properties of the console (crates/cpg-tui).
THEOREM Invariance == Spec => []Inv
  BY InitInv, StepInv, PTL DEF Spec

------------------------------------------------------------------------------
(* What follows from it.                                                   *)

\* Both front ends and their session keep their types, the operations their
\* bound: the refresh that follows a launch is the only one beyond it.
THEOREM TypeCorrectness == Spec => []TypeOK
  <1>1. Inv => TypeOK
    BY DEF Inv, SessionInv, LineInv, TuiInv, TypeOK
  <1> QED BY <1>1, Invariance, PTL

\* What EngineSession::view offers, the gates of request_launch and
\* request_set_backend_consent let through.
THEOREM OffersAreAccepted == Spec => []OfferedActionsAreAccepted
  <1>1. Inv => OfferedActionsAreAccepted
    BY DEF Inv, SessionInv, OfferedActionsAreAccepted, View, CanLaunch, LaunchAuthorized, Session!Authorized, Busy
  <1> QED BY <1>1, Invariance, PTL

\* interact prompts when every finished launch and failed change was printed.
THEOREM NothingIsLeftToPrint == Spec => []FinishedWorkIsPrinted
  <1>1. Inv => FinishedWorkIsPrinted
    BY DEF Inv, LineInv, FinishedWorkIsPrinted
  <1> QED BY <1>1, Invariance, PTL

\* The operation a key or a line starts is the one in hand afterwards.
LEMMA DispatchedKind ==
  ASSUME NEW k, Dispatch(k) PROVE kind' = k
  BY DEF Dispatch, Session!Request

LEMMA KeyConfirms ==
  ASSUME SessionInv, TuiInv, Key, kind' # kind, kind' \in {"consent", "repair"}
  PROVE  (IF kind' = "consent" THEN consent ELSE repair) = opened
  <1>1. CASE UNCHANGED session
    BY <1>1 DEF session
  <1>2. CASE CancelOperation \/ Refused
    BY <1>2, CancelInv, RefusedInv
  <1>3. CASE Refresh \/ Launch \/ \E e \in Endpoints : SaveProxy(e)
    BY <1>3, DispatchedKind DEF Refresh, Launch, SaveProxy
  <1>4. CASE Confirm /\ Submit(IF modal = "Repair" THEN repair ELSE consent)
    <2>1. CASE modal = "Repair" /\ RepairLaunch(repair)
      <3>1. kind' = "repair" /\ repair # 0
        BY <2>1, DispatchedKind DEF RepairLaunch
      <3> QED BY <2>1, <3>1 DEF TuiInv
    <2>2. CASE modal = "Consent" /\ SetConsent(consent)
      <3>1. kind' = "consent" /\ consent # 0
        BY <2>2, DispatchedKind DEF SetConsent
      <3> QED BY <2>2, <3>1 DEF TuiInv
    <2> QED BY <1>4, <2>1, <2>2 DEF Confirm, Submit
  <1>5. CASE Confirm
    BY <1>1, <1>2, <1>4, <1>5 DEF Confirm
  <1>6. CASE Save
    <2>1. UNCHANGED session \/ SaveProxy(draft)
      BY <1>6 DEF Save
    <2>2. SaveProxy(draft) => draft \in Endpoints
      BY DEF SaveProxy
    <2> QED BY <1>1, <1>3, <2>1, <2>2
  <1> QED
    BY <1>1, <1>2, <1>3, <1>5, <1>6 DEF Key, NoKey, IgnoredKey, CtrlC, AskToQuit, KeepRunning, CancelAndQuit, Quit,
      Help, Close, CopyDiagnostic, PressRefresh, PressLaunch, Unavailable, OpenEditor, OpenConsent,
      OpenRepair, EditDraft, Type

LEMMA LineConfirms ==
  ASSUME SessionInv, LineInv, Interact, kind' # kind, kind' \in {"consent", "repair"}
  PROVE  (IF kind' = "consent" THEN consent ELSE repair) = shown
  <1>1. CASE UNCHANGED session
    BY <1>1 DEF session
  <1>2. CASE Refused
    BY <1>2, RefusedInv
  <1>3. CASE Refresh \/ Launch \/ \E e \in Endpoints : SaveProxy(e)
    BY <1>3, DispatchedKind DEF Refresh, Launch, SaveProxy
  <1>4. CASE /\ ReadConfirmation
             /\ IF asking = "repair" THEN RepairLaunch(Offer(asking)) ELSE SetConsent(Offer(asking))
    <2>1. line = "yes" /\ shown = Offer(asking)
      BY <1>4 DEF ReadConfirmation, LineInv
    <2>2. CASE asking = "repair"
      <3>1. kind' = "repair" /\ Offer(asking) = repair
        BY <1>4, <2>2, DispatchedKind DEF RepairLaunch
      <3> QED BY <2>1, <3>1
    <2>3. CASE asking # "repair"
      <3>1. kind' = "consent" /\ Offer(asking) = consent
        BY <1>4, <2>3, DispatchedKind DEF SetConsent
      <3> QED BY <2>1, <3>1
    <2> QED BY <2>2, <2>3
  <1> QED
    BY <1>1, <1>2, <1>3, <1>4 DEF Interact, ReadCommand, EndOfInput, DrainClose, DrainCancel, Again, NotListed,
      QuitCommand, RefreshCommand, LaunchCommand, EditCommand, ReadHost, ReadPort, AskCommand, ReadConfirmation

\* A dialog of the full-screen console, or the YES prompt, confirms the proposal it
\* was opened for: submit_confirmation and read_confirmation name the one on
\* offer at that moment, and it is the same.
THEOREM ShownIsConfirmed == Spec => ConfirmsWhatWasShown
  <1> DEFINE Confirms == (kind' # kind /\ kind' \in {"consent", "repair"})
                         => (IF kind' = "consent" THEN consent ELSE repair)
                            = (IF front = "tui" THEN opened ELSE shown)
  <1>1. Inv /\ [Next]_vars => [Confirms]_vars
    <2> SUFFICES ASSUME Inv, Next, kind' # kind, kind' \in {"consent", "repair"}
                 PROVE  (IF kind' = "consent" THEN consent ELSE repair)
                        = (IF front = "tui" THEN opened ELSE shown)
      OBVIOUS
    <2>1. CASE TuiRuns
      <3>1. front = "tui" /\ SessionInv /\ TuiInv
        BY <2>1 DEF TuiRuns, Inv
      <3>2. CASE StartUp
        BY <3>2, DispatchedKind DEF StartUp, Refresh
      <3>3. CASE Poll
        <4>1. Collect => kind' = "none"
          <5> SUFFICES ASSUME Collect PROVE kind' = "none"
            OBVIOUS
          <5> QED BY DEF Collect, Refreshed, Committed, Declined, Launched, Panicked, Session!Settle
        <4>2. OverBudget => kind' = kind
          BY DEF OverBudget, Session!TimeOut
        <4> QED BY <3>3, <4>1, <4>2 DEF Poll, session
      <3>4. CASE Handle
        BY <3>4, DispatchedKind DEF Handle, OnOperation, Refresh, session
      <3>5. CASE Key
        BY <3>1, <3>5, KeyConfirms
      <3> QED BY <2>1, <3>2, <3>3, <3>4, <3>5 DEF TuiRuns
    <2>2. CASE TuiFails
      BY <2>2 DEF TuiFails, DrawFails, Session!Close
    <2>3. CASE LineReads
      BY <2>3, LineConfirms DEF LineReads, Inv
    <2>4. CASE LineProceeds
      <3>1. Collect => kind' = "none"
        BY DEF Collect, Refreshed, Committed, Declined, Launched, Panicked, Session!Settle
      <3>2. CancelOperation \/ OverBudget => kind' = kind
        BY DEF CancelOperation, Session!Refuse, OverBudget, Session!TimeOut, session
      <3>3. Refresh => kind' = "refresh"
        BY DispatchedKind DEF Refresh
      <3>4. UNCHANGED session => kind' = kind
        BY DEF session
      <3> QED BY <2>4, <3>1, <3>2, <3>3, <3>4 DEF LineProceeds, Proceed, Start, WaitOver, LoadCancel,
                ClearCancel, TakeClose, PollOnce, Report, Leave
    <2>5. CASE Signalled
      BY <2>5 DEF Signalled, Signal, session
    <2>6. CASE Works \/ SessionDropped \/ FallBack
      BY <2>6 DEF Works, Arrive, SessionDropped, Session!Join, FallBack
    <2> QED BY <2>1, <2>2, <2>3, <2>4, <2>5, <2>6 DEF Next
  <1> QED BY <1>1, Invariance, PTL DEF Spec, ConfirmsWhatWasShown

\* handle_event leaves a failed operation on the screen.
THEOREM FailuresStayOnScreen == Spec => FailureIsReported
  <1> DEFINE Reports == (/\ at = "handle" /\ at' \in {"input", "exited"} /\ saving \in {0, operation}
                         /\ \/ event = "MutationFailed"
                            \/ event = "MutationFinished" /\ mutation.failed
                            \/ event = "OperationFinished" /\ launched.failed)
                        => (modal' = "ErrorResult" \/ (modal' = "ProxyEditor" /\ inline')
                            \/ (notice' /\ launched.op # 0))
  <1>1. Inv /\ [Next]_vars => [Reports]_vars
    <2> SUFFICES ASSUME Inv, Next, at = "handle", at' \in {"input", "exited"}, saving \in {0, operation},
                        \/ event = "MutationFailed"
                        \/ event = "MutationFinished" /\ mutation.failed
                        \/ event = "OperationFinished" /\ launched.failed
                 PROVE  modal' = "ErrorResult" \/ (modal' = "ProxyEditor" /\ inline')
                        \/ (notice' /\ launched.op # 0)
      OBVIOUS
    <2>1. at' # at
      OBVIOUS
    <2>2. ~UNCHANGED tui
      BY <2>1 DEF tui
    <2>3. Handle /\ front = "tui"
      BY <2>2 DEF Next, TuiRuns, TuiFails, LineReads, LineProceeds, Signalled, Works, SessionDropped, FallBack,
           StartUp, Key, Poll, DrawFails, NoKey, IgnoredKey, CtrlC, AskToQuit, KeepRunning, CancelAndQuit, Quit,
           Help, Close, CopyDiagnostic, PressRefresh, PressLaunch, Unavailable, OpenEditor, OpenConsent,
           OpenRepair, EditDraft, Type, Save, Confirm, Free, Pressed
    <2>4. event = "MutationFinished" => mutation.op = operation
      BY <2>3 DEF Inv, TuiInv
    <2> QED BY <2>3, <2>4 DEF Handle, OnOperation, OnMutation, OnFailure, ApplyMutationOutcome, Retain,
              ShowOutcome, ShowError, Note, NoLaunchYet, Quiet
  <1> QED BY <1>1, Invariance, PTL DEF Spec, FailureIsReported

\* No event the loop handles takes a launch result off the screen (handle_event).
THEOREM ResultsStayOnScreen == Spec => ResultIsRetained
  <1> DEFINE Retains == (modal \in {"LaunchResult", "ErrorResult"} /\ result # 0 /\ at \in {"poll", "handle"})
                        => UNCHANGED <<modal, result>>
  <1>1. Inv /\ [Next]_vars => [Retains]_vars
    <2> SUFFICES ASSUME Inv, Next, modal \in {"LaunchResult", "ErrorResult"}, result # 0, at \in {"poll", "handle"}
                 PROVE  UNCHANGED <<modal, result>>
      OBVIOUS
    <2>1. CASE UNCHANGED tui
      BY <2>1 DEF tui, dialog
    <2>2. CASE Poll
      BY <2>2 DEF Poll, dialog
    <2>3. CASE front = "tui" /\ Handle
      <3>1. /\ event \notin {"OperationFinished", "MutationFinished"} /\ ~NoLaunchYet
        BY <2>3 DEF Inv, TuiInv, Handle, Results, NoLaunchYet
      <3> QED BY <2>3, <3>1 DEF Handle, OnSnapshot, OnFailure, Note, Nothing, dialog
    <2> QED BY <2>1, <2>2, <2>3 DEF Next, TuiRuns, TuiFails, LineReads, LineProceeds, Signalled, Works,
           SessionDropped, FallBack, StartUp, Key, DrawFails, NoKey, IgnoredKey, CtrlC, AskToQuit, KeepRunning,
           CancelAndQuit, Quit, Help, Close, CopyDiagnostic, PressRefresh, PressLaunch, Unavailable, OpenEditor,
           OpenConsent, OpenRepair, EditDraft, Type, Save, Confirm, Free, Pressed
  <1> QED BY <1>1, Invariance, PTL DEF Spec, ResultIsRetained

\* Where the line console reads, drops an idle Ctrl+C or chooses a command.
Waiting == {"prompt", "drain", "idle", "command", "host", "port", "yes", "report"}

Rests == line \in Waiting => ~Busy

\* The line console comes back from an operation only when it is over.
LEMMA RestsInv == Inv /\ Rests /\ [Next]_vars => Rests'
  <1> SUFFICES ASSUME Inv, Rests, [Next]_vars, line' \in Waiting PROVE ~Busy'
    BY DEF Rests
  <1> USE DEF Rests, Waiting, Busy, Goto
  <1>1. CASE TuiRuns \/ TuiFails
    BY <1>1 DEF TuiRuns, TuiFails, console, Inv, Untouched
  <1>2. CASE LineReads
    BY <1>2 DEF LineReads, Interact, session, ReadCommand, EndOfInput, DrainClose, DrainCancel, Again, NotListed,
         QuitCommand, RefreshCommand, LaunchCommand, EditCommand, ReadHost, ReadPort, AskCommand,
         ReadConfirmation, Reads
  <1>3. CASE LineProceeds
    BY <1>3 DEF LineProceeds, Proceed, session, Start, WaitOver, LoadCancel, ClearCancel, TakeClose, PollOnce,
         Report, Leave
  <1>4. CASE Signalled
    BY <1>4 DEF Signalled, Signal, session
  <1>5. CASE Works \/ SessionDropped
    BY <1>5 DEF Works, Arrive, SessionDropped, Session!Join, console
  <1>6. CASE FallBack
    BY <1>6 DEF FallBack
  <1>7. CASE UNCHANGED vars
    BY <1>7 DEF vars, session, console
  <1> QED BY <1>1, <1>2, <1>3, <1>4, <1>5, <1>6, <1>7 DEF Next

\* A Ctrl+C latched while an operation is in hand leaves the process-wide bits only
\* by cancelling that operation (handler, take_cancel, wait_with_controls, interact).
THEOREM SignalsHandedOver == Spec => SignalsAreHandedOver
  <1> DEFINE HandedOver == (Busy /\ "cancel" \in flags /\ "cancel" \notin flags') => latch'
  <1>1. Init => Rests
    BY DEF Init, LineInit, Rests, Waiting
  <1>2. Inv /\ Rests /\ [Next]_vars => [HandedOver]_vars
    <2> SUFFICES ASSUME Rests, Next, Busy, "cancel" \in flags, "cancel" \notin flags' PROVE latch'
      OBVIOUS
    <2>1. ~UNCHANGED flags
      OBVIOUS
    <2>2. ~Signalled
      BY DEF Signalled, Signal
    <2>3. LineReads => DrainClose \/ DrainCancel
      BY <2>1 DEF LineReads, Interact, Inputs, ReadCommand, EndOfInput, Again, NotListed, QuitCommand,
           RefreshCommand, LaunchCommand, EditCommand, ReadHost, ReadPort, AskCommand, ReadConfirmation
    <2>4. ~LineReads
      BY <2>3 DEF Rests, Waiting, DrainClose, DrainCancel, Goto
    <2>5. LineProceeds => ClearCancel \/ (TakeClose /\ Consume("close"))
      BY <2>1 DEF LineProceeds, Proceed, Inputs, Start, WaitOver, LoadCancel, TakeClose, PollOnce, Report, Leave
    <2>6. ~Consume("close")
      BY DEF Consume
    <2>7. CASE LineProceeds
      BY <2>5, <2>6, <2>7 DEF ClearCancel, CancelOperation
    <2>8. ~(TuiRuns \/ TuiFails \/ Works \/ SessionDropped \/ FallBack)
      BY <2>1 DEF TuiRuns, TuiFails, Works, SessionDropped, FallBack, console
    <2> QED BY <2>2, <2>4, <2>7, <2>8 DEF Next
  <1>3. Spec => []Rests
    BY <1>1, RestsInv, Invariance, PTL DEF Spec
  <1> QED BY <1>2, <1>3, Invariance, PTL DEF Spec, SignalsAreHandedOver

------------------------------------------------------------------------------
(* The front ends and the contract.                                        *)

\* All that a front end and the worker do to the session in hand.
Drives ==
  \/ Refresh \/ Launch \/ Refused \/ CancelOperation \/ OverBudget \/ Arrive \/ Collect \/ UNCHANGED session
  \/ \E endpoint \in Endpoints : SaveProxy(endpoint)
  \/ \E offer : SetConsent(offer) \/ RepairLaunch(offer)

Contracted == Session!Next \/ UNCHANGED Session!contract

LEMMA DrivesByContract ==
  ASSUME Drives
  PROVE  Contracted
  <1>1. \A k \in {"refresh", "proxy", "consent", "launch", "repair"} : Dispatch(k) => Contracted
    BY DEF Dispatch, Contracted, Session!Next, Session!Kinds
  <1>2. Refresh \/ Launch \/ (\E endpoint \in Endpoints : SaveProxy(endpoint)) \/ (\E offer : SetConsent(offer) \/ RepairLaunch(offer))
        => Contracted
    BY <1>1 DEF Refresh, Launch, SaveProxy, SetConsent, RepairLaunch
  <1>3. UNCHANGED session \/ Arrive => Contracted
    BY DEF session, Arrive, Facts, Contracted, Session!contract
  <1>4. Refused \/ CancelOperation \/ OverBudget => Contracted
    BY <1>3 DEF Refused, CancelOperation, OverBudget, Contracted, Session!Next
  <1>5. Collect => Contracted
    <2>1. {"snapshot", "committed", "refused", "launched", "panicked"} \subseteq UNION {Session!Fates[k] : k \in Session!Kinds}
      <3>1. /\ Session!Fates["refresh"] = {"snapshot", "panicked"} /\ Session!Fates["proxy"] = {"committed", "refused", "panicked"}
            /\ Session!Fates["launch"] = {"launched", "panicked"}
            /\ {"refresh", "proxy", "launch"} \subseteq Session!Kinds
        BY DEF Session!Fates, Session!Kinds
      <3> QED BY <3>1
    <2>2. \A fate \in {"snapshot", "committed", "refused", "launched", "panicked"} : Session!Settle(fate) => Session!Next
      BY <2>1 DEF Session!Next
    <2> QED BY <2>2 DEF Collect, Refreshed, Committed, Declined, Launched, Panicked, Contracted
  <1> QED BY <1>2, <1>3, <1>4, <1>5 DEF Drives

LEMMA KeysDrive ==
  ASSUME Key
  PROVE  Drives
  <1>1. CASE NoKey \/ IgnoredKey \/ AskToQuit \/ KeepRunning \/ Quit \/ Help \/ Close \/ CopyDiagnostic
             \/ Unavailable \/ OpenEditor \/ OpenConsent \/ OpenRepair \/ EditDraft \/ Type
    <2>1. UNCHANGED session
      BY <1>1 DEF NoKey, IgnoredKey, AskToQuit, KeepRunning, Quit, Help, Close, CopyDiagnostic,
           Unavailable, OpenEditor, OpenConsent, OpenRepair, EditDraft, Type
    <2> QED BY <2>1 DEF Drives
  <1>2. CASE CtrlC \/ CancelAndQuit
    <2>1. CancelOperation
      BY <1>2 DEF CtrlC, CancelAndQuit
    <2> QED BY <2>1 DEF Drives
  <1>3. CASE PressRefresh
    BY <1>3 DEF PressRefresh, Drives
  <1>4. CASE PressLaunch
    BY <1>4 DEF PressLaunch, Drives
  <1>5. CASE Save
    <2>1. CASE UNCHANGED session
      BY <2>1 DEF Drives
    <2>2. CASE SaveProxy(draft)
      <3>1. draft \in Endpoints
        BY <2>2 DEF SaveProxy
      <3> QED BY <2>2, <3>1 DEF Drives
    <2> QED BY <1>5, <2>1, <2>2 DEF Save
  <1>6. CASE Confirm
    <2>1. PICK offer : Submit(offer) \/ Refused \/ UNCHANGED session
      BY <1>6 DEF Confirm
    <2> QED BY <2>1 DEF Submit, Drives
  <1> QED BY <1>1, <1>2, <1>3, <1>4, <1>5, <1>6 DEF Key

LEMMA LineDrives ==
  ASSUME Interact \/ Proceed \/ Signal
  PROVE  Drives
  <1>1. CASE ReadCommand \/ EndOfInput \/ DrainClose \/ DrainCancel \/ Again \/ NotListed \/ QuitCommand
             \/ EditCommand \/ ReadHost \/ AskCommand \/ WaitOver \/ LoadCancel \/ Report \/ Leave \/ Signal
    <2>1. UNCHANGED session
      BY <1>1 DEF ReadCommand, EndOfInput, DrainClose, DrainCancel, Again, NotListed, QuitCommand,
           EditCommand, ReadHost, AskCommand, WaitOver, LoadCancel, Report, Leave, Signal
    <2> QED BY <2>1 DEF Drives
  <1>2. CASE RefreshCommand \/ Start
    BY <1>2 DEF RefreshCommand, Start, Drives
  <1>3. CASE LaunchCommand
    BY <1>3 DEF LaunchCommand, Drives
  <1>4. CASE ReadPort
    <2>1. UNCHANGED session \/ \E endpoint \in Endpoints : SaveProxy(endpoint)
      BY <1>4 DEF ReadPort
    <2> QED BY <2>1 DEF Drives
  <1>5. CASE ReadConfirmation
    <2>1. PICK offer : RepairLaunch(offer) \/ SetConsent(offer) \/ Refused \/ UNCHANGED session
      BY <1>5 DEF ReadConfirmation
    <2> QED BY <2>1 DEF Drives
  <1>6. CASE ClearCancel \/ TakeClose
    BY <1>6 DEF ClearCancel, TakeClose, Drives
  <1>7. CASE PollOnce
    BY <1>7 DEF PollOnce, Drives
  <1> QED BY <1>1, <1>2, <1>3, <1>4, <1>5, <1>6, <1>7 DEF Interact, Proceed

\* Both front ends drive the session by SessionContract alone: every step of run_loop,
\* interact, wait_with_controls and of the worker is a contract step or leaves the
\* contract's state alone, except that the line console starts over a new session
\* when the terminal failed (run_console).
THEOREM FrontEndsKeepTheContract ==
  Spec => /\ Session!Init
          /\ [][Session!Next \/ (front = "tui" /\ front' = "line" /\ (Session!Init)')]_(Session!contract)
  <1>1. Init => Session!Init
    BY DEF Init, ClientInit
  <1>2. Next => Contracted \/ (front = "tui" /\ front' = "line" /\ (Session!Init)')
    <2> SUFFICES ASSUME Next PROVE Contracted \/ (front = "tui" /\ front' = "line" /\ (Session!Init)')
      OBVIOUS
    <2>1. CASE TuiRuns
      <3>1. CASE StartUp
        BY <3>1, DrivesByContract DEF StartUp, Drives
      <3>2. CASE Key
        BY <3>2, KeysDrive, DrivesByContract
      <3>3. CASE Poll
        BY <3>3, DrivesByContract DEF Poll, Drives
      <3>4. CASE Handle
        <4>1. OnOperation \/ UNCHANGED session
          BY <3>4 DEF Handle
        <4> QED BY <4>1, DrivesByContract DEF OnOperation, Drives
      <3> QED BY <2>1, <3>1, <3>2, <3>3, <3>4 DEF TuiRuns
    <2>2. CASE LineReads \/ LineProceeds \/ Signalled
      BY <2>2, LineDrives, DrivesByContract DEF LineReads, LineProceeds, Signalled
    <2>3. CASE Works
      BY <2>3, DrivesByContract DEF Works, Drives
    <2>4. CASE TuiFails
      BY <2>4 DEF TuiFails, DrawFails, Contracted, Session!Next
    <2>5. CASE SessionDropped
      BY <2>5 DEF SessionDropped, Contracted, Session!Next
    <2>6. CASE FallBack
      <3>1. front = "tui" /\ front' = "line"
        BY <2>6 DEF FallBack
      <3>2. snap'.ready = FALSE
        BY <2>6 DEF FallBack, Unread
      <3>3. (Session!Init)'
        BY <2>6, <3>2 DEF FallBack, Session!Init
      <3> QED BY <3>1, <3>3
    <2> QED BY <2>1, <2>2, <2>3, <2>4, <2>5, <2>6 DEF Next
  <1>3. UNCHANGED vars => Contracted
    BY DrivesByContract DEF vars, Drives
  <1>4. [Next]_vars => [Session!Next \/ (front = "tui" /\ front' = "line" /\ (Session!Init)')]_(Session!contract)
    BY <1>2, <1>3 DEF Contracted
  <1> QED BY <1>1, <1>4, PTL DEF Spec
==============================================================================
