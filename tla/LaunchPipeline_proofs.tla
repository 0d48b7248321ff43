------------------------ MODULE LaunchPipeline_proofs ------------------------
(***************************************************************************)
(* Proofs about LaunchPipeline, for any number of Guards, any cooldown and *)
(* any bounds.  Inv adds to the stated invariants who holds the lock, what *)
(* a run can have done at each label, and how old the submissions are that *)
(* have not shown themselves when the lock is held.                        *)
(***************************************************************************)
EXTENDS LaunchPipeline, TLAPS

\* The records every run starts from have their types.
LEMMA Records ==
  /\ NoOptions \in Options /\ Fresh \in Facts /\ Nothing \in Deeds
  /\ 0 \in 0..MaxClock /\ NoTime \in Times /\ 0..MaxClock \subseteq Times
  /\ 0 \in 0..MaxRuns /\ 0 \in 0..MaxUpdates /\ 0 \in 0..MaxSkews /\ 0 \in 0..MaxCrashes
  BY ConstantsAssumption
  DEF NoOptions, Options, Fresh, Facts, Nothing, Deeds, Times

\* A report or a record of one field more is still a report or a record.
LEMMA Updates ==
  ASSUME TypeOK, NEW g \in Guards
  PROVE  /\ \A v \in {"not_submitted", "unknown", "returned"} :
              [facts[g] EXCEPT !.activation = v] \in Facts
         /\ \A v \in {"skipped", "unconfirmed", "stopped", "not_needed"} :
              [facts[g] EXCEPT !.daemon = v] \in Facts
         /\ \A v \in {"unknown", "not_applicable", "not_authorized", "prepared"} :
              [facts[g] EXCEPT !.backend = v] \in Facts
         /\ \A v \in BOOLEAN : /\ [deeds[g] EXCEPT !.wrote = v] \in Deeds
                               /\ [deeds[g] EXCEPT !.stopped = v] \in Deeds
                               /\ [deeds[g] EXCEPT !.submitted = v] \in Deeds
<1>1. facts[g] \in Facts /\ deeds[g] \in Deeds
  BY DEF TypeOK
<1>2. \A v \in {"not_submitted", "unknown", "returned"} :
        [facts[g] EXCEPT !.activation = v] \in Facts
  BY <1>1 DEF Facts
<1>3. \A v \in {"skipped", "unconfirmed", "stopped", "not_needed"} :
        [facts[g] EXCEPT !.daemon = v] \in Facts
  BY <1>1 DEF Facts
<1>4. \A v \in {"unknown", "not_applicable", "not_authorized", "prepared"} :
        [facts[g] EXCEPT !.backend = v] \in Facts
  BY <1>1 DEF Facts
<1>5. \A v \in BOOLEAN : /\ [deeds[g] EXCEPT !.wrote = v] \in Deeds
                         /\ [deeds[g] EXCEPT !.stopped = v] \in Deeds
                         /\ [deeds[g] EXCEPT !.submitted = v] \in Deeds
  BY <1>1 DEF Deeds
<1> QED
  BY <1>2, <1>3, <1>4, <1>5

\* The initial states satisfy the invariant.
LEMMA InitInv == Init => Inv
<1> SUFFICES ASSUME Init PROVE Inv
  OBVIOUS
<1>1. TypeOK
  BY Records DEF Init, TypeOK, Labels, Verdicts
<1>2. Exclusion /\ Progress
  BY DEF Init, Exclusion, Progress, LockHeldAt, Labels
<1>3. FactsAreHonest /\ EffectsInOrder
  BY DEF Init, FactsAreHonest, EffectsInOrder, Fresh, Nothing
<1>4. Flights
  BY DEF Init, Flights, LockHeldAt, Labels, Overdue
<1> QED
  BY <1>1, <1>2, <1>3, <1>4 DEF Inv

\* Every step of a run keeps the types.
LEMMA StepType == ASSUME TypeOK, NEW g \in Guards, Step(g) PROVE TypeOK'
<1>0. /\ \A v \in {"not_submitted", "unknown", "returned"} :
           [facts[g] EXCEPT !.activation = v] \in Facts
      /\ \A v \in {"skipped", "unconfirmed", "stopped", "not_needed"} :
           [facts[g] EXCEPT !.daemon = v] \in Facts
      /\ \A v \in {"unknown", "not_applicable", "not_authorized", "prepared"} :
           [facts[g] EXCEPT !.backend = v] \in Facts
      /\ \A v \in BOOLEAN : /\ [deeds[g] EXCEPT !.wrote = v] \in Deeds
                            /\ [deeds[g] EXCEPT !.stopped = v] \in Deeds
                            /\ [deeds[g] EXCEPT !.submitted = v] \in Deeds
  BY Updates
<1> USE ConstantsAssumption, Records DEF TypeOK, Step, Goto, Report, Record, open
<1>1. CASE OpenLock(g)
  BY <1>1 DEF OpenLock, Failed, Labels, Verdicts, world, budget
<1>2. CASE Discover(g)
  BY <1>0, <1>2 DEF Discover, Labels, world, budget
<1>3. CASE Prepare(g)
  BY <1>0, <1>3 DEF Prepare, Labels, world, budget
<1>4. CASE Verify(g)
  BY <1>0, <1>4 DEF Verify, Labels, world, budget
<1>5. CASE StopConfirmed(g)
  BY <1>0, <1>5 DEF StopConfirmed, Labels, budget
<1>6. CASE StopUnconfirmed(g)
  BY <1>0, <1>6 DEF StopUnconfirmed, Failed, Labels, Verdicts, budget
<1>7. CASE Final(g)
  BY <1>7 DEF Final, Labels, world, run, budget
<1>8. CASE Mark(g)
  BY <1>0, <1>8 DEF Mark, Labels, Times, budget
<1>9. CASE MarkFails(g)
  BY <1>9 DEF MarkFails, Failed, Labels, Verdicts, Times, budget
<1>10. CASE Submit(g)
  BY <1>0, <1>10 DEF Submit, Labels, Times, budget
<1>11. CASE SubmitFails(g)
  BY <1>11 DEF SubmitFails, Fail, Failed, Abandon, Labels, Verdicts, Times, world, budget
<1>12. CASE Receipt(g)
  BY <1>0, <1>12 DEF Receipt, Failed, Labels, Verdicts, world, budget
<1>13. CASE NoReceipt(g)
  BY <1>13 DEF NoReceipt, Fail, Failed, Abandon, Labels, Verdicts, Times, world, budget
<1>14. CASE Refuse(g)
  BY <1>14 DEF Refuse, Fail, Failed, Abandon, Labels, Verdicts, Times, world, budget
<1> QED
  BY <1>1, <1>2, <1>3, <1>4, <1>5, <1>6, <1>7, <1>8, <1>9, <1>10, <1>11, <1>12, <1>13, <1>14

\* So does everything else that can happen.
LEMMA NextType == TypeOK /\ [Next]_vars => TypeOK'
<1> SUFFICES ASSUME TypeOK, [Next]_vars PROVE TypeOK'
  OBVIOUS
<1>1. ASSUME NEW g \in Guards, Step(g) PROVE TypeOK'
  BY <1>1, StepType
<1> USE ConstantsAssumption, Records DEF TypeOK, Goto, Report, Record, open
<1>2. ASSUME NEW g \in Guards, Begin(g) PROVE TypeOK'
  BY <1>2 DEF Begin, Labels, Verdicts, world
<1>3. ASSUME NEW g \in Guards, Cancel(g) PROVE TypeOK'
  BY <1>3 DEF Cancel, world, run, budget
<1>4. ASSUME NEW g \in Guards, Crash(g) PROVE TypeOK'
  <2>1. flight' \in [Guards -> Times] /\ orphans' \subseteq 0..MaxClock
    BY <1>4 DEF Crash, Abandon, Times
  <2>2. /\ stamp' \in Times /\ pc' \in [Guards -> Labels] /\ verdict' \in [Guards -> Verdicts]
        /\ crashes' \in 0..MaxCrashes
    BY <1>4 DEF Crash, Labels, Verdicts, Times
  <2> QED
    BY <1>4, <2>1, <2>2 DEF Crash
<1>5. ASSUME NEW g \in Guards, Appear(g) PROVE TypeOK'
  BY <1>5 DEF Appear, run, budget
<1>6. CASE Tick \/ Surface
  <2>1. CASE Tick
    BY <2>1 DEF Tick, run, budget
  <2>2. CASE Surface
    BY <2>2 DEF Surface, run, budget
  <2> QED
    BY <1>6, <2>1, <2>2
<1>7. CASE Skew
  BY <1>7 DEF Skew, run
<1>8. CASE UserActs
  BY <1>8 DEF UserActs, run, budget
<1>9. CASE Update
  BY <1>9 DEF Update, run
<1>10. CASE UNCHANGED vars
  BY <1>10 DEF vars, world, run, budget
<1> QED
  BY <1>1, <1>2, <1>3, <1>4, <1>5, <1>6, <1>7, <1>8, <1>9, <1>10 DEF Next

\* Where one step of one run can go; the other runs stay where they are.
LEMMA Moves ==
  ASSUME TypeOK, NEW g \in Guards, Step(g)
  PROVE  /\ pc'[g] \in Labels
         /\ \A h \in Guards \ {g} : pc'[h] = pc[h]
         /\ pc[g] \notin LockHeldAt /\ pc'[g] \in LockHeldAt =>
              OpenLock(g) /\ ~Locked /\ ~TooSoon
BY DEF TypeOK, Labels, LockHeldAt, Step, Goto, OpenLock, Discover, Prepare, Verify, StopConfirmed,
       StopUnconfirmed, Final, Mark, MarkFails, Submit, SubmitFails, Receipt, NoReceipt, Refuse,
       Fail, Failed

\* The lock file admits one Guard at a time.
LEMMA NextExclusion == TypeOK /\ Exclusion /\ [Next]_vars => Exclusion'
<1> SUFFICES ASSUME TypeOK, Exclusion, [Next]_vars PROVE Exclusion'
  OBVIOUS
<1>1. ASSUME NEW g \in Guards, Step(g) PROVE Exclusion'
  BY <1>1, Moves DEF Exclusion, Locked
<1>2. ASSUME NEW g \in Guards, Begin(g) \/ Crash(g) PROVE Exclusion'
  BY <1>2 DEF Begin, Crash, Exclusion, Goto, LockHeldAt, TypeOK
<1>3. ASSUME NEW g \in Guards, Cancel(g) \/ Appear(g) PROVE Exclusion'
  BY <1>3 DEF Cancel, Appear, Exclusion
<1>4. CASE Surface \/ Tick \/ Skew \/ UserActs \/ Update \/ UNCHANGED vars
  BY <1>4 DEF Surface, Tick, Skew, UserActs, Update, vars, Exclusion
<1> QED
  BY <1>1, <1>2, <1>3, <1>4 DEF Next

Story == Progress /\ FactsAreHonest /\ EffectsInOrder

\* A step of a run leaves its report and its deeds in agreement.
LEMMA StepStory == ASSUME TypeOK, Story, NEW g \in Guards, Step(g) PROVE Story'
<1> USE DEF TypeOK, Story, Progress, FactsAreHonest, EffectsInOrder, Managed, Goto, Report, Record,
        Options, Facts, Deeds
<1>1. CASE OpenLock(g)
  BY <1>1 DEF OpenLock, Failed, Fresh, Nothing, world
<1>2. CASE Discover(g)
  BY <1>2 DEF Discover, Fresh, Nothing, world
<1>3. CASE Prepare(g)
  BY <1>3 DEF Prepare
<1>4. CASE Verify(g)
  BY <1>4 DEF Verify
<1>5. CASE StopConfirmed(g)
  <2>1. CASE daemon
    <3>1. deeds' = [deeds EXCEPT ![g] = [deeds[g] EXCEPT !.stopped = TRUE]]
      BY <1>5, <2>1 DEF StopConfirmed
    <3> QED
      BY <1>5, <2>1, <3>1 DEF StopConfirmed
  <2>2. CASE ~daemon
    <3>1. deeds' = [deeds EXCEPT ![g] = [deeds[g] EXCEPT !.stopped = FALSE]]
      BY <1>5, <2>2 DEF StopConfirmed
    <3> QED
      BY <1>5, <2>2, <3>1 DEF StopConfirmed
  <2> QED
    BY <2>1, <2>2
<1>6. CASE StopUnconfirmed(g)
  BY <1>6 DEF StopUnconfirmed, Failed
<1>7. CASE Final(g)
  BY <1>7 DEF Final, run
<1>8. CASE Mark(g)
  BY <1>8 DEF Mark
<1>9. CASE MarkFails(g)
  BY <1>9 DEF MarkFails, Failed
<1>10. CASE Submit(g)
  BY <1>10 DEF Submit
<1>11. CASE SubmitFails(g)
  BY <1>11 DEF SubmitFails, Fail, Failed
<1>12. CASE Receipt(g)
  BY <1>12 DEF Receipt, Failed
<1>13. CASE NoReceipt(g)
  BY <1>13 DEF NoReceipt, Fail, Failed
<1>14. CASE Refuse(g)
  BY <1>14 DEF Refuse, Fail, Failed, Fresh, Nothing, world
<1> QED
  BY <1>1, <1>2, <1>3, <1>4, <1>5, <1>6, <1>7, <1>8, <1>9, <1>10, <1>11, <1>12, <1>13, <1>14 DEF Step

\* Nothing outside a run changes what it did or what it reports.
LEMMA NextStory == TypeOK /\ Story /\ [Next]_vars => Story'
<1> SUFFICES ASSUME TypeOK, Story, [Next]_vars PROVE Story'
  OBVIOUS
<1>1. ASSUME NEW g \in Guards, Step(g) PROVE Story'
  BY <1>1, StepStory
<1> USE DEF TypeOK, Story, Progress, FactsAreHonest, EffectsInOrder, Managed, Goto, Report, Record
<1>2. ASSUME NEW g \in Guards, Begin(g) PROVE Story'
  BY <1>2 DEF Begin, Fresh, Nothing
<1>3. ASSUME NEW g \in Guards, Crash(g) PROVE Story'
  BY <1>3 DEF Crash, Fresh, Nothing
<1>4. ASSUME NEW g \in Guards, Cancel(g) \/ Appear(g) PROVE Story'
  BY <1>4 DEF Cancel, Appear, run
<1>5. CASE Surface \/ Tick \/ Skew \/ UserActs \/ Update \/ UNCHANGED vars
  BY <1>5 DEF Surface, Tick, Skew, UserActs, Update, vars, run
<1> QED
  BY <1>1, <1>2, <1>3, <1>4, <1>5 DEF Next

\* While an unseen submission is not a cooldown old the lock cannot be had.
LEMMA FreshBlocksTheLock ==
  ASSUME TypeOK, Flights, ~spoiled, NEW t \in orphans, ~Overdue(t)
  PROVE  TooSoon
<1>1. /\ t \in Int /\ clock \in Int /\ Cooldown \in Int /\ t # NoTime
      /\ stamp # NoTime => stamp \in Int
  BY ConstantsAssumption DEF TypeOK, Times
<1>2. stamp # NoTime /\ t <= stamp /\ stamp <= clock
  BY <1>1 DEF Flights
<1> QED
  BY <1>1, <1>2 DEF TooSoon, Overdue

\* A step of a run keeps the lock's promise about unseen submissions.
LEMMA StepFlights ==
  ASSUME TypeOK, Exclusion, Flights, NEW g \in Guards, Step(g)
  PROVE  Flights'
<1>a. \A h \in Guards : pc[h] \in LockHeldAt /\ pc[g] \in LockHeldAt => h = g
  BY DEF Exclusion
<1>0. /\ clock \in Int /\ Cooldown \in Nat \ {0} /\ NoTime \notin Int
      /\ orphans \subseteq Int /\ stamp \in Int \cup {NoTime}
  BY ConstantsAssumption DEF TypeOK, Times
<1>c. clock' = clock /\ spoiled' = spoiled /\ \A t : Overdue(t)' <=> Overdue(t)
  BY DEF Overdue, Step, world, OpenLock, Discover, Prepare, Verify, StopConfirmed, StopUnconfirmed,
     Final, Mark, MarkFails, Submit, SubmitFails, Receipt, NoReceipt, Refuse, Fail, Failed
<1> USE <1>0, <1>c DEF Flights, TypeOK, Goto, LockHeldAt, Labels, open
<1>1. CASE OpenLock(g)
  BY <1>1, <1>a, FreshBlocksTheLock DEF OpenLock, Failed, Locked, world
<1>2. CASE Discover(g)
  BY <1>2, <1>a DEF Discover, world
<1>3. CASE Prepare(g)
  BY <1>3, <1>a DEF Prepare, world
<1>4. CASE Verify(g)
  BY <1>4, <1>a DEF Verify, world
<1>5. CASE StopConfirmed(g)
  BY <1>5, <1>a DEF StopConfirmed
<1>6. CASE StopUnconfirmed(g)
  BY <1>6, <1>a DEF StopUnconfirmed, Failed
<1>7. CASE Final(g)
  BY <1>7, <1>a DEF Final, run, world
<1>8. CASE Mark(g)
  BY <1>8, <1>a DEF Mark, Overdue
<1>9. CASE MarkFails(g)
  BY <1>9, <1>a DEF MarkFails, Failed
<1>10. CASE Submit(g)
  BY <1>10, <1>a DEF Submit
<1>11. CASE SubmitFails(g) \/ NoReceipt(g) \/ Refuse(g)
  <2>1. /\ pc[g] \in {"submit", "activate", "lock", "discover", "prepare", "verify", "final"}
        /\ Abandon(g) /\ pc' = [pc EXCEPT ![g] = "settled"] /\ stamp' = stamp
    BY <1>11 DEF SubmitFails, NoReceipt, Refuse, Fail, Failed, world
  <2>2. \A h \in Guards \ {g} : flight'[h] = flight[h]
    BY <2>1 DEF Abandon
  <2>3. \A h \in Guards : flight'[h] # NoTime => pc'[h] \in {"submit", "activate"}
    BY <2>1, <2>2 DEF Abandon
  <2>4. orphans' \cup {flight'[h] : h \in Guards} \subseteq
          orphans \cup {flight[h] : h \in Guards} \cup {NoTime}
    BY <2>1, <2>2 DEF Abandon
  <2>5. ~spoiled /\ (\E h \in Guards : pc'[h] \in LockHeldAt) =>
          \A t \in orphans' : Overdue(t)
    <3> SUFFICES ASSUME ~spoiled, NEW h \in Guards, pc'[h] \in LockHeldAt
                 PROVE  \A t \in orphans' : Overdue(t)
      OBVIOUS
    <3>1. h # g /\ pc[h] \in LockHeldAt
      BY <2>1
    <3>2. orphans' = orphans
      BY <1>a, <2>1, <3>1 DEF Exclusion, Abandon
    <3> QED
      BY <3>1, <3>2
  <2> QED
    BY <2>1, <2>3, <2>4, <2>5
<1>12. CASE Receipt(g)
  BY <1>12, <1>a DEF Receipt, Failed, world
<1> QED
  BY <1>1, <1>2, <1>3, <1>4, <1>5, <1>6, <1>7, <1>8, <1>9, <1>10, <1>11, <1>12 DEF Step

\* So does everything outside the runs: time only makes submissions older.
LEMMA NextFlights == TypeOK /\ TypeOK' /\ Exclusion /\ Flights /\ [Next]_vars => Flights'
<1> SUFFICES ASSUME TypeOK, TypeOK', Exclusion, Flights, [Next]_vars PROVE Flights'
  OBVIOUS
<1>0. /\ clock \in Int /\ clock' \in Int /\ stamp \in Int \cup {NoTime}
      /\ Cooldown \in Nat \ {0} /\ NoTime \notin Int /\ orphans \subseteq Int
      /\ \A g \in Guards : flight[g] \in Int \cup {NoTime}
  BY ConstantsAssumption DEF TypeOK, Times
<1>1. ASSUME NEW g \in Guards, Step(g) PROVE Flights'
  BY <1>1, StepFlights
<1> USE <1>0 DEF Flights, Overdue, TypeOK, Goto, LockHeldAt, Labels, open
<1>2. ASSUME NEW g \in Guards, Begin(g) PROVE Flights'
  BY <1>2 DEF Begin, world
<1>3. ASSUME NEW g \in Guards, Cancel(g) PROVE Flights'
  BY <1>3 DEF Cancel, world
<1>4. ASSUME NEW g \in Guards, Crash(g) PROVE Flights'
  BY <1>4 DEF Crash, Exclusion, Abandon
<1>5. ASSUME NEW g \in Guards, Appear(g) PROVE Flights'
  BY <1>5 DEF Appear
<1>6. CASE Surface
  BY <1>6 DEF Surface
<1>7. CASE Tick
  BY <1>7 DEF Tick
<1>8. CASE Skew
  BY <1>8 DEF Skew
<1>9. CASE UserActs
  BY <1>9 DEF UserActs
<1>10. CASE Update \/ UNCHANGED vars
  <2>1. /\ clock' = clock /\ stamp' = stamp /\ spoiled' = spoiled
        /\ pc' = pc /\ flight' = flight /\ orphans' = orphans
    BY <1>10 DEF Update, vars, world
  <2> QED
    BY <2>1
<1> QED
  BY <1>1, <1>2, <1>3, <1>4, <1>5, <1>6, <1>7, <1>8, <1>9, <1>10 DEF Next

\* The invariant is inductive.
LEMMA NextInv == Inv /\ [Next]_vars => Inv'
  BY NextType, NextExclusion, NextStory, NextFlights DEF Inv, Story

\* Every reachable state satisfies the inductive invariant.
THEOREM Invariance == Spec => []Inv
  BY InitInv, NextInv, PTL DEF Spec

\* Every variable keeps its type, for all numbers of Guards, times and runs.
THEOREM TypeCorrect == Spec => []TypeOK
  BY Invariance, PTL DEF Inv

\* The facts a run reports never claim less than it did.
THEOREM HonestFacts == Spec => []FactsAreHonest
  BY Invariance, PTL DEF Inv

\* The block is written before the daemon is stopped, and both before Desktop
\* is submitted.
THEOREM OrderedEffects == Spec => []EffectsInOrder
  BY Invariance, PTL DEF Inv

\* At a submission every unseen one is a cooldown old, and so is any that
\* brings Desktop up between a Guard's last checks and its submission.
LEMMA SubmissionsApart ==
  ASSUME Inv, [Next]_vars, ~spoiled, NEW g \in Guards
  PROVE  /\ Submits(g) => \A t \in Unseen(g) : Overdue(t)
         /\ pc[g] \in {"mark", "submit"} /\ desktop # "guard" /\ desktop' = "guard" =>
              Submits(g) \/ \E t \in orphans \ orphans' : Overdue(t)
<1> USE DEF Inv
<1>1. pc[g] \in LockHeldAt =>
        /\ \A h \in Guards \ {g} : pc[h] \notin LockHeldAt /\ flight[h] = NoTime
        /\ \A t \in orphans : Overdue(t)
  BY DEF Exclusion, Flights, LockHeldAt, Labels
<1>2. Submits(g) => \A t \in Unseen(g) : Overdue(t)
  BY <1>1 DEF Submits, Unseen, LockHeldAt, Labels
<1>3. ASSUME pc[g] \in {"mark", "submit"}, desktop # "guard", desktop' = "guard"
      PROVE  Submits(g) \/ \E t \in orphans \ orphans' : Overdue(t)
  <2>0. pc[g] \in LockHeldAt
    BY <1>3 DEF LockHeldAt, Labels
  <2>1. ASSUME NEW h \in Guards, Step(h) PROVE Submits(g)
    <3>1. Submit(h)
      BY <1>3, <2>1 DEF Step, world, OpenLock, Discover, Prepare, Verify, StopConfirmed,
         StopUnconfirmed, Final, Mark, MarkFails, SubmitFails, Receipt, NoReceipt, Refuse, Fail
    <3>2. h = g
      BY <1>1, <2>0, <3>1 DEF Submit, LockHeldAt, Labels
    <3> QED
      BY <3>1, <3>2 DEF Submit, Goto, Submits, TypeOK
  <2>2. ASSUME NEW h \in Guards, Begin(h) \/ Cancel(h) \/ Crash(h) \/ Appear(h) PROVE FALSE
    BY <1>1, <1>3, <2>0, <2>2 DEF Begin, Cancel, Crash, Appear, world, LockHeldAt, Labels
  <2>3. CASE Surface
    BY <1>1, <2>0, <2>3 DEF Surface
  <2>4. CASE Tick \/ Skew \/ UserActs \/ Update \/ UNCHANGED vars
    BY <1>3, <2>4 DEF Tick, Skew, UserActs, Update, vars, world
  <2> QED
    BY <2>1, <2>2, <2>3, <2>4 DEF Next
<1> QED
  BY <1>2, <1>3

\* Unless the clock is set back or the lock file cleaned away, submissions are at
\* least a cooldown apart as long as the earlier one has shown nothing, and no
\* younger one brings Desktop up behind a Guard's last checks: for any number of
\* Guards, however long their workers take.
THEOREM StartsOnce == Spec => NoDoubleStart
<1>1. Inv /\ [Next]_vars =>
        [~spoiled => \A g \in Guards :
           /\ Submits(g) => \A t \in Unseen(g) : Overdue(t)
           /\ pc[g] \in {"mark", "submit"} /\ desktop # "guard" /\ desktop' = "guard" =>
                Submits(g) \/ \E t \in orphans \ orphans' : Overdue(t)]_vars
  BY SubmissionsApart
<1> QED
  BY <1>1, Invariance, PTL DEF Spec, NoDoubleStart

\* A cancelled run has no further effect.
LEMMA CancelStep ==
  ASSUME TypeOK, Progress, [Next]_vars, NEW g \in Guards, cancelled[g], pc'[g] \notin {"idle", "lock"}
  PROVE  deeds'[g] = deeds[g]
<1>1. ASSUME NEW h \in Guards, Step(h) PROVE deeds'[g] = deeds[g]
  <2>1. CASE h # g
    BY <1>1, <2>1 DEF TypeOK, Step, OpenLock, Discover, Prepare, Verify, StopConfirmed,
       StopUnconfirmed, Final, Mark, MarkFails, Submit, SubmitFails, Receipt, NoReceipt, Refuse,
       Fail, Record, run
  <2>2. CASE h = g /\ StopUnconfirmed(g)
    <3>1. deeds' = [deeds EXCEPT ![g] = [deeds[g] EXCEPT !.stopped = FALSE]]
      BY <2>2 DEF StopUnconfirmed, Record
    <3>2. deeds[g].stopped = FALSE /\ deeds[g] \in Deeds
      BY <2>2, Zenon DEF StopUnconfirmed, Progress, TypeOK, Deeds
    <3> QED
      BY <3>1, <3>2 DEF TypeOK, Deeds
  <2>3. CASE h = g /\ ~StopUnconfirmed(g)
    BY <1>1, <2>3 DEF TypeOK, Step, OpenLock, Discover, Prepare, Verify, StopConfirmed,
       Final, Mark, MarkFails, Submit, SubmitFails, Receipt, NoReceipt, Refuse, Fail, run
  <2> QED
    BY <2>1, <2>2, <2>3
<1>2. ASSUME NEW h \in Guards, Begin(h) \/ Crash(h) PROVE deeds'[g] = deeds[g]
  BY <1>2 DEF Begin, Crash, Record, Goto, TypeOK
<1>3. ASSUME NEW h \in Guards, Cancel(h) \/ Appear(h) PROVE deeds'[g] = deeds[g]
  BY <1>3 DEF Cancel, Appear, run
<1>4. CASE Surface \/ Tick \/ Skew \/ UserActs \/ Update \/ UNCHANGED vars
  BY <1>4 DEF Surface, Tick, Skew, UserActs, Update, vars, run
<1> QED
  BY <1>1, <1>2, <1>3, <1>4 DEF Next

\* Cancellation stops a run at the effect under way, whatever it was doing.
THEOREM CancelHolds == Spec => CancelStopsEffects
<1>1. Inv /\ [Next]_vars =>
        [\A g \in Guards : cancelled[g] /\ pc'[g] \notin {"idle", "lock"} =>
           deeds'[g] = deeds[g]]_vars
  BY CancelStep DEF Inv
<1> QED
  BY <1>1, Invariance, PTL DEF Spec, CancelStopsEffects
==============================================================================
