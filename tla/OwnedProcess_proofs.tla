------------------------- MODULE OwnedProcess_proofs -------------------------
(***************************************************************************)
(* OwnedProcess for any streams, pipe sizes, limits and requests: what a   *)
(* call leaves behind, and what its verdict says.                          *)
(***************************************************************************)
EXTENDS OwnedProcess, TLAPS

LEMMA Bounds ==
  /\ Room \in Nat \ {0} /\ Limit \in Nat \ {0} /\ Request \in Nat \ {0}
  /\ MaxOutput \in Nat /\ MaxFaults \in Nat
  /\ 0 \in 0..Room /\ 0 \in 0..MaxOutput /\ 0 \in 0..MaxFaults /\ 0 \in 0..Request
<1>1. /\ Room \in Nat \ {0} /\ Limit \in Nat \ {0} /\ Request \in Nat \ {0}
      /\ MaxOutput \in Nat /\ MaxFaults \in Nat
  BY ConstantsAssumption
<1> QED
  BY <1>1

\* What the numbers of a state are.
LEMMA Numbers ==
  ASSUME TypeOK
  PROVE  /\ input \in Nat /\ taken \in Nat /\ faults \in Nat
         /\ writer.sent \in Nat /\ taken <= writer.sent
         /\ \A s \in Streams : /\ reader[s] \in Readers /\ reader[s].got \in Nat
                               /\ pipe[s] \in Nat /\ made[s] \in Nat /\ made[s] <= MaxOutput
  BY Bounds DEF TypeOK, CallerOK, ProcessOK, ThreadsOK, Readers, Writers

\* The initial states satisfy the invariant.
LEMMA InitInv == Init => Inv
<1> SUFFICES ASSUME Init PROVE Inv
  OBVIOUS
<1>1. CallerOK
  BY Bounds DEF Init, CallerOK, Labels, Failures, Verdicts
<1>2. ProcessOK /\ ThreadsOK
  <2>1. writer \in Writers /\ writer.sent = 0
    BY Bounds DEF Init, Writers
  <2>2. reader \in [Streams -> Readers] /\ pipe \in [Streams -> 0..Room]
    BY Bounds DEF Init, Readers
  <2>3. made \in [Streams -> 0..MaxOutput] /\ open \in [Streams -> BOOLEAN] /\ taken \in 0..writer.sent
    BY <2>1, Bounds DEF Init
  <2> QED
    BY <2>1, <2>2, <2>3 DEF Init, ProcessOK, ThreadsOK
<1>3. Streaming
  BY Bounds DEF Init, Streaming
<1>4. Progress
  BY DEF Init, Progress, Before, Loop
<1>5. NothingLeftBehind /\ ActivationNeverDenied /\ SuccessIsNatural
  BY DEF Init, NothingLeftBehind, ActivationNeverDenied, SuccessIsNatural
<1> QED
  BY <1>1, <1>2, <1>3, <1>4, <1>5 DEF Inv, TypeOK

------------------------------------------------------------------------------
(* The calling thread.                                                     *)

LEMMA CreateInv == ASSUME Inv, Create PROVE Inv'
<1> USE DEF Inv
<1>1. ASSUME NEW v \in {"cancelled", "timeout", "refused"}, main = "start", Refuse(v),
             UNCHANGED <<call, cancelled, clocks, faults>>
      PROVE  Inv'
  <2>1. TypeOK'
    BY <1>1 DEF TypeOK, CallerOK, ProcessOK, ThreadsOK, Refuse, Return, Labels, Verdicts, Failures,
                call, clocks, process
  <2>2. Streaming'
    BY <1>1 DEF Streaming, Refuse, Return, call, process
  <2>3. Progress'
    BY <1>1 DEF Progress, Before, Loop, Refuse, Return, call, process
  <2>4. NothingLeftBehind' /\ ActivationNeverDenied' /\ SuccessIsNatural'
    BY <1>1 DEF Streaming, Progress, Before, Loop, NothingLeftBehind, ActivationNeverDenied, SuccessIsNatural,
                Refuse, Return, process
  <2> QED
    BY <2>1, <2>2, <2>3, <2>4
<1>2. ASSUME main = "start", main' = "boundary", child' = "running",
             open' = [s \in Streams |-> TRUE],
             reader' = [s \in Streams |-> [reader[s] EXCEPT !.at = "top"]],
             UNCHANGED <<locals, stopping, writer, descendant, killed, taken, made, acted, pipe>>,
             UNCHANGED <<call, cancelled, clocks, faults>>
      PROVE  Inv'
  <2>1. CallerOK' /\ ProcessOK'
    BY <1>2 DEF TypeOK, CallerOK, ProcessOK, Labels, call, locals, clocks
  <2>2. ThreadsOK' /\ Streaming'
    BY <1>2 DEF TypeOK, ThreadsOK, Readers, Streaming, call
  <2>3. Progress'
    BY <1>2 DEF Progress, Before, Loop, locals, call
  <2>4. NothingLeftBehind' /\ ActivationNeverDenied' /\ SuccessIsNatural'
    BY <1>2 DEF Progress, NothingLeftBehind, ActivationNeverDenied, SuccessIsNatural, locals
  <2> QED
    BY <2>1, <2>2, <2>3, <2>4 DEF TypeOK
<1> QED
  BY <1>1, <1>2 DEF Create

LEMMA BoundaryInv == ASSUME Inv, Boundary PROVE Inv'
<1> USE DEF Inv
<1>1. /\ main = "boundary" /\ UNCHANGED <<call, locals, cancelled, clocks, reader, pipe, faults>>
      /\ UNCHANGED <<descendant, taken, made, open, acted>>
      /\ child' \in {child, "ending"} /\ (child' = "none" <=> child = "none")
  BY DEF Boundary, Terminate, process, Progress, Before
<1>2. \/ /\ main' = "reap" /\ stopping' = TRUE /\ writer' = writer /\ child' # "running"
         /\ killed' \in BOOLEAN
      \/ /\ main' = "poll" /\ stopping' = stopping /\ UNCHANGED <<child, killed>>
         /\ writer' = [writer EXCEPT !.at = IF input = 0 THEN "none" ELSE "top"]
  BY DEF Boundary, Terminate, process, TypeOK, ProcessOK
<1>3. writer' \in Writers /\ writer'.sent = writer.sent /\ writer'.submitted = writer.submitted
      /\ (main' = "poll" => writer'.at = IF input = 0 THEN "none" ELSE "top")
      /\ (main' = "reap" => writer'.at = "held") /\ writer.at = "held" /\ ~writer.submitted
  BY <1>1, <1>2 DEF TypeOK, ThreadsOK, Writers, Progress, Before, Streaming
<1>4. TypeOK'
  <2>1. CallerOK'
    BY <1>1, <1>2 DEF TypeOK, CallerOK, Labels, call, locals, clocks
  <2>2. ProcessOK'
    BY <1>1, <1>2, <1>3 DEF TypeOK, ProcessOK
  <2>3. ThreadsOK'
    BY <1>1, <1>3 DEF TypeOK, ThreadsOK
  <2> QED
    BY <2>1, <2>2, <2>3 DEF TypeOK
<1>5. Streaming'
  BY <1>1, <1>2, <1>3 DEF Streaming, call
<1>6. Progress'
  BY <1>1, <1>2, <1>3 DEF Progress, Before, Loop, call, locals
<1>7. NothingLeftBehind' /\ ActivationNeverDenied' /\ SuccessIsNatural'
  BY <1>1, <1>2 DEF Progress, NothingLeftBehind, ActivationNeverDenied, SuccessIsNatural, locals
<1> QED
  BY <1>4, <1>5, <1>6, <1>7

LEMMA ReapInv == ASSUME Inv, Reap PROVE Inv'
<1> USE DEF Inv
<1>1. /\ main = "reap" /\ main' = "returned" /\ verdict' = "cancelled"
      /\ \A s \in Streams : reader[s].at = "done"
      /\ UNCHANGED <<call, exitSeen, failure, abort, terminated, unclean, stopping, cancelled,
                 clocks, reader, process, pipe, faults>>
  BY DEF Reap, Return
<1>2. /\ writer' \in Writers /\ writer'.at = "none" /\ writer'.sent = writer.sent
      /\ writer'.submitted = writer.submitted /\ writer.at = "held"
  BY DEF Reap, TypeOK, ThreadsOK, Writers, Progress, Before
<1>3. TypeOK'
  BY <1>1, <1>2 DEF TypeOK, CallerOK, ProcessOK, ThreadsOK, Labels, Verdicts, Failures, call, clocks, process
<1>4. Streaming'
  BY <1>1, <1>2 DEF Streaming, call, process
<1>5. Progress'
  BY <1>1, <1>2 DEF Progress, Before, Loop, call, process
<1>6. NothingLeftBehind' /\ ActivationNeverDenied' /\ SuccessIsNatural'
  BY <1>1, <1>2 DEF Streaming, Progress, NothingLeftBehind, ActivationNeverDenied, SuccessIsNatural, process
<1> QED
  BY <1>3, <1>4, <1>5, <1>6

\* A look of the wait loop stays in it or leaves it for settle.
LEMMA LookInv ==
  ASSUME Inv, main \in Loop, Look, exitSeen' \in BOOLEAN, faults' \in 0..MaxFaults,
         \/ main' \in Loop /\ UNCHANGED <<failure, abort, stopping>>
         \/ \E f \in Failures : Leave(f)
  PROVE  Inv'
<1> USE DEF Inv
<1>1. /\ main' \in Loop \cup {"settle"} /\ failure' \in Failures
      /\ abort' \in BOOLEAN /\ stopping' \in BOOLEAN
      /\ main' \in Loop => failure' = "none" /\ ~abort'
      /\ abort' => failure' # "none"
  <2>1. CASE main' \in Loop /\ UNCHANGED <<failure, abort, stopping>>
    BY <2>1 DEF TypeOK, CallerOK, Progress
  <2>2. ASSUME NEW f \in Failures, Leave(f)
        PROVE  /\ main' = "settle" /\ failure' = f /\ abort' \in BOOLEAN /\ stopping' \in BOOLEAN
               /\ abort' => f # "none"
    BY <2>2 DEF Leave
  <2> QED
    BY <2>1, <2>2 DEF Loop
<1>2. UNCHANGED <<activation, input, terminated, unclean, verdict, cancelled, late, drained, reader,
                  writer, child, descendant, killed, taken, made, open, acted, pipe>>
  BY DEF Look, call, clocks, process
<1>3. TypeOK'
  BY <1>1, <1>2 DEF TypeOK, CallerOK, ProcessOK, ThreadsOK, Labels, Loop
<1>4. Streaming'
  BY <1>2 DEF Streaming
<1>5. Progress'
  BY <1>1, <1>2 DEF Progress, Before, Loop
<1>6. NothingLeftBehind' /\ ActivationNeverDenied' /\ SuccessIsNatural'
  BY <1>1, <1>2 DEF Loop, Progress, NothingLeftBehind, ActivationNeverDenied, SuccessIsNatural
<1> QED
  BY <1>3, <1>4, <1>5, <1>6

LEMMA LoopInv ==
  ASSUME Inv, Poll \/ PollFails \/ CheckOutput \/ CheckErrors \/ CheckFinished \/ CheckClock
  PROVE  Inv'
<1>0. exitSeen \in BOOLEAN /\ faults \in 0..MaxFaults
      /\ (faults < MaxFaults => faults + 1 \in 0..MaxFaults)
  BY Bounds DEF Inv, TypeOK, CallerOK
<1>1. main \in Loop /\ Look /\ exitSeen' \in BOOLEAN /\ faults' \in 0..MaxFaults
  BY <1>0 DEF Poll, PollFails, CheckOutput, CheckErrors, CheckFinished, CheckClock, Loop
<1>2. \/ main' \in Loop /\ UNCHANGED <<failure, abort, stopping>>
      \/ \E f \in Failures : Leave(f)
  BY DEF Poll, PollFails, CheckOutput, CheckErrors, CheckFinished, CheckClock, Loop, On, Failures
<1> QED
  BY <1>1, <1>2, LookInv

LEMMA SettleInv == ASSUME Inv, Settle PROVE Inv'
<1> USE DEF Inv
<1>1. /\ main = "settle"
      /\ (Complete /\ main' = "verdict") \/ (abort /\ ~terminated /\ main' = "kill")
      /\ UNCHANGED <<call, locals, stopping, cancelled, clocks, reader, writer, process, pipe, faults>>
  BY DEF Settle
<1>2. TypeOK' /\ Streaming'
  BY <1>1 DEF TypeOK, CallerOK, ProcessOK, ThreadsOK, Labels, Streaming, call, locals, clocks, process
<1>3. Progress'
  BY <1>1 DEF Progress, Before, Loop, Complete, Collected, call, locals, process
<1>4. NothingLeftBehind' /\ ActivationNeverDenied' /\ SuccessIsNatural'
  BY <1>1 DEF Progress, NothingLeftBehind, ActivationNeverDenied, SuccessIsNatural, locals
<1> QED
  BY <1>2, <1>3, <1>4

LEMMA KillInv == ASSUME Inv, Kill PROVE Inv'
<1> USE DEF Inv
<1>1. /\ main = "kill" /\ main' = "settle" /\ terminated'
      /\ UNCHANGED <<call, exitSeen, failure, abort, unclean, verdict, stopping, cancelled, clocks,
                     reader, writer, pipe, faults, descendant, taken, made, open, acted>>
      /\ child' = (IF child = "running" THEN "ending" ELSE child)
      /\ terminated' \in BOOLEAN
  BY DEF Kill, Terminate
<1>k. killed' \in BOOLEAN
  BY DEF Kill, Terminate, TypeOK, ProcessOK
<1>2. TypeOK'
  BY <1>1, <1>k DEF TypeOK, CallerOK, ProcessOK, ThreadsOK, Labels, call, clocks
<1>3. Streaming'
  BY <1>1 DEF Streaming, call
<1>4. Progress'
  BY <1>1 DEF Progress, Before, Loop, call
<1>5. NothingLeftBehind' /\ ActivationNeverDenied' /\ SuccessIsNatural'
  BY <1>1 DEF Progress, NothingLeftBehind, ActivationNeverDenied, SuccessIsNatural
<1> QED
  BY <1>2, <1>3, <1>4, <1>5

LEMMA UnsettledInv == ASSUME Inv, Unsettled PROVE Inv'
<1> USE DEF Inv
<1>1. /\ main = "settle" /\ unclean' = TRUE
      /\ main' \in {"settle", "kill"} /\ (abort => abort') /\ (main' = "kill" => abort')
      /\ stopping' \in BOOLEAN /\ abort' \in BOOLEAN /\ faults' \in 0..MaxFaults
      /\ UNCHANGED <<call, exitSeen, failure, terminated, verdict, cancelled, clocks, reader, writer,
                 process, pipe>>
  <2>1. faults \in 0..MaxFaults /\ stopping \in BOOLEAN /\ abort \in BOOLEAN
        /\ (faults < MaxFaults => faults + 1 \in 0..MaxFaults)
    BY Bounds DEF TypeOK, CallerOK
  <2> QED
    BY <2>1 DEF Unsettled
<1>2. TypeOK' /\ Streaming'
  BY <1>1 DEF TypeOK, CallerOK, ProcessOK, ThreadsOK, Labels, Streaming, call, clocks, process
<1>3. Progress'
  BY <1>1 DEF Progress, Before, Loop, call, process
<1>4. NothingLeftBehind' /\ ActivationNeverDenied' /\ SuccessIsNatural'
  BY <1>1 DEF Progress, NothingLeftBehind, ActivationNeverDenied, SuccessIsNatural
<1> QED
  BY <1>2, <1>3, <1>4

\* The verdict: ok only after a natural completion, and never a denial of a
\* submitted activation.
LEMMA JudgeInv == ASSUME Inv, Judge PROVE Inv'
<1> USE DEF Inv
<1> DEFINE plain == IF unclean THEN "cleanup" ELSE IF Refined = "none" THEN "ok" ELSE Refined
<1>1. /\ main = "verdict" /\ main' = "returned" /\ Complete
      /\ verdict' = IF plain # "ok" /\ activation /\ writer.submitted THEN "unknown" ELSE plain
      /\ UNCHANGED <<call, exitSeen, failure, abort, terminated, unclean, stopping, cancelled, clocks,
                     reader, writer, process, pipe, faults>>
  BY DEF Judge, Return, Progress
<1>2. Refined \in Failures
  BY DEF Refined, Failures, TypeOK, CallerOK
<1>3. verdict' \in Verdicts
  BY <1>1, <1>2 DEF Verdicts, Failures
<1>4. verdict' = "ok" => plain = "ok"
  BY <1>1
<1>5. plain = "ok" => ~unclean /\ Refined = "none"
  BY <1>2 DEF Failures
<1>6. Refined = "none" => (input = 0 \/ writer.submitted) /\ (failure = "none" \/ ~terminated)
  BY Numbers DEF Refined, TypeOK, CallerOK
<1>7. plain = "ok" => ~killed /\ writer.sent = input
  BY <1>1, <1>5, <1>6, Numbers DEF Progress, Streaming
<1> HIDE DEF plain
<1>8. TypeOK' /\ Streaming'
  BY <1>1, <1>3 DEF TypeOK, CallerOK, ProcessOK, ThreadsOK, Labels, Streaming, call, clocks, process
<1>9. Progress'
  BY <1>1 DEF Progress, Before, Loop, Complete, call, process
<1>10. NothingLeftBehind'
  BY <1>1 DEF NothingLeftBehind, Complete, Collected, process
<1>11. ActivationNeverDenied'
  BY <1>1 DEF ActivationNeverDenied, Streaming, call, process
<1>12. SuccessIsNatural'
  BY <1>1, <1>4, <1>7 DEF SuccessIsNatural, Complete, call, process
<1> QED
  BY <1>8, <1>9, <1>10, <1>11, <1>12

------------------------------------------------------------------------------
(* The threads.                                                            *)

\* A reader's step is in order when what it becomes is.
LEMMA UpdateInv ==
  ASSUME Inv, NEW s \in Streams, NEW r \in Readers, Update(s, r), Reading,
         reader[s].at \in {"top", "read", "finish"}, r.at # "none",
         pipe' \in [Streams -> 0..Room], \A t \in Streams \ {s} : pipe'[t] = pipe[t],
         r.got + pipe'[s] <= made[s], faults' \in 0..MaxFaults
  PROVE  Inv'
<1> USE DEF Inv
<1>1. /\ reader' \in [Streams -> Readers] /\ reader'[s] = r
      /\ \A t \in Streams \ {s} : reader'[t] = reader[t]
  BY DEF Update, TypeOK, ThreadsOK
<1>2. UNCHANGED <<activation, input, main, exitSeen, failure, abort, terminated, unclean, verdict,
                  stopping, cancelled, late, drained, writer, child, descendant, killed, taken, made,
                  open, acted>>
  BY DEF Reading, call, locals, clocks, process
<1>3. main \notin {"verdict", "returned"} /\ child # "none"
  BY DEF Progress, Complete, Collected, NothingLeftBehind, Streaming
<1>4. TypeOK'
  BY <1>1, <1>2 DEF TypeOK, CallerOK, ProcessOK, ThreadsOK
<1>5. Streaming'
  BY <1>1, <1>2, <1>3 DEF Streaming
<1>6. Progress'
  BY <1>2, <1>3 DEF Progress, Before, Loop
<1>7. NothingLeftBehind' /\ ActivationNeverDenied' /\ SuccessIsNatural'
  BY <1>2, <1>3 DEF Progress, NothingLeftBehind, ActivationNeverDenied, SuccessIsNatural
<1> QED
  BY <1>4, <1>5, <1>6, <1>7

LEMMA ReaderInv == ASSUME Inv, NEW s \in Streams, Reader(s) \/ ReadFails(s) PROVE Inv'
<1>0. /\ reader[s] \in Readers /\ reader[s].got \in Nat /\ pipe[s] \in Nat /\ made[s] \in Nat
      /\ made[s] <= MaxOutput /\ reader[s].got + pipe[s] <= made[s]
      /\ pipe \in [Streams -> 0..Room] /\ faults \in 0..MaxFaults
  BY Numbers DEF Inv, TypeOK, CallerOK, ThreadsOK, Streaming
<1>1. CASE ReadTop(s)
  <2>1. PICK r : r = [reader[s] EXCEPT !.at = IF stopping THEN "finish" ELSE "read"]
    OBVIOUS
  <2>2. r \in Readers /\ r.at # "none" /\ r.got = reader[s].got
    BY <1>0, <2>1 DEF Readers
  <2> QED
    BY <1>0, <1>1, <2>1, <2>2, UpdateInv DEF ReadTop
<1>2. CASE ReadChunk(s)
  <2>1. PICK r : r = IF reader[s].got = Limit
                 THEN [reader[s] EXCEPT !.over = TRUE, !.at = "finish"]
                 ELSE [reader[s] EXCEPT !.got = @ + 1, !.at = "top"]
    OBVIOUS
  <2>2. r \in Readers /\ r.at # "none" /\ r.got \in {reader[s].got, reader[s].got + 1}
    <3>1. CASE reader[s].got = Limit
      BY <1>0, <2>1, <3>1 DEF Readers
    <3>2. CASE reader[s].got # Limit
      <4>1. reader[s].got + 1 \in 0..MaxOutput
        BY <1>0, <1>2, Bounds DEF ReadChunk
      <4> QED
        BY <1>0, <2>1, <3>2, <4>1 DEF Readers
    <3> QED
      BY <3>1, <3>2
  <2>3. /\ pipe' \in [Streams -> 0..Room] /\ pipe'[s] = pipe[s] - 1
        /\ \A t \in Streams \ {s} : pipe'[t] = pipe[t]
    BY <1>0, <1>2, Bounds DEF ReadChunk
  <2>4. r.got + pipe'[s] <= made[s]
    BY <1>0, <2>2, <2>3
  <2> QED
    BY <1>0, <1>2, <2>1, <2>2, <2>3, <2>4, UpdateInv DEF ReadChunk
<1>3. CASE ReadEof(s)
  <2>1. PICK r : r = [reader[s] EXCEPT !.eof = TRUE, !.at = "finish"]
    OBVIOUS
  <2>2. r \in Readers /\ r.at # "none" /\ r.got = reader[s].got
    BY <1>0, <2>1 DEF Readers
  <2> QED
    BY <1>0, <1>3, <2>1, <2>2, UpdateInv DEF ReadEof
<1>4. CASE ReadFails(s)
  <2>1. PICK r : r = [reader[s] EXCEPT !.error = TRUE, !.at = "finish"]
    OBVIOUS
  <2>2. r \in Readers /\ r.at # "none" /\ r.got = reader[s].got
    BY <1>0, <2>1 DEF Readers
  <2>3. faults' \in 0..MaxFaults
    BY <1>0, <1>4, Bounds DEF ReadFails
  <2> QED
    BY <1>0, <1>4, <2>1, <2>2, <2>3, UpdateInv DEF ReadFails
<1>5. CASE ReadDone(s)
  <2>1. PICK r : r = [reader[s] EXCEPT !.at = "done"]
    OBVIOUS
  <2>2. r \in Readers /\ r.at # "none" /\ r.got = reader[s].got
    BY <1>0, <2>1 DEF Readers
  <2> QED
    BY <1>0, <1>5, <2>1, <2>2, UpdateInv DEF ReadDone
<1> QED
  BY <1>1, <1>2, <1>3, <1>4, <1>5 DEF Reader

\* The writer knows at its end whether the whole request got through.
LEMMA WriterInv == ASSUME Inv, Writer PROVE Inv'
<1> USE DEF Inv
<1>0. /\ writer \in Writers /\ writer.at \in {"top", "write", "finish"} /\ ~writer.submitted
      /\ writer.sent \in Nat /\ writer.sent <= input /\ input \in Nat /\ input <= Request
      /\ taken \in 0..writer.sent
      /\ writer.at = "write" => writer.sent # input
  BY Numbers, Bounds DEF Writer, WriteTop, WriteChunk, WriteBroken, WriteDone, TypeOK, ThreadsOK, ProcessOK,
                         CallerOK, Streaming
<1> DEFINE Good(w) == /\ w \in Writers /\ writer.sent <= w.sent /\ w.sent <= input
                      /\ w.at \in {"top", "write", "finish", "done"}
                      /\ w.at = "write" => w.sent # input
                      /\ w.submitted => w.at = "done"
                      /\ w.at = "done" => (w.submitted <=> w.sent = input)
<1>1. Good(writer')
  <2>1. CASE WriteTop
    <3>1. PICK a \in {"write", "finish"} :
            writer' = [writer EXCEPT !.at = a] /\ (a = "write" => writer.sent # input)
      BY <2>1 DEF WriteTop
    <3>2. writer' \in Writers /\ writer'.at = a /\ writer'.sent = writer.sent /\ ~writer'.submitted
      BY <1>0, <3>1 DEF Writers
    <3> QED
      BY <1>0, <3>1, <3>2
  <2>2. CASE WriteChunk
    <3>1. writer' = [writer EXCEPT !.sent = @ + 1, !.at = "top"] /\ writer.sent # input
      BY <1>0, <2>2 DEF WriteChunk
    <3>2. writer.sent + 1 \in 0..Request /\ writer.sent + 1 <= input
      BY <1>0, <3>1, Bounds
    <3>3. writer' \in Writers /\ writer'.at = "top" /\ writer'.sent = writer.sent + 1 /\ ~writer'.submitted
      BY <1>0, <3>1, <3>2 DEF Writers
    <3> QED
      BY <1>0, <3>2, <3>3
  <2>3. CASE WriteBroken
    <3>1. PICK b \in BOOLEAN : b = ~stopping
      OBVIOUS
    <3>2. writer' = [writer EXCEPT !.error = b, !.at = "finish"]
      BY <2>3, <3>1 DEF WriteBroken
    <3>3. writer' \in Writers /\ writer'.at = "finish" /\ writer'.sent = writer.sent /\ ~writer'.submitted
      BY <1>0, <3>2 DEF Writers
    <3> QED
      BY <1>0, <3>3
  <2>4. CASE WriteDone
    <3>1. PICK b \in BOOLEAN : b = (writer.sent = input)
      OBVIOUS
    <3>2. writer' = [writer EXCEPT !.submitted = b, !.at = "done"]
      BY <2>4, <3>1 DEF WriteDone
    <3>3. writer' \in Writers /\ writer'.submitted = b /\ writer'.at = "done" /\ writer'.sent = writer.sent
      BY <1>0, <3>2 DEF Writers
    <3>4. CASE writer.sent = input
      <4>1. b = TRUE
        BY <3>1, <3>4
      <4> QED
        BY <1>0, <3>3, <3>4, <4>1
    <3>5. CASE writer.sent # input
      <4>1. b = FALSE
        BY <3>1, <3>5
      <4> QED
        BY <1>0, <3>3, <3>5, <4>1
    <3> QED
      BY <3>4, <3>5
  <2> QED
    BY <2>1, <2>2, <2>3, <2>4 DEF Writer
<1>2. UNCHANGED <<activation, input, main, exitSeen, failure, abort, terminated, unclean, verdict,
                  stopping, cancelled, late, drained, reader, child, descendant, killed, taken, made,
                  open, acted, pipe, faults>>
  BY DEF Writer, WriteTop, WriteChunk, WriteBroken, WriteDone, Writing, call, locals, clocks, process
<1>3. main \notin {"verdict", "returned"} /\ ~acted
  BY <1>0 DEF Progress, Complete, Collected, NothingLeftBehind, Streaming
<1>4. TypeOK'
  <2>1. taken' \in 0..writer'.sent
    BY <1>0, <1>1, <1>2 DEF Writers
  <2> QED
    BY <1>1, <1>2, <2>1 DEF TypeOK, CallerOK, ProcessOK, ThreadsOK
<1>5. Streaming'
  <2>1. \A s \in Streams : /\ reader'[s].got + pipe'[s] <= made'[s]
                           /\ reader'[s].at = "none" <=> child' = "none"
    BY <1>2 DEF Streaming
  <2> QED
    BY <1>1, <1>2, <1>3, <2>1 DEF Streaming
<1>6. Progress'
  BY <1>0, <1>1, <1>2, <1>3 DEF Progress, Before, Loop
<1>7. NothingLeftBehind' /\ ActivationNeverDenied' /\ SuccessIsNatural'
  BY <1>2, <1>3 DEF Progress, NothingLeftBehind, ActivationNeverDenied, SuccessIsNatural
<1> QED
  BY <1>4, <1>5, <1>6, <1>7

------------------------------------------------------------------------------
(* The child, its descendant, the caller and the clock.                    *)

\* The child runs on until it exits; whatever it does, it takes nothing that was
\* not sent and acts on a whole request only.
LEMMA ChildInv ==
  ASSUME Inv, Child, child' \in {"running", "ending"}, descendant' \in BOOLEAN, acted' \in BOOLEAN,
         taken' \in 0..writer.sent, made' \in [Streams -> 0..MaxOutput],
         open' \in [Streams -> BOOLEAN], pipe' \in [Streams -> 0..Room],
         \A s \in Streams : reader[s].got + pipe'[s] <= made'[s],
         acted' => acted \/ (activation /\ writer.at = "done" /\ taken = input)
  PROVE  Inv'
<1> USE DEF Inv
<1>1. UNCHANGED <<activation, input, main, exitSeen, failure, abort, terminated, unclean, verdict,
                  stopping, cancelled, late, drained, reader, writer, killed, faults>>
  BY DEF Child, Outside, call, locals, clocks
<1>2. child = "running" /\ main \notin {"verdict", "returned", "reap"}
  BY DEF Child, Progress, Complete, NothingLeftBehind
<1>3. TypeOK'
  BY <1>1 DEF TypeOK, CallerOK, ProcessOK, ThreadsOK
<1>4. Streaming'
  <2>1. acted' => activation /\ writer.at = "done" /\ writer.sent = input
    <3>1. writer.sent \in Nat /\ taken \in Nat /\ taken <= writer.sent /\ writer.sent <= input /\ input \in Nat
      BY Numbers DEF Streaming
    <3>2. taken = input => writer.sent = input
      BY <3>1
    <3>3. acted => activation /\ writer.at = "done" /\ writer.sent = input
      BY DEF Streaming
    <3> QED
      BY <3>2, <3>3
  <2>2. \A s \in Streams : /\ reader'[s].got + pipe'[s] <= made'[s]
                           /\ reader'[s].at = "none" <=> child' = "none"
    BY <1>1, <1>2 DEF Streaming
  <2> QED
    BY <1>1, <2>1, <2>2 DEF Streaming
<1>5. Progress'
  BY <1>1, <1>2 DEF Progress, Before, Loop
<1>6. NothingLeftBehind' /\ ActivationNeverDenied' /\ SuccessIsNatural'
  BY <1>1, <1>2 DEF Progress, NothingLeftBehind, ActivationNeverDenied, SuccessIsNatural
<1> QED
  BY <1>3, <1>4, <1>5, <1>6

\* A running child's own steps.
LEMMA RunningInv ==
  ASSUME Inv, Take \/ Act \/ Exit \/ Spawn \/ \E s \in Streams : Write(s) \/ CloseOutput(s)
  PROVE  Inv'
<1>0. /\ descendant \in BOOLEAN /\ acted \in BOOLEAN /\ taken \in 0..writer.sent /\ taken \in Nat
      /\ writer.sent \in Nat
      /\ made \in [Streams -> 0..MaxOutput] /\ open \in [Streams -> BOOLEAN] /\ pipe \in [Streams -> 0..Room]
      /\ \A s \in Streams : reader[s].got + pipe[s] <= made[s]
  BY Numbers DEF Inv, TypeOK, ProcessOK, ThreadsOK, Streaming
<1>1. Child
  BY DEF Take, Act, Exit, Spawn, Write, CloseOutput
<1>2. child' \in {"running", "ending"}
  BY DEF Take, Act, Exit, Spawn, Write, CloseOutput, Child
<1>3. CASE Take \/ Act \/ Exit \/ Spawn
  <2>1. taken' \in 0..writer.sent
    BY <1>0, <1>3 DEF Take, Act, Exit, Spawn
  <2>2. descendant' \in BOOLEAN /\ acted' \in BOOLEAN /\ UNCHANGED <<made, open, pipe>>
    BY <1>0, <1>3 DEF Take, Act, Exit, Spawn
  <2>3. acted' => acted \/ (activation /\ writer.at = "done" /\ taken = input)
    BY <1>3 DEF Take, Act, Exit, Spawn
  <2> QED
    BY <1>0, <1>1, <1>2, <2>1, <2>2, <2>3, ChildInv
<1>4. ASSUME NEW s \in Streams, Write(s) PROVE Inv'
  <2>1. /\ made'[s] = made[s] + 1 /\ pipe'[s] = pipe[s] + 1
        /\ made' \in [Streams -> 0..MaxOutput] /\ pipe' \in [Streams -> 0..Room]
    BY <1>0, <1>4, Bounds DEF Write
  <2>2. \A t \in Streams \ {s} : made'[t] = made[t] /\ pipe'[t] = pipe[t]
    BY <1>0, <1>4 DEF Write
  <2>3. \A t \in Streams : reader[t].got + pipe'[t] <= made'[t]
    <3>1. reader[s].got \in Nat /\ pipe[s] \in Nat /\ made[s] \in Nat
      BY Numbers DEF Inv
    <3>2. reader[s].got + pipe'[s] <= made'[s]
      BY <1>0, <2>1, <3>1
    <3> QED
      BY <1>0, <2>2, <3>2
  <2>4. UNCHANGED <<taken, open, descendant, acted>>
    BY <1>4 DEF Write
  <2> QED
    BY <1>0, <1>1, <1>2, <2>1, <2>3, <2>4, ChildInv
<1>5. ASSUME NEW s \in Streams, CloseOutput(s) PROVE Inv'
  <2>1. open' \in [Streams -> BOOLEAN]
    BY <1>0, <1>5 DEF CloseOutput
  <2>2. UNCHANGED <<taken, made, pipe, descendant, acted>>
    BY <1>5 DEF CloseOutput
  <2> QED
    BY <1>0, <1>1, <1>2, <2>1, <2>2, ChildInv
<1> QED
  BY <1>3, <1>4, <1>5

\* The rest of the world: none of it undoes what the calling thread has done.
LEMMA WorldInv ==
  ASSUME Inv, DescendantEnds \/ Ended \/ Cancel \/ Deadline \/ DrainBudget
  PROVE  Inv'
<1> USE DEF Inv
<1>1. UNCHANGED <<activation, input, main, exitSeen, failure, abort, terminated, unclean, verdict,
                  stopping, reader, writer, killed, taken, made, open, acted, pipe, faults>>
  BY DEF DescendantEnds, Ended, Cancel, Deadline, DrainBudget, Outside, call, locals, process
<1>2. /\ cancelled' \in BOOLEAN /\ late' \in BOOLEAN /\ drained' \in BOOLEAN /\ descendant' \in BOOLEAN
      /\ child' = child \/ (child = "ending" /\ child' = "exited")
  BY DEF DescendantEnds, Ended, Cancel, Deadline, DrainBudget, clocks, process, TypeOK, CallerOK, ProcessOK
<1>3. TypeOK'
  BY <1>1, <1>2 DEF TypeOK, CallerOK, ProcessOK, ThreadsOK
<1>4. Streaming'
  BY <1>1, <1>2 DEF Streaming
<1>5. Progress'
  BY <1>1, <1>2 DEF Progress, Before, Loop, Complete, Collected
<1>6. NothingLeftBehind' /\ ActivationNeverDenied' /\ SuccessIsNatural'
  BY <1>1, <1>2 DEF NothingLeftBehind, ActivationNeverDenied, SuccessIsNatural
<1> QED
  BY <1>3, <1>4, <1>5, <1>6

\* Every step keeps the invariant.
LEMMA NextInv == Inv /\ [Next]_vars => Inv'
<1> SUFFICES ASSUME Inv, [Next]_vars PROVE Inv'
  OBVIOUS
<1>1. CASE Main
  BY <1>1, CreateInv, BoundaryInv, ReapInv, LoopInv, SettleInv, KillInv, JudgeInv DEF Main
<1>2. CASE PollFails
  BY <1>2, LoopInv
<1>3. CASE Unsettled
  BY <1>3, UnsettledInv
<1>4. CASE \E s \in Streams : Reader(s) \/ ReadFails(s)
  BY <1>4, ReaderInv
<1>5. CASE Writer
  BY <1>5, WriterInv
<1>6. CASE Environment
  BY <1>6, RunningInv, WorldInv DEF Environment
<1>7. CASE Ended \/ Deadline
  BY <1>7, WorldInv
<1>8. CASE UNCHANGED vars
  BY <1>8 DEF vars, call, locals, clocks, process, Inv, TypeOK, CallerOK, ProcessOK, ThreadsOK, Streaming,
              Progress, Complete, Collected, NothingLeftBehind, ActivationNeverDenied, SuccessIsNatural
<1> QED
  BY <1>1, <1>2, <1>3, <1>4, <1>5, <1>6, <1>7, <1>8 DEF Next

------------------------------------------------------------------------------
(* What holds in every reachable state.                                    *)

\* The inductive invariant of run_owned_process: what the threads have done, and
\* what the calling thread has done at each of its labels.
THEOREM Invariance == Spec => []Inv
<1>1. Init => Inv
  BY InitInv
<1>2. Inv /\ [Next]_vars => Inv'
  BY NextInv
<1> QED
  BY <1>1, <1>2, PTL DEF Spec

\* Every variable of the call stays within its type, crates/cpg-windows/src/process.rs.
THEOREM TypeCorrect == Spec => []TypeOK
<1>1. Inv => TypeOK
  BY DEF Inv
<1> QED
  BY <1>1, Invariance, PTL

\* When run_owned_process returns, its child has ended or been told to end and no
\* thread of it holds a pipe.
THEOREM NothingLeft == Spec => []NothingLeftBehind
<1>1. Inv => NothingLeftBehind
  BY DEF Inv
<1> QED
  BY <1>1, Invariance, PTL

\* Whatever races with it, an activation that took place is reported as a success
\* or as unknown, by the test of submitted after settle.
THEOREM NeverDenied == Spec => []ActivationNeverDenied
<1>1. Inv => ActivationNeverDenied
  BY DEF Inv
<1> QED
  BY <1>1, Invariance, PTL

\* A success of run_owned_process is a child that was not killed and a request that
\* got through whole.
THEOREM NaturalSuccess == Spec => []SuccessIsNatural
<1>1. Inv => SuccessIsNatural
  BY DEF Inv
<1> QED
  BY <1>1, Invariance, PTL
==============================================================================
