----------------------------- MODULE OwnedProcess -----------------------------
(***************************************************************************)
(* One call of run_owned_process, crates/cpg-windows/src/process.rs: the   *)
(* calling thread, one reader thread for each output stream, the writer    *)
(* thread of the request, the child it creates, and whatever the child     *)
(* starts with its own pipe ends.                                          *)
(*                                                                         *)
(* The calling thread looks at flags the other threads set, one after the  *)
(* other, so each look is a step.  Bytes are counted in chunks.            *)
(***************************************************************************)
EXTENDS Integers

CONSTANTS
  Streams,               \* the output streams
  Room,                  \* chunks a pipe holds
  Limit,                 \* chunks a stream may yield: stdout_limit and stderr_limit
  Request,               \* the length of an activation request; a daemon stop has none
  MaxOutput, MaxFaults   \* bounds

ASSUME ConstantsAssumption ==
  /\ {Room, Limit, Request} \subseteq Nat \ {0}
  /\ {MaxOutput, MaxFaults} \subseteq Nat

Failures == {"none", "io", "output", "cancelled", "timeout", "drain"}
Verdicts == {"none", "ok", "refused", "cleanup", "unknown"} \cup (Failures \ {"none"})

\* Reading starts at "top", where the stop flag is looked at; "finish" is the
\* stretch between the last read and the flag that says so.
Readers == [at : {"none", "top", "read", "finish", "done"}, got : 0..MaxOutput,
            over : BOOLEAN, error : BOOLEAN, eof : BOOLEAN]
Writers == [at : {"held", "none", "top", "write", "finish", "done"}, sent : 0..Request,
            error : BOOLEAN, submitted : BOOLEAN]

VARIABLES
  activation, input,       \* activation_submission; the length of stdin_bytes
  main,                    \* where the calling thread is
  exitSeen, failure, abort, terminated, unclean, verdict,   \* its locals and Cleanup
  stopping, cancelled,     \* the shared stop flag; the cancellation latch
  late, drained,           \* the deadline and the drain budget have passed
  reader, writer,
  child, descendant,
  killed,                  \* the child was running when it was terminated
  taken, made, open, acted,   \* what the child read and wrote, its ends, its effect
  pipe,                    \* chunks written to each stream and not read
  faults

call    == <<activation, input>>
locals  == <<exitSeen, failure, abort, terminated, unclean, verdict>>
clocks  == <<late, drained>>
process == <<child, descendant, killed, taken, made, open, acted>>
vars == <<call, main, locals, stopping, cancelled, clocks, reader, writer, process, pipe, faults>>

Init ==
  /\ activation \in BOOLEAN /\ input = IF activation THEN Request ELSE 0
  /\ main = "start" /\ exitSeen = FALSE /\ failure = "none" /\ abort = FALSE
  /\ terminated = FALSE /\ unclean = FALSE /\ verdict = "none"
  /\ stopping = FALSE /\ cancelled = FALSE /\ late = FALSE /\ drained = FALSE
  /\ reader = [s \in Streams |->
       [at |-> "none", got |-> 0, over |-> FALSE, error |-> FALSE, eof |-> FALSE]]
  /\ writer = [at |-> "held", sent |-> 0, error |-> FALSE, submitted |-> FALSE]
  /\ child = "none" /\ descendant = FALSE /\ killed = FALSE
  /\ taken = 0 /\ acted = FALSE
  /\ made = [s \in Streams |-> 0] /\ open = [s \in Streams |-> FALSE]
  /\ pipe = [s \in Streams |-> 0]
  /\ faults = 0

------------------------------------------------------------------------------
(* Setup.                                                                  *)

Return(v) == main' = "returned" /\ verdict' = v

Refuse(v) ==
  /\ Return(v)
  /\ UNCHANGED <<exitSeen, failure, abort, terminated, unclean, stopping, reader, writer,
                 process, pipe>>

\* cancel.check and the deadline before CreateProcessW, which may fail.
Create ==
  /\ main = "start"
  /\ \/ cancelled /\ Refuse("cancelled")
     \/ late /\ Refuse("timeout")
     \/ Refuse("refused")
     \/ /\ ~cancelled /\ ~late
        /\ main' = "boundary" /\ child' = "running"
        /\ open' = [s \in Streams |-> TRUE]
        /\ reader' = [s \in Streams |-> [reader[s] EXCEPT !.at = "top"]]
        /\ UNCHANGED <<locals, stopping, writer, descendant, killed, taken, made, acted, pipe>>
  /\ UNCHANGED <<call, cancelled, clocks, faults>>

Terminate ==
  /\ child' = IF child = "running" THEN "ending" ELSE child
  /\ killed' = (killed \/ child = "running")
  /\ UNCHANGED <<descendant, taken, made, open, acted>>

\* The submission boundary: a child that is too late is terminated, its readers
\* joined, and nothing is written to it.
Boundary ==
  /\ main = "boundary"
  /\ IF cancelled \/ late
       THEN /\ main' = "reap" /\ stopping' = TRUE
            /\ Terminate /\ UNCHANGED writer
       ELSE /\ main' = "poll" /\ stopping' = stopping
            /\ writer' = [writer EXCEPT !.at = IF input = 0 THEN "none" ELSE "top"]
            /\ UNCHANGED process
  /\ UNCHANGED <<call, locals, cancelled, clocks, reader, pipe, faults>>

Reap ==
  /\ main = "reap"
  /\ \A s \in Streams : reader[s].at = "done"
  /\ Return("cancelled")
  /\ writer' = [writer EXCEPT !.at = "none"]
  /\ UNCHANGED <<call, exitSeen, failure, abort, terminated, unclean, stopping, cancelled,
                 clocks, reader, process, pipe, faults>>

------------------------------------------------------------------------------
(* The wait loop, in the order of its looks.                               *)

Look == UNCHANGED <<call, terminated, unclean, verdict, cancelled, clocks, reader, writer,
                    process, pipe>>

Leave(f) ==
  /\ main' = "settle" /\ failure' = f
  /\ abort' = (f # "none") /\ stopping' = (f # "none")

On(label) == main' = label /\ UNCHANGED <<failure, abort, stopping>>

Poll ==
  /\ main = "poll"
  /\ exitSeen' = (exitSeen \/ child = "exited")
  /\ On("output")
  /\ UNCHANGED faults /\ Look

\* WaitForSingleObject or GetExitCodeProcess fails.
PollFails ==
  /\ main = "poll" /\ ~exitSeen
  /\ faults < MaxFaults /\ faults' = faults + 1
  /\ Leave("io")
  /\ UNCHANGED exitSeen /\ Look

CheckOutput ==
  /\ main = "output"
  /\ IF \E s \in Streams : reader[s].over THEN Leave("output") ELSE On("errors")
  /\ UNCHANGED <<exitSeen, faults>> /\ Look

CheckErrors ==
  /\ main = "errors"
  /\ IF writer.error \/ \E s \in Streams : reader[s].error THEN Leave("io") ELSE On("finished")
  /\ UNCHANGED <<exitSeen, faults>> /\ Look

Collected ==
  /\ \A s \in Streams : reader[s].at = "done"
  /\ writer.at \in {"none", "done"}

CheckFinished ==
  /\ main = "finished"
  /\ IF exitSeen /\ Collected THEN Leave("none") ELSE On("clock")
  /\ UNCHANGED <<exitSeen, faults>> /\ Look

CheckClock ==
  /\ main = "clock"
  /\ CASE cancelled -> Leave("cancelled")
       [] ~cancelled /\ late -> Leave("timeout")
       [] ~cancelled /\ ~late /\ drained -> Leave("drain")
       [] OTHER -> On("poll")
  /\ UNCHANGED <<exitSeen, faults>> /\ Look

------------------------------------------------------------------------------
(* settle, and the verdict after it.                                       *)

Complete == child = "exited" /\ Collected

\* Mutant: only the child is waited for, not the threads.
SettleChildOnly ==
  /\ main = "settle"
  /\ \/ child = "exited" /\ main' = "verdict"
     \/ abort /\ child # "exited" /\ ~terminated /\ main' = "kill"
  /\ UNCHANGED <<call, locals, stopping, cancelled, clocks, reader, writer, process, pipe, faults>>

Settle ==
  /\ main = "settle"
  /\ \/ Complete /\ main' = "verdict"
     \/ abort /\ child # "exited" /\ ~terminated /\ main' = "kill"
  /\ UNCHANGED <<call, locals, stopping, cancelled, clocks, reader, writer, process, pipe, faults>>

\* Mutant: the threads are stopped and the child is left to end by itself.
KillThreadsOnly ==
  /\ main = "kill" /\ main' = "settle"
  /\ terminated' = TRUE
  /\ UNCHANGED <<call, exitSeen, failure, abort, unclean, verdict, stopping, cancelled, clocks,
                 reader, writer, process, pipe, faults>>

\* TerminateProcess, on a child that may have ended since the look at it.
Kill ==
  /\ main = "kill" /\ main' = "settle"
  /\ terminated' = TRUE
  /\ Terminate
  /\ UNCHANGED <<call, exitSeen, failure, abort, unclean, verdict, stopping, cancelled, clocks,
                 reader, writer, pipe, faults>>

\* The settle budget passes, or the child cannot be waited for.
Unsettled ==
  /\ main = "settle" /\ ~unclean
  /\ unclean' = TRUE
  /\ \/ stopping' = TRUE /\ abort' = TRUE /\ faults' = faults /\ main' = main
     \/ /\ faults < MaxFaults /\ faults' = faults + 1
        /\ main' = IF abort /\ ~terminated THEN "kill" ELSE main
        /\ UNCHANGED <<stopping, abort>>
  /\ UNCHANGED <<call, exitSeen, failure, terminated, verdict, cancelled, clocks, reader, writer,
                 process, pipe>>

\* Mutant: a completion counts as natural after a termination too.
RefinedAlways ==
  IF \/ failure \notin {"cancelled", "timeout"}
     \/ \E s \in Streams : ~reader[s].eof
     \/ input > 0 /\ ~writer.submitted
    THEN IF failure = "none" /\ input > 0 /\ ~writer.submitted THEN "io" ELSE failure
    ELSE "none"

\* A natural completion stays known although a cancellation or the deadline
\* raced with it; a request that did not get through is a failure.
Refined ==
  LET natural == /\ failure \in {"cancelled", "timeout"} /\ ~terminated
                 /\ \A s \in Streams : reader[s].eof
                 /\ input = 0 \/ writer.submitted
      known == IF natural THEN "none" ELSE failure
  IN IF known = "none" /\ input > 0 /\ ~writer.submitted
       THEN IF cancelled THEN "cancelled" ELSE "io"
       ELSE known

\* Mutant: a failed cleanup hides that the activation was submitted.
JudgeCleanup ==
  /\ main = "verdict"
  /\ LET plain == IF Refined = "none" THEN "ok" ELSE Refined
     IN Return(IF unclean THEN "cleanup"
               ELSE IF plain # "ok" /\ activation /\ writer.submitted THEN "unknown" ELSE plain)
  /\ UNCHANGED <<call, exitSeen, failure, abort, terminated, unclean, stopping, cancelled, clocks,
                 reader, writer, process, pipe, faults>>

\* A submitted activation that ends in any failure has an unknown outcome.
Judge ==
  /\ main = "verdict"
  /\ LET plain == IF unclean THEN "cleanup" ELSE IF Refined = "none" THEN "ok" ELSE Refined
     IN Return(IF plain # "ok" /\ activation /\ writer.submitted THEN "unknown" ELSE plain)
  /\ UNCHANGED <<call, exitSeen, failure, abort, terminated, unclean, stopping, cancelled, clocks,
                 reader, writer, process, pipe, faults>>

Main ==
  \/ Create \/ Boundary \/ Reap
  \/ Poll \/ CheckOutput \/ CheckErrors \/ CheckFinished \/ CheckClock
  \/ Settle \/ Kill \/ Judge

------------------------------------------------------------------------------
(* The threads.                                                            *)

Update(s, r) == reader' = [reader EXCEPT ![s] = r]
Reading == UNCHANGED <<call, main, locals, stopping, cancelled, clocks, writer, process>>

ReadTop(s) ==
  /\ reader[s].at = "top"
  /\ Update(s, [reader[s] EXCEPT !.at = IF stopping THEN "finish" ELSE "read"])
  /\ UNCHANGED <<pipe, faults>> /\ Reading

ReadChunk(s) ==
  /\ reader[s].at = "read" /\ pipe[s] > 0
  /\ pipe' = [pipe EXCEPT ![s] = @ - 1]
  /\ Update(s, IF reader[s].got = Limit
                 THEN [reader[s] EXCEPT !.over = TRUE, !.at = "finish"]
                 ELSE [reader[s] EXCEPT !.got = @ + 1, !.at = "top"])
  /\ UNCHANGED faults /\ Reading

\* Somebody can still write to the stream.
WriteEnd(s) == (child \in {"running", "ending"} /\ open[s]) \/ descendant

ReadEof(s) ==
  /\ reader[s].at = "read" /\ pipe[s] = 0 /\ ~WriteEnd(s)
  /\ Update(s, [reader[s] EXCEPT !.eof = TRUE, !.at = "finish"])
  /\ UNCHANGED <<pipe, faults>> /\ Reading

ReadFails(s) ==
  /\ reader[s].at = "read"
  /\ faults < MaxFaults /\ faults' = faults + 1
  /\ Update(s, [reader[s] EXCEPT !.error = TRUE, !.at = "finish"])
  /\ UNCHANGED pipe /\ Reading

ReadDone(s) ==
  /\ reader[s].at = "finish"
  /\ Update(s, [reader[s] EXCEPT !.at = "done"])
  /\ UNCHANGED <<pipe, faults>> /\ Reading

Reader(s) == ReadTop(s) \/ ReadChunk(s) \/ ReadEof(s) \/ ReadDone(s)

\* Somebody can still read the request.
ReadEnd == child \in {"running", "ending"} \/ descendant

Writing == UNCHANGED <<call, main, locals, stopping, cancelled, clocks, reader, process, pipe, faults>>

WriteTop ==
  /\ writer.at = "top"
  /\ writer' = [writer EXCEPT !.at =
       IF writer.sent = input \/ stopping \/ cancelled THEN "finish" ELSE "write"]
  /\ Writing

WriteChunk ==
  /\ writer.at = "write" /\ ReadEnd /\ writer.sent - taken < Room
  /\ writer' = [writer EXCEPT !.sent = @ + 1, !.at = "top"]
  /\ Writing

WriteBroken ==
  /\ writer.at = "write" /\ ~ReadEnd
  /\ writer' = [writer EXCEPT !.error = ~stopping, !.at = "finish"]
  /\ Writing

\* A request that got through stays submitted; the end of the pipe is closed.
WriteDone ==
  /\ writer.at = "finish"
  /\ writer' = [writer EXCEPT !.submitted = (writer.sent = input), !.at = "done"]
  /\ Writing

Writer == WriteTop \/ WriteChunk \/ WriteBroken \/ WriteDone

------------------------------------------------------------------------------
(* The child, its descendant, the caller and the clock.                    *)

Outside == UNCHANGED <<call, main, locals, stopping, reader, writer, faults>>
Child == child = "running" /\ UNCHANGED <<cancelled, clocks, killed>> /\ Outside

Take ==
  /\ Child /\ taken < writer.sent /\ taken' = taken + 1
  /\ UNCHANGED <<child, descendant, made, open, acted, pipe>>

\* An activation worker acts on a whole request and its end, never on a part.
Act ==
  /\ Child /\ activation /\ taken = input /\ writer.at = "done" /\ ~acted
  /\ acted' = TRUE
  /\ UNCHANGED <<child, descendant, taken, made, open, pipe>>

Write(s) ==
  /\ Child /\ open[s] /\ made[s] < MaxOutput /\ pipe[s] < Room
  /\ made' = [made EXCEPT ![s] = @ + 1]
  /\ pipe' = [pipe EXCEPT ![s] = @ + 1]
  /\ UNCHANGED <<child, descendant, taken, open, acted>>

CloseOutput(s) ==
  /\ Child /\ open[s] /\ open' = [open EXCEPT ![s] = FALSE]
  /\ UNCHANGED <<child, descendant, taken, made, acted, pipe>>

Exit ==
  /\ Child /\ child' = "ending"
  /\ UNCHANGED <<descendant, taken, made, open, acted, pipe>>

Spawn ==
  /\ Child /\ ~descendant /\ descendant' = TRUE
  /\ UNCHANGED <<child, taken, made, open, acted, pipe>>

DescendantEnds ==
  /\ descendant /\ descendant' = FALSE
  /\ UNCHANGED <<cancelled, clocks, child, killed, taken, made, open, acted, pipe>> /\ Outside

\* The operating system closes the handles of an ending process and signals it.
Ended ==
  /\ child = "ending" /\ child' = "exited"
  /\ UNCHANGED <<cancelled, clocks, descendant, killed, taken, made, open, acted, pipe>> /\ Outside

Cancel ==
  /\ ~cancelled /\ main # "returned" /\ cancelled' = TRUE
  /\ UNCHANGED <<clocks, process, pipe>> /\ Outside

Deadline ==
  /\ ~late /\ main # "returned" /\ late' = TRUE
  /\ UNCHANGED <<cancelled, drained, process, pipe>> /\ Outside

DrainBudget ==
  /\ exitSeen /\ ~drained /\ main # "returned" /\ drained' = TRUE
  /\ UNCHANGED <<cancelled, late, process, pipe>> /\ Outside

Environment ==
  \/ Take \/ Act \/ Exit \/ Spawn \/ DescendantEnds
  \/ \E s \in Streams : Write(s) \/ CloseOutput(s)
  \/ Cancel \/ DrainBudget

Next ==
  \/ Main \/ PollFails \/ Unsettled
  \/ (\E s \in Streams : Reader(s) \/ ReadFails(s)) \/ Writer
  \/ Environment \/ Ended \/ Deadline

\* Threads run, a terminated process ends and the deadline comes.  The child owes
\* nothing: it need not read, write or exit.
Spec == Init /\ [][Next]_vars /\ WF_vars(Main) /\ (\A s \in Streams : WF_vars(Reader(s)))
             /\ WF_vars(Writer) /\ WF_vars(Ended) /\ WF_vars(Deadline)

------------------------------------------------------------------------------
Labels == {"start", "boundary", "reap", "poll", "output", "errors", "finished", "clock",
           "settle", "kill", "verdict", "returned"}

CallerOK ==
  /\ activation \in BOOLEAN /\ input = IF activation THEN Request ELSE 0
  /\ main \in Labels /\ failure \in Failures /\ verdict \in Verdicts
  /\ exitSeen \in BOOLEAN /\ abort \in BOOLEAN /\ terminated \in BOOLEAN /\ unclean \in BOOLEAN
  /\ stopping \in BOOLEAN /\ cancelled \in BOOLEAN /\ late \in BOOLEAN /\ drained \in BOOLEAN
  /\ faults \in 0..MaxFaults

ProcessOK ==
  /\ child \in {"none", "running", "ending", "exited"}
  /\ descendant \in BOOLEAN /\ killed \in BOOLEAN /\ acted \in BOOLEAN
  /\ taken \in 0..writer.sent /\ made \in [Streams -> 0..MaxOutput]
  /\ open \in [Streams -> BOOLEAN]

ThreadsOK ==
  /\ reader \in [Streams -> Readers] /\ writer \in Writers
  /\ pipe \in [Streams -> 0..Room]

TypeOK == CallerOK /\ ProcessOK /\ ThreadsOK

\* The call leaves nothing behind: when it returns, its child has ended or been
\* told to end, and none of its threads still holds a pipe.
NothingLeftBehind ==
  main = "returned" =>
    /\ child # "running"
    /\ \A s \in Streams : reader[s].at \in {"none", "done"}
    /\ writer.at \in {"held", "none", "done"}
    /\ writer.at = "held" => child = "none"

\* Whatever raced with it, an activation that took place is never reported as one
\* that was refused, cancelled or timed out before its submission.
ActivationNeverDenied == main = "returned" /\ acted => verdict \in {"ok", "unknown"}

\* A success is a child that ended by itself after the whole request got through,
\* even when a cancellation or the deadline came while it was ending.
SuccessIsNatural ==
  verdict = "ok" => child = "exited" /\ ~killed /\ writer.sent = input

\* The call returns although the child never reads, writes, closes or exits, unless
\* a process the child started keeps a pipe for good.
Returns == <>(main = "returned") \/ <>[]descendant

\* crates/cpg-windows/src/process.rs:859, output_limit_is_enforced: a stream that
\* exceeds its limit is HELPER_OUTPUT_LIMIT.  So a success holds all that was written.
OutputLimitIsEnforced ==
  verdict = "ok" => \A s \in Streams : made[s] <= Limit /\ reader[s].got = made[s]

------------------------------------------------------------------------------
(* The inductive invariant.                                                *)

\* What the readers and the writer have done: nothing is read that was not written,
\* and the writer says it is done only when it knows whether all got through.
Streaming ==
  /\ \A s \in Streams : /\ reader[s].got + pipe[s] <= made[s]
                        /\ reader[s].at = "none" <=> child = "none"
  /\ writer.sent <= input /\ (writer.at = "write" => writer.sent # input)
  /\ writer.submitted => writer.at = "done"
  /\ writer.at = "done" => (writer.submitted <=> writer.sent = input)
  /\ acted => activation /\ writer.at = "done" /\ writer.sent = input

Before == {"start", "boundary", "reap"}
Loop == {"poll", "output", "errors", "finished", "clock"}

\* What the calling thread has done at each label.
Progress ==
  /\ writer.at = "held" <=> main \in Before \/ (main = "returned" /\ child = "none")
  /\ writer.at = "none" => input = 0 \/ main = "returned"
  /\ main = "start" => child = "none"
  /\ main \notin {"start", "returned"} => child # "none"
  /\ main \in {"start", "boundary"} \cup Loop => failure = "none" /\ ~abort /\ ~unclean /\ ~killed
  /\ main = "reap" => child # "running"
  /\ main = "kill" => abort
  /\ main = "verdict" => Complete
  /\ main \in {"settle", "kill", "verdict"} /\ killed => terminated
  /\ terminated => abort /\ child # "running"
  /\ abort => failure # "none" \/ unclean
  /\ verdict # "none" => main = "returned"

Inv ==
  /\ TypeOK /\ Streaming /\ Progress
  /\ NothingLeftBehind /\ ActivationNeverDenied /\ SuccessIsNatural
==============================================================================
