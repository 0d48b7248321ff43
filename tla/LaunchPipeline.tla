---------------------------- MODULE LaunchPipeline ----------------------------
(***************************************************************************)
(* Several Guard processes launching Codex Desktop through                 *)
(* crates/cpg-engine/src/launch.rs: the cross-process startup lock and its *)
(* spacing, the order of preparation, daemon stop, last checks and         *)
(* submission, the activation worker that outlives its Guard, cancellation *)
(* at any point, and the facts a run reports.                              *)
(*                                                                         *)
(* A cancellation check and the effect that follows it with no state read  *)
(* in between are one step: a cancellation that falls between them cannot  *)
(* be told from one that comes just after the effect.                      *)
(***************************************************************************)
EXTENDS Integers, FiniteSets

CONSTANTS
  Guards,            \* Guard processes
  Targets,           \* Desktop installations a discovery may find
  Registered,        \* those that are registered applications; the rest are bare executables
  NoTarget, NoTime,
  Cooldown,          \* the spacing StartupLock::open enforces, in ticks
  MaxClock, MaxRuns, MaxUpdates, MaxSkews, MaxCrashes   \* bounds

ASSUME ConstantsAssumption ==
  /\ Registered \subseteq Targets /\ NoTarget \notin Targets
  /\ NoTime \notin Int
  /\ Cooldown \in Nat \ {0}
  /\ {MaxClock, MaxRuns, MaxUpdates, MaxSkews, MaxCrashes} \subseteq Nat

Times == 0..MaxClock \cup {NoTime}
Labels == {"idle", "lock", "discover", "prepare", "verify", "stop", "final", "mark",
           "submit", "activate", "settled"}
LockHeldAt == Labels \ {"idle", "lock", "settled"}

Options == [repair : BOOLEAN, only : BOOLEAN, manage : BOOLEAN]
Facts == [activation : {"not_submitted", "unknown", "returned"},
          daemon     : {"skipped", "unconfirmed", "stopped", "not_needed"},
          backend    : {"unknown", "not_applicable", "not_authorized", "prepared"}]
Fresh == [activation |-> "not_submitted", daemon |-> "skipped", backend |-> "unknown"]

\* What a run really did, whatever it reports.
Deeds == [wrote : BOOLEAN, stopped : BOOLEAN, submitted : BOOLEAN]
Nothing == [wrote |-> FALSE, stopped |-> FALSE, submitted |-> FALSE]
Verdicts == {"none", "receipt", "error", "error_after_stop"}

VARIABLES
  clock,      \* the wall clock all Guards read
  stamp,      \* the time the startup lock file holds, NoTime when it holds none
  spoiled,    \* the clock was set back or the lock file was cleaned away
  installed,  \* the installed Desktop
  desktop,    \* the Desktop process: "stopped", or who started it
  daemon,     \* the shared Codex background server is up
  pc, opts, target,
  cancelled,  \* the cancellation latch of each run
  facts, verdict, deeds,
  flight,     \* the mark of a run's submission while it has neither shown Desktop nor failed
  orphans,    \* the marks of such submissions whose run is over: the worker outlives it
  runs, updates, skews, crashes

world  == <<clock, stamp, spoiled, installed, desktop, daemon>>
open   == <<flight, orphans>>
run    == <<opts, target, facts, verdict, deeds>>
budget == <<runs, updates, skews, crashes>>
vars   == <<world, pc, run, cancelled, open, budget>>

NoOptions == [repair |-> FALSE, only |-> FALSE, manage |-> FALSE]

Init ==
  /\ clock = 0 /\ stamp = NoTime /\ spoiled = FALSE
  /\ installed \in Targets /\ desktop \in {"stopped", "user"} /\ daemon \in BOOLEAN
  /\ pc = [g \in Guards |-> "idle"]
  /\ opts = [g \in Guards |-> NoOptions]
  /\ target = [g \in Guards |-> NoTarget]
  /\ cancelled = [g \in Guards |-> FALSE]
  /\ facts = [g \in Guards |-> Fresh]
  /\ verdict = [g \in Guards |-> "none"]
  /\ deeds = [g \in Guards |-> Nothing]
  /\ flight = [g \in Guards |-> NoTime] /\ orphans = {}
  /\ runs = 0 /\ updates = 0 /\ skews = 0 /\ crashes = 0

------------------------------------------------------------------------------
Goto(g, label) == pc' = [pc EXCEPT ![g] = label]
Locked == \E g \in Guards : pc[g] \in LockHeldAt
Report(g, f) == facts' = [facts EXCEPT ![g] = f]
Record(g, d) == deeds' = [deeds EXCEPT ![g] = d]

\* The run is over; a worker it created and saw nothing of goes on by itself.
Abandon(g) ==
  /\ flight' = [flight EXCEPT ![g] = NoTime]
  /\ orphans' = IF pc[g] = "activate" /\ flight[g] # NoTime
                  THEN orphans \cup {flight[g]} ELSE orphans

\* launch_with's epilogue: a failure after a confirmed daemon stop says so.
Failed(g) ==
  /\ Goto(g, "settled")
  /\ verdict' = [verdict EXCEPT ![g] =
       IF facts[g].daemon = "stopped" THEN "error_after_stop" ELSE "error"]

Fail(g) == Failed(g) /\ Abandon(g) /\ UNCHANGED <<world, opts, target, facts, deeds>>

\* A fresh discovery of the target found first, and no process of it.
Unchanged(g) == installed = target[g] /\ desktop = "stopped"

------------------------------------------------------------------------------
(* The steps of one run.                                                   *)

\* cancel.check and preflight: repair excludes activation-only.
Begin(g) ==
  /\ pc[g] \in {"idle", "settled"}
  /\ runs < MaxRuns /\ runs' = runs + 1
  /\ \E o \in Options : ~(o.repair /\ o.only) /\ opts' = [opts EXCEPT ![g] = o]
  /\ Goto(g, "lock")
  /\ target' = [target EXCEPT ![g] = NoTarget]
  /\ cancelled' = [cancelled EXCEPT ![g] = FALSE]
  /\ Report(g, Fresh) /\ Record(g, Nothing)
  /\ verdict' = [verdict EXCEPT ![g] = "none"]
  /\ UNCHANGED <<world, open, updates, skews, crashes>>

\* Mutant: a submission of this very instant does not count.
TooSoonLater == stamp # NoTime /\ stamp < clock /\ clock - stamp < Cooldown

TooSoon == stamp # NoTime /\ stamp <= clock /\ clock - stamp < Cooldown

\* StartupLock::open: never waits; LAUNCH_BUSY while another Guard holds the
\* file or the last submission is too recent.
OpenLock(g) ==
  /\ pc[g] = "lock"
  /\ IF Locked \/ TooSoon
       THEN Failed(g) /\ UNCHANGED target
       ELSE Goto(g, "discover") /\ UNCHANGED <<target, verdict>>
  /\ UNCHANGED <<world, opts, facts, deeds, open>>

\* Mutant: repair stops the daemon before the block is prepared.
DiscoverRepairFirst(g) ==
  /\ pc[g] = "discover" /\ ~cancelled[g] /\ desktop = "stopped"
  /\ target' = [target EXCEPT ![g] = installed]
  /\ Report(g, [facts[g] EXCEPT !.backend = "not_applicable"])
  /\ Goto(g, IF opts[g].repair THEN "verify" ELSE "prepare")
  /\ UNCHANGED <<world, opts, verdict, deeds, open>>

\* First discovery, require_stopped, and the refusals that only a discovered
\* target can decide; preparation is planned, not done.
Discover(g) ==
  LET o == opts[g]
      managed == installed \in Registered /\ ~o.only
      backend == IF ~managed THEN "not_applicable"
                 ELSE IF o.manage THEN "unknown" ELSE "not_authorized"
      after == IF managed /\ o.manage THEN "prepare"
               ELSE IF o.repair THEN "verify" ELSE "final"
  IN /\ pc[g] = "discover"
     /\ ~cancelled[g] /\ desktop = "stopped"
     /\ o.only => installed \in Registered
     /\ managed /\ o.repair => o.manage
     /\ target' = [target EXCEPT ![g] = installed]
     /\ Report(g, [facts[g] EXCEPT !.backend = backend])
     /\ Goto(g, after)
     /\ UNCHANGED <<world, opts, verdict, deeds, open>>

\* prepare_proxy_env on the authorized Home.
Prepare(g) ==
  /\ pc[g] = "prepare" /\ ~cancelled[g]
  /\ Record(g, [deeds[g] EXCEPT !.wrote = TRUE])
  /\ Report(g, [facts[g] EXCEPT !.backend = "prepared"])
  /\ Goto(g, IF opts[g].repair THEN "verify" ELSE "final")
  /\ UNCHANGED <<world, opts, target, verdict, open>>

\* Repair: a second discovery and process check, then the CLI is resolved.
Verify(g) ==
  /\ pc[g] = "verify" /\ ~cancelled[g]
  /\ Unchanged(g)
  /\ Report(g, [facts[g] EXCEPT !.daemon = "unconfirmed"])
  /\ Goto(g, "stop")
  /\ UNCHANGED <<world, opts, target, verdict, deeds, open>>

\* The one public daemon-stop command, with a verdict Guard could read.
StopConfirmed(g) ==
  /\ pc[g] = "stop" /\ ~cancelled[g]
  /\ daemon' = FALSE
  /\ Record(g, [deeds[g] EXCEPT !.stopped = daemon])
  /\ Report(g, [facts[g] EXCEPT !.daemon = IF daemon THEN "stopped" ELSE "not_needed"])
  /\ Goto(g, "final")
  /\ UNCHANGED <<clock, stamp, spoiled, installed, desktop, opts, target, verdict, open>>

\* Cancelled, timed out, failed or unreadable: the daemon may be down or up.
StopUnconfirmed(g) ==
  /\ pc[g] = "stop"
  /\ daemon' \in {daemon, FALSE}
  /\ cancelled[g] => daemon' = daemon
  /\ Record(g, [deeds[g] EXCEPT !.stopped = daemon # daemon'])
  /\ Failed(g)
  /\ UNCHANGED <<clock, stamp, spoiled, installed, desktop, opts, target, facts, open>>

\* The last discovery, process check, elevation check and cancellation check.
Final(g) ==
  /\ pc[g] = "final" /\ ~cancelled[g]
  /\ Unchanged(g)
  /\ Goto(g, "mark")
  /\ UNCHANGED <<world, run, open>>

\* Mutant: the submission boundary is passed without saying so.
MarkSilent(g) ==
  /\ pc[g] = "mark"
  /\ stamp' = clock
  /\ flight' = [flight EXCEPT ![g] = clock] /\ orphans' = orphans
  /\ Goto(g, "submit")
  /\ UNCHANGED <<clock, spoiled, installed, desktop, daemon, run>>

\* mark_submitted: the startup lock records the time, before the submission.
Mark(g) ==
  /\ pc[g] = "mark"
  /\ stamp' = clock
  /\ flight' = [flight EXCEPT ![g] = clock] /\ orphans' = orphans
  /\ Report(g, [facts[g] EXCEPT !.activation = "unknown"])
  /\ Goto(g, "submit")
  /\ UNCHANGED <<clock, spoiled, installed, desktop, daemon, opts, target, verdict, deeds>>

\* The lock file could not be written: nothing is submitted.
MarkFails(g) ==
  /\ pc[g] = "mark"
  /\ stamp' \in {stamp, clock, NoTime}
  /\ Failed(g)
  /\ UNCHANGED <<clock, spoiled, installed, desktop, daemon, opts, target, facts, deeds, open>>

\* Mutant: the helper is created without looking at the latch again.
SubmitRegardless(g) ==
  /\ pc[g] = "submit"
  /\ Record(g, [deeds[g] EXCEPT !.submitted = TRUE])
  /\ Goto(g, "activate")
  /\ UNCHANGED <<world, opts, target, facts, verdict, open>>

\* The activation worker is created; a bare executable is Desktop itself.
Submit(g) ==
  /\ pc[g] = "submit" /\ ~cancelled[g]
  /\ Record(g, [deeds[g] EXCEPT !.submitted = TRUE])
  /\ IF target[g] \in Registered
       THEN desktop' = desktop /\ flight' = flight
       ELSE desktop' = "guard" /\ flight' = [flight EXCEPT ![g] = NoTime]
  /\ orphans' = orphans
  /\ Goto(g, "activate")
  /\ UNCHANGED <<clock, stamp, spoiled, installed, daemon, opts, target, facts, verdict>>

\* Cancelled at the helper's own check, refused, or not created.
SubmitFails(g) ==
  pc[g] = "submit" /\ Fail(g)

\* A known outcome: Desktop is there.  The receipt may still be refused.
Receipt(g) ==
  /\ pc[g] = "activate" /\ flight[g] = NoTime
  /\ Report(g, [facts[g] EXCEPT !.activation = "returned"])
  /\ \/ Goto(g, "settled") /\ verdict' = [verdict EXCEPT ![g] = "receipt"]
     \/ target[g] \in Registered /\ Failed(g)
  /\ UNCHANGED <<world, opts, target, deeds, open>>

\* APPX_ACTIVATION_OUTCOME_UNKNOWN or APPX_ACTIVATION_WORKER_FAILED.
NoReceipt(g) == pc[g] = "activate" /\ target[g] \in Registered /\ Fail(g)

\* A refusal or failure of any step before the submission boundary.
Refuse(g) == pc[g] \in {"lock", "discover", "prepare", "verify", "final"} /\ Fail(g)

Step(g) ==
  /\ \/ OpenLock(g) \/ Discover(g) \/ Prepare(g) \/ Verify(g)
     \/ StopConfirmed(g) \/ StopUnconfirmed(g) \/ Final(g) \/ Mark(g) \/ MarkFails(g)
     \/ Submit(g) \/ SubmitFails(g) \/ Receipt(g) \/ NoReceipt(g) \/ Refuse(g)
  /\ UNCHANGED <<cancelled, budget>>

------------------------------------------------------------------------------
(* The environment.                                                        *)

\* Ctrl+C, the session's cancel or its budget.
Cancel(g) ==
  /\ pc[g] \notin {"idle", "settled"} /\ ~cancelled[g]
  /\ cancelled' = [cancelled EXCEPT ![g] = TRUE]
  /\ UNCHANGED <<world, pc, run, open, budget>>

\* A Guard dies.  Its lock closes; a worker it created lives on, because no job
\* object ties the two together.
Crash(g) ==
  /\ pc[g] \notin {"idle", "settled"}
  /\ crashes < MaxCrashes /\ crashes' = crashes + 1
  /\ IF pc[g] = "mark" THEN stamp' \in {stamp, clock, NoTime} ELSE stamp' = stamp
  /\ Abandon(g)
  /\ Goto(g, "idle")
  /\ opts' = [opts EXCEPT ![g] = NoOptions]
  /\ target' = [target EXCEPT ![g] = NoTarget]
  /\ cancelled' = [cancelled EXCEPT ![g] = FALSE]
  /\ Report(g, Fresh) /\ Record(g, Nothing)
  /\ verdict' = [verdict EXCEPT ![g] = "none"]
  /\ UNCHANGED <<clock, spoiled, installed, desktop, daemon, runs, updates, skews>>

\* A submission its run still waits for shows Desktop.
Appear(g) ==
  /\ pc[g] = "activate" /\ flight[g] # NoTime
  /\ flight' = [flight EXCEPT ![g] = NoTime]
  /\ desktop' = "guard"
  /\ UNCHANGED <<clock, stamp, spoiled, installed, daemon, pc, run, cancelled, orphans, budget>>

\* One that nobody waits for shows Desktop or comes to nothing, whenever its
\* worker gets there.
Surface ==
  /\ \E t \in orphans : orphans' = orphans \ {t}
  /\ desktop' \in {desktop, "guard"}
  /\ UNCHANGED <<clock, stamp, spoiled, installed, daemon, pc, run, cancelled, flight, budget>>

\* Time passes.
Tick ==
  /\ clock < MaxClock /\ clock' = clock + 1
  /\ UNCHANGED <<stamp, spoiled, installed, desktop, daemon, pc, run, cancelled, open, budget>>

\* The wall clock is set back, or a cleaner empties the temporary directory.
Skew ==
  /\ skews < MaxSkews /\ skews' = skews + 1
  /\ \/ clock' \in 0..(clock - 1) /\ stamp' = stamp
     \/ ~Locked /\ stamp' = NoTime /\ clock' = clock
  /\ spoiled' = TRUE
  /\ UNCHANGED <<installed, desktop, daemon, pc, run, cancelled, open, runs, updates, crashes>>

\* The user starts or leaves Desktop; a client brings the background server up.
UserActs ==
  /\ \/ desktop = "stopped" /\ desktop' = "user" /\ daemon' = daemon
     \/ desktop # "stopped" /\ desktop' = "stopped" /\ daemon' = daemon
     \/ ~daemon /\ daemon' = TRUE /\ desktop' = desktop
  /\ UNCHANGED <<clock, stamp, spoiled, installed, pc, run, cancelled, open, budget>>

\* The Store updates, replaces or removes the installed Desktop.
Update ==
  /\ updates < MaxUpdates /\ updates' = updates + 1
  /\ installed' \in Targets \ {installed}
  /\ UNCHANGED <<clock, stamp, spoiled, desktop, daemon, pc, run, cancelled, open,
                 runs, skews, crashes>>

Next ==
  \/ \E g \in Guards : Begin(g) \/ Step(g) \/ Cancel(g) \/ Crash(g) \/ Appear(g)
  \/ Surface \/ Tick \/ Skew \/ UserActs \/ Update

Spec == Init /\ [][Next]_vars

------------------------------------------------------------------------------
TypeOK ==
  /\ clock \in 0..MaxClock /\ stamp \in Times /\ spoiled \in BOOLEAN
  /\ installed \in Targets /\ desktop \in {"stopped", "user", "guard"} /\ daemon \in BOOLEAN
  /\ pc \in [Guards -> Labels]
  /\ opts \in [Guards -> Options]
  /\ target \in [Guards -> Targets \cup {NoTarget}]
  /\ cancelled \in [Guards -> BOOLEAN]
  /\ facts \in [Guards -> Facts]
  /\ verdict \in [Guards -> Verdicts]
  /\ deeds \in [Guards -> Deeds]
  /\ flight \in [Guards -> Times] /\ orphans \subseteq 0..MaxClock
  /\ runs \in 0..MaxRuns /\ updates \in 0..MaxUpdates
  /\ skews \in 0..MaxSkews /\ crashes \in 0..MaxCrashes

\* The facts of a run never claim less than it did: a submission is never
\* "not_submitted", a stopped daemon never "skipped" or "not_needed", and a
\* failure after a confirmed stop always says that the daemon is down.
FactsAreHonest ==
  \A g \in Guards :
    /\ deeds[g].submitted => facts[g].activation # "not_submitted"
    /\ deeds[g].stopped => facts[g].daemon \in {"stopped", "unconfirmed"}
    /\ facts[g].daemon = "stopped" => deeds[g].stopped
    /\ facts[g].backend = "prepared" <=> deeds[g].wrote
    /\ verdict[g] = "error" => facts[g].daemon # "stopped"
    /\ verdict[g] = "receipt" => deeds[g].submitted /\ facts[g].activation = "returned"

\* The daemon goes down only for a repair whose proxy block is already in
\* place, and Desktop is submitted only after everything its options ask for.
Managed(g) == target[g] \in Registered /\ ~opts[g].only
EffectsInOrder ==
  \A g \in Guards :
    /\ deeds[g].stopped => opts[g].repair /\ (Managed(g) => deeds[g].wrote)
    /\ deeds[g].submitted /\ Managed(g) /\ opts[g].manage => deeds[g].wrote
    /\ deeds[g].submitted /\ opts[g].repair => facts[g].daemon \in {"stopped", "not_needed"}

Submits(g) == pc[g] = "submit" /\ pc'[g] = "activate"
Overdue(t) == clock - t >= Cooldown
Unseen(g) == (orphans \cup {flight[h] : h \in Guards \ {g}}) \ {NoTime}

\* Unless the clock was set back or the lock file cleaned away, every submission
\* that has shown nothing yet is a whole cooldown old when a Guard submits, and
\* only such a one can bring Desktop up behind a Guard's last checks: not after
\* a crash, a cancellation, an unknown outcome, a failed mark or a retry.
NoDoubleStart ==
  [][~spoiled => \A g \in Guards :
       /\ Submits(g) => \A t \in Unseen(g) : Overdue(t)
       /\ pc[g] \in {"mark", "submit"} /\ desktop # "guard" /\ desktop' = "guard" =>
            Submits(g) \/ \E t \in orphans \ orphans' : Overdue(t)]_vars

\* Once a run is cancelled it writes no block, stops no daemon and submits
\* nothing; at most the effect already under way completes.
CancelStopsEffects ==
  [][\A g \in Guards : cancelled[g] /\ pc'[g] \notin {"idle", "lock"} =>
       deeds'[g] = deeds[g]]_vars

(* The inductive invariant behind the properties above.                     *)

\* At most one Guard is between opening the lock file and the end of its run.
Exclusion == \A g, h \in Guards : pc[g] \in LockHeldAt /\ pc[h] \in LockHeldAt => g = h

\* What a run has done and reported at each label.
Progress ==
  \A g \in Guards :
    /\ verdict[g] # "none" => pc[g] = "settled"
    /\ pc[g] \in {"idle", "lock", "discover"} =>
         deeds[g] = Nothing /\ facts[g] = Fresh
    /\ pc[g] = "prepare" =>
         deeds[g] = Nothing /\ facts[g].backend = "unknown" /\ facts[g].daemon = "skipped"
         /\ Managed(g)
    /\ pc[g] = "verify" => opts[g].repair
    /\ pc[g] \in {"verify", "stop"} => (Managed(g) => deeds[g].wrote) /\ ~deeds[g].stopped
    /\ pc[g] = "verify" => facts[g].daemon = "skipped"
    /\ pc[g] = "stop" => opts[g].repair /\ facts[g].daemon = "unconfirmed"
    /\ pc[g] \in {"final", "mark", "submit", "activate"} =>
         /\ Managed(g) /\ opts[g].manage => deeds[g].wrote
         /\ opts[g].repair => facts[g].daemon \in {"stopped", "not_needed"}
    /\ pc[g] \in {"submit", "activate"} => facts[g].activation # "not_submitted"
    /\ pc[g] \in {"prepare", "verify", "stop", "final", "mark", "submit"} => ~deeds[g].submitted
    /\ pc[g] = "activate" => deeds[g].submitted

\* Only the holder of the lock has a submission of its own; an unseen one is
\* covered by the time in the lock file until it is a cooldown old, and the lock
\* is not had before that.
Flights ==
  /\ \A g \in Guards : flight[g] # NoTime => pc[g] \in {"submit", "activate"}
  /\ ~spoiled =>
       /\ stamp # NoTime => stamp <= clock
       /\ \A t \in orphans \cup {flight[g] : g \in Guards} : t # NoTime /\ ~Overdue(t) =>
            stamp # NoTime /\ t <= stamp
       /\ (\E g \in Guards : pc[g] \in LockHeldAt) => \A t \in orphans : Overdue(t)

Inv == TypeOK /\ Exclusion /\ Progress /\ FactsAreHonest /\ EffectsInOrder /\ Flights
==============================================================================
