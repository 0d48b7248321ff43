----------------------------- MODULE ConfigStore -----------------------------
(***************************************************************************)
(* The Guard configuration file config.toml, the managed block in the      *)
(* `.env` of a Codex Home, and several Guard processes (TUI, line console, *)
(* headless CLI) that read and change both through                         *)
(* crates/cpg-engine/src/config_store.rs.                                  *)
(*                                                                         *)
(* Windows share modes are the only lock: a mutation holds a read/write    *)
(* handle that shares reading alone (Transaction), a launch holds a read   *)
(* handle that shares reading alone (ConfigLease).  Opening never waits: a *)
(* sharing violation is an error.  A handle is held exactly while a        *)
(* process is at the labels WriterAt or LeaseAt, and the operating system  *)
(* closes it when the process dies.                                        *)
(***************************************************************************)
EXTENDS Integers, FiniteSets

CONSTANTS
  Procs,             \* Guard processes
  Ports,             \* proxy endpoints (host and port, one value)
  Homes,             \* spellings of a Codex Home path
  Canonical,         \* the canonical spelling of each one: the directory it names
  DefaultPort, DefaultHome,
  NoHome, NoBlock,
  Missing,           \* config.toml does not exist
  Marked, Plain,     \* unusable bytes, with and without consent field names
  ExternalFiles,     \* what another program may leave in config.toml
  MaxEdits, MaxFaults, MaxCrashes   \* bounds on the environment

Configs == [port : Ports, manage : BOOLEAN, home : Homes \cup {NoHome}]
Dirs    == {Canonical[h] : h \in Homes}
Files   == Configs \cup {Missing, Marked, Plain}
Images  == [block : Ports \cup {NoBlock}, text : {"plain", "conflict", "bad"}]

ASSUME ConstantsAssumption ==
  /\ DefaultPort \in Ports /\ DefaultHome \in Homes
  /\ NoHome \notin Homes /\ NoBlock \notin Ports
  /\ Canonical \in [Homes -> Homes]
  /\ \A h \in Homes : Canonical[Canonical[h]] = Canonical[h]
  /\ Missing \notin Configs /\ Marked \notin Configs /\ Plain \notin Configs
  /\ Missing # Marked /\ Missing # Plain /\ Marked # Plain
  /\ ExternalFiles \subseteq Files
  /\ MaxEdits \in Nat /\ MaxFaults \in Nat /\ MaxCrashes \in Nat

\* Config::default, and what an empty file parses to: every key has a default.
Default == [port |-> DefaultPort, manage |-> FALSE, home |-> NoHome]

Labels == {"idle", "probe", "create", "createCommit", "load", "missing", "open",
           "revokeRead", "revokeApply", "commit",
           "lease", "prepareRead", "prepareApply", "launching"}
WriterAt == {"createCommit", "revokeRead", "revokeApply", "commit"}
LeaseAt  == {"prepareRead", "prepareApply", "launching"}

Ops  == {"none", "refresh", "init", "proxy", "enable", "disable", "launch"}
Jobs == [op : Ops, base : Configs, repair : BOOLEAN, next : Configs, image : Images]
Snapshots == [ready : BOOLEAN, invalid : BOOLEAN, config : Configs]

VARIABLES
  file,      \* config.toml
  env,       \* the `.env` of each Home directory
  pc,        \* what each process is doing; handles follow from it
  seen,      \* EngineSession.state: ready, config_invalid, config
  job,       \* the operation in hand: its expected configuration and result
  edits, faults, crashes

vars == <<file, env, pc, seen, job, edits, faults, crashes>>
budgets == <<edits, faults, crashes>>

NoJob == [op |-> "none", base |-> Default, repair |-> FALSE, next |-> Default,
          image |-> [block |-> NoBlock, text |-> "plain"]]
Unread == [ready |-> FALSE, invalid |-> FALSE, config |-> Default]

Init ==
  /\ file \in {Missing, Default}
  /\ env = [d \in Dirs |-> [block |-> NoBlock, text |-> "plain"]]
  /\ pc = [p \in Procs |-> "idle"]
  /\ seen = [p \in Procs |-> Unread]
  /\ job = [p \in Procs |-> NoJob]
  /\ edits = 0 /\ faults = 0 /\ crashes = 0

------------------------------------------------------------------------------
Writing == \E q \in Procs : pc[q] \in WriterAt
Leased  == \E q \in Procs : pc[q] \in LeaseAt
\* Mutant: a lease that is opened beside a writer.
CanReadBesideWriter == file # Missing

CanRead  == file # Missing /\ ~Writing
CanWrite == file # Missing /\ ~Writing /\ ~Leased

\* consent_home: the Home a proposal names.
ConsentHome(c) == IF c.home = NoHome THEN DefaultHome ELSE c.home
\* The directory whose `.env` a configuration authorizes Guard to manage.
Binds(c, d) == c.manage /\ c.home # NoHome /\ Canonical[c.home] = d

Goto(p, label) == pc' = [pc EXCEPT ![p] = label]
Finish(p) == Goto(p, "idle") /\ job' = [job EXCEPT ![p] = NoJob]
Refuse(p) == Finish(p) /\ UNCHANGED <<file, env, seen, budgets>>
Begin(p, label, j) ==
  /\ pc[p] = "idle"
  /\ Goto(p, label)
  /\ job' = [job EXCEPT ![p] = j]
  /\ UNCHANGED <<file, env, seen, budgets>>

------------------------------------------------------------------------------
(* What a process is asked to do.  The expected configuration is the one   *)
(* its last snapshot holds.                                                *)

Refresh(p) == Begin(p, "probe", [NoJob EXCEPT !.op = "refresh"])

SetProxy(p, port) ==
  LET s == seen[p] IN
  Begin(p, IF s.invalid /\ s.config.manage THEN "missing" ELSE "open",
        [NoJob EXCEPT !.op = "proxy", !.base = s.config, !.repair = s.invalid,
                      !.next = [s.config EXCEPT !.port = port]])

\* Enabling stores the canonical Home, or the confirmed spelling when it
\* cannot be resolved; revoking clears both fields.
SetConsent(p, home) ==
  LET c == seen[p].config
      h == ConsentHome(c)
  IN /\ seen[p].ready
     /\ CanRead /\ file = c
     /\ home \in {h, Canonical[h]}
     /\ Begin(p, "open",
          IF c.manage
            THEN [NoJob EXCEPT !.op = "disable", !.base = c,
                               !.next = [c EXCEPT !.manage = FALSE, !.home = NoHome]]
            ELSE [NoJob EXCEPT !.op = "enable", !.base = c,
                               !.next = [c EXCEPT !.manage = TRUE, !.home = home]])

InitConfig(p, port) ==
  Begin(p, "open", [NoJob EXCEPT !.op = "init", !.next = [Default EXCEPT !.port = port]])

Launch(p) ==
  /\ seen[p].ready
  /\ Begin(p, "lease", [NoJob EXCEPT !.op = "launch", !.base = seen[p].config])

------------------------------------------------------------------------------
(* load_or_create_config, and what refresh publishes from it.              *)

Probe(p) ==
  /\ pc[p] = "probe"
  /\ Goto(p, IF file = Missing THEN "create" ELSE "load")
  /\ UNCHANGED <<file, env, seen, job, budgets>>

\* CREATE_NEW leaves an empty file, which reads as the default configuration.
Create(p) ==
  /\ pc[p] = "create"
  /\ IF file = Missing THEN file' = Default /\ Goto(p, "createCommit")
                       ELSE file' = file /\ Goto(p, "load")
  /\ UNCHANGED <<env, seen, job, budgets>>

CreateCommit(p) ==
  /\ pc[p] = "createCommit"
  /\ Goto(p, "load")
  /\ UNCHANGED <<file, env, seen, job, budgets>>

Publish(p, snapshot) ==
  /\ seen' = [seen EXCEPT ![p] = snapshot]
  /\ Finish(p)
  /\ UNCHANGED <<file, env, budgets>>

\* A refresh that does not produce a configuration keeps the last one read;
\* after a committed mutation the committed value stands in for it.
Unreadable(p, invalid) ==
  IF job[p].op = "refresh"
    THEN [ready |-> FALSE, invalid |-> invalid, config |-> seen[p].config]
    ELSE [ready |-> TRUE, invalid |-> FALSE, config |-> job[p].next]

Load(p) ==
  /\ pc[p] = "load"
  /\ CanRead
  /\ Publish(p, IF file \in Configs
                  THEN [ready |-> TRUE, invalid |-> FALSE, config |-> file]
                  ELSE Unreadable(p, TRUE))

\* Sharing violation, vanished file, I/O error or cancellation.
LoadFails(p) ==
  /\ pc[p] \in {"probe", "load"}
  /\ Publish(p, Unreadable(p, FALSE))

------------------------------------------------------------------------------
(* Transaction::open for each mutation.                                    *)

\* update_proxy refuses a consented repair of a missing file before opening.
CheckMissing(p) ==
  /\ pc[p] = "missing"
  /\ IF file = Missing
       THEN Refuse(p)
       ELSE Goto(p, "open") /\ UNCHANGED <<file, env, seen, job, budgets>>

\* Mutants: the expected configuration is not compared; a repair recreates a
\* missing file with the consent of its snapshot.
OpenProxyUnchecked(p) ==
  /\ pc[p] = "open" /\ job[p].op = "proxy" /\ CanWrite
  /\ Goto(p, "commit")
  /\ UNCHANGED <<file, env, seen, job, budgets>>

OpenProxyRecreates(p) ==
  /\ pc[p] = "open" /\ job[p].op = "proxy" /\ job[p].repair /\ file = Missing
  /\ file' = Default
  /\ Goto(p, "commit")
  /\ UNCHANGED <<env, seen, job, budgets>>

OpenProxy(p) ==
  /\ pc[p] = "open" /\ job[p].op = "proxy"
  /\ \/ /\ CanWrite
        /\ IF job[p].repair THEN file = Plain ELSE file = job[p].base
        /\ Goto(p, "commit")
        /\ UNCHANGED <<file, job>>
     \/ /\ file = Missing /\ job[p].repair
        /\ file' = Default
        /\ IF job[p].base.manage THEN Finish(p) ELSE Goto(p, "commit") /\ job' = job
  /\ UNCHANGED <<env, seen, budgets>>

\* Mutant: the expected configuration is not compared.
OpenConsentUnchecked(p) ==
  /\ pc[p] = "open" /\ job[p].op = "enable" /\ CanWrite
  /\ Goto(p, "commit")
  /\ UNCHANGED <<file, env, seen, job, budgets>>

OpenConsent(p) ==
  /\ pc[p] = "open" /\ job[p].op \in {"enable", "disable"}
  /\ CanWrite /\ file = job[p].base
  /\ IF job[p].op = "enable"
       THEN Goto(p, "commit")
       ELSE /\ job[p].base.home = ConsentHome(job[p].base)
            /\ Goto(p, "revokeRead")
  /\ UNCHANGED <<file, env, seen, job, budgets>>

\* initialize_config: CREATE_NEW, or --force over bytes that hold no consent.
OpenInit(p) ==
  /\ pc[p] = "open" /\ job[p].op = "init"
  /\ \/ file = Missing /\ file' = Default
     \/ /\ CanWrite /\ file # Marked
        /\ file \in Configs => ~file.manage
        /\ file' = file
  /\ Goto(p, "commit")
  /\ UNCHANGED <<env, seen, job, budgets>>

\* CONFIG_LOCK_FAILED, CONFIG_CHANGED, CONFIG_CONSENT_REPAIR_REQUIRED,
\* BACKEND_PROXY_REVOKE_REQUIRED, LAUNCH cancelled or refused before the lease.
OpenRefused(p) == pc[p] \in {"open", "lease"} /\ Refuse(p)

------------------------------------------------------------------------------
(* The `.env` edits: read, then re-read inside a file transaction that     *)
(* applies only over the bytes read before.                                *)

Dir(p) == Canonical[job[p].base.home]

RevokeRead(p) ==
  /\ pc[p] = "revokeRead"
  /\ env[Dir(p)].text # "bad"
  /\ Goto(p, IF env[Dir(p)].block = NoBlock THEN "commit" ELSE "revokeApply")
  /\ job' = [job EXCEPT ![p].image = env[Dir(p)]]
  /\ UNCHANGED <<file, env, seen, budgets>>

RevokeApply(p) ==
  /\ pc[p] = "revokeApply"
  /\ env[Dir(p)] = job[p].image
  /\ env' = [env EXCEPT ![Dir(p)].block = NoBlock]
  /\ Goto(p, "commit")
  /\ UNCHANGED <<file, seen, job, budgets>>

\* Mutant: the lease is taken over whatever the file holds.
LeaseUnchecked(p) ==
  /\ pc[p] = "lease" /\ CanRead /\ file \in Configs
  /\ Goto(p, IF file.manage /\ job[p].base.manage THEN "prepareRead" ELSE "launching")
  /\ UNCHANGED <<file, env, seen, job, budgets>>

Lease(p) ==
  /\ pc[p] = "lease"
  /\ CanRead /\ file = job[p].base
  /\ Goto(p, IF file.manage THEN "prepareRead" ELSE "launching")
  /\ UNCHANGED <<file, env, seen, job, budgets>>

\* Mutant: any managed block counts as the current one.
PrepareReadAnyBlock(p) ==
  /\ pc[p] = "prepareRead" /\ job[p].base.home # NoHome
  /\ env[Dir(p)].text = "plain"
  /\ Goto(p, IF env[Dir(p)].block = NoBlock THEN "prepareApply" ELSE "launching")
  /\ job' = [job EXCEPT ![p].image = env[Dir(p)]]
  /\ UNCHANGED <<file, env, seen, budgets>>

PrepareRead(p) ==
  /\ pc[p] = "prepareRead"
  /\ job[p].base.home # NoHome
  /\ env[Dir(p)].text = "plain"
  /\ Goto(p, IF env[Dir(p)].block = job[p].base.port THEN "launching" ELSE "prepareApply")
  /\ job' = [job EXCEPT ![p].image = env[Dir(p)]]
  /\ UNCHANGED <<file, env, seen, budgets>>

PrepareApply(p) ==
  /\ pc[p] = "prepareApply"
  /\ env[Dir(p)] = job[p].image
  /\ env' = [env EXCEPT ![Dir(p)].block = job[p].base.port]
  /\ Goto(p, "launching")
  /\ UNCHANGED <<file, seen, job, budgets>>

\* Mutant: the consent is dropped although the block could not be removed.
EnvFailsGoOn(p) ==
  /\ pc[p] \in {"revokeRead", "revokeApply", "prepareRead", "prepareApply"}
  /\ IF job[p].op = "disable" THEN Goto(p, "commit") /\ job' = job ELSE Finish(p)
  /\ UNCHANGED <<file, env, seen, budgets>>

\* A conflict, unsupported syntax, a sharing violation or no file transactions:
\* nothing is applied and the operation ends (BACKEND_PROXY_REVOKE_FAILED keeps
\* consent; a launch stops before its submission).
EnvFails(p) ==
  /\ pc[p] \in {"revokeRead", "revokeApply", "prepareRead", "prepareApply"}
  /\ Refuse(p)

EndLaunch(p) == pc[p] = "launching" /\ Refuse(p)

------------------------------------------------------------------------------
(* Transaction::commit: rewrite in place, restore on failure.              *)

Commit(p) ==
  /\ pc[p] = "commit"
  /\ file' = job[p].next
  /\ IF job[p].op = "init" THEN Finish(p) ELSE Goto(p, "probe") /\ job' = job
  /\ UNCHANGED <<env, seen, budgets>>

\* CONFIG_WRITE_FAILED, or BACKEND_PROXY_CONSENT_SAVE_FAILED after a revocation.
CommitFails(p) ==
  /\ pc[p] = "commit"
  /\ faults < MaxFaults /\ faults' = faults + 1
  /\ Finish(p)
  /\ UNCHANGED <<file, env, seen, edits, crashes>>

\* CONFIG_ROLLBACK_FAILED: the device rejected the write and the restoration.
\* load_or_create_config then reads whatever its own creation left behind.
RollbackFails(p) ==
  /\ pc[p] \in {"commit", "createCommit"}
  /\ faults < MaxFaults /\ faults' = faults + 1
  /\ IF pc[p] = "commit"
       THEN file' \in {file, job[p].next, Marked, Plain} /\ Finish(p)
       ELSE file' \in {file, Marked, Plain} /\ Goto(p, "load") /\ job' = job
  /\ UNCHANGED <<env, seen, edits, crashes>>

------------------------------------------------------------------------------
(* The environment.                                                        *)

\* A process dies: its handles close and an uncommitted file transaction rolls
\* back.  Dying inside write_raw leaves the old bytes, the new ones, or the new
\* ones followed by the tail of a longer original.
Crash(p) ==
  /\ pc[p] # "idle"
  /\ crashes < MaxCrashes /\ crashes' = crashes + 1
  /\ IF pc[p] = "commit" THEN file' \in {file, job[p].next, Marked} ELSE file' = file
  /\ seen' = [seen EXCEPT ![p] = Unread]
  /\ Finish(p)
  /\ UNCHANGED <<env, edits, faults>>

\* Another program writes, replaces or deletes config.toml: every Guard handle
\* refuses it the write and delete access.
ExternalConfig(f) ==
  /\ ~Writing /\ ~Leased
  /\ edits < MaxEdits /\ edits' = edits + 1
  /\ file' = f
  /\ UNCHANGED <<env, pc, seen, job, faults, crashes>>

\* Another program edits a `.env`; it may drop Guard's block, never write one.
ExternalEnv(d, text) ==
  /\ edits < MaxEdits /\ edits' = edits + 1
  /\ \E b \in {env[d].block, NoBlock} : env' = [env EXCEPT ![d] = [block |-> b, text |-> text]]
  /\ UNCHANGED <<file, pc, seen, job, faults, crashes>>

External ==
  \/ \E f \in ExternalFiles : ExternalConfig(f)
  \/ \E d \in Dirs, text \in {"plain", "conflict", "bad"} : ExternalEnv(d, text)

Request(p) ==
  \/ Refresh(p) \/ Launch(p)
  \/ \E port \in Ports : SetProxy(p, port) \/ InitConfig(p, port)
  \/ \E home \in Homes : SetConsent(p, home)

Work(p) ==
  \/ Probe(p) \/ Create(p) \/ CreateCommit(p) \/ Load(p) \/ LoadFails(p)
  \/ CheckMissing(p) \/ OpenProxy(p) \/ OpenConsent(p) \/ OpenInit(p) \/ OpenRefused(p)
  \/ RevokeRead(p) \/ RevokeApply(p)
  \/ Lease(p) \/ PrepareRead(p) \/ PrepareApply(p) \/ EnvFails(p) \/ EndLaunch(p)
  \/ Commit(p) \/ CommitFails(p)

Next == (\E p \in Procs : Request(p) \/ Work(p) \/ RollbackFails(p) \/ Crash(p)) \/ External

Spec == Init /\ [][Next]_vars

------------------------------------------------------------------------------
TypeOK ==
  /\ file \in Files
  /\ env \in [Dirs -> Images]
  /\ pc \in [Procs -> Labels]
  /\ seen \in [Procs -> Snapshots]
  /\ job \in [Procs -> Jobs]
  /\ edits \in 0..MaxEdits /\ faults \in 0..MaxFaults /\ crashes \in 0..MaxCrashes

DeviceFailure == \E p \in Procs : RollbackFails(p)

\* A launch holds its lease over the configuration it was confirmed with, from
\* before the first `.env` byte to the end: no Guard and no editor can change
\* the endpoint or revoke the Home under a launch.
LeaseHolds == \A p \in Procs : pc[p] \in LeaseAt => file = job[p].base

Granted(f) == f \in Configs /\ f.manage

\* What a mutation checked when it opened the file is still there when it
\* writes: a file a reset may replace, the unusable bytes a repair saw or the
\* empty file it created, or else the expected configuration itself.
TransactionHolds ==
  \A p \in Procs : pc[p] \in {"revokeRead", "revokeApply", "commit"} =>
    /\ job[p].op = "init" => file # Marked /\ ~Granted(file)
    /\ job[p].op # "init" /\ job[p].repair => file \in {Plain, Default}
    /\ job[p].op # "init" /\ ~job[p].repair => file = job[p].base

\* A managed block is accounted for while config.toml records the authorization
\* that a revocation needs, or is unusable in a way Guard refuses to overwrite.
Accounted(d) ==
  \/ env[d].block = NoBlock
  \/ file = Marked
  \/ file \in Configs /\ Binds(file, d)

\* No step of any Guard, crashes included, makes a managed block an orphan: a
\* revocation removes the block before it drops the consent, resets and repairs
\* refuse to forget a consent, and a launch that was decided before a revocation
\* cannot write the block back after it.
KeepsAccounts == External \/ DeviceFailure \/ \A d \in Dirs : Accounted(d) => Accounted(d)'
NoGuardStepOrphansBlock == [][KeepsAccounts]_vars

Current(p) == env[Dir(p)].block = job[p].base.port

\* When a consented launch goes on to submit Desktop, the block holds the very
\* endpoint of the configuration it launches with, and no other Guard changes
\* it before the launch ends.
BlockStaysCurrent ==
  \/ External
  \/ \A p \in Procs :
       (pc'[p] = "launching" /\ job'[p].base.manage /\ (pc[p] = "launching" => Current(p)))
         => Current(p)'
LaunchSeesCurrentBlock == [][BlockStaysCurrent]_vars

\* No lost update: whatever snapshot it started from, a mutation changes the
\* endpoint or the consent of the file, never both; only a reset of a file
\* without consent and a repair replace everything.
KeepsTheRest ==
  \/ External \/ DeviceFailure
  \/ file \in Configs /\ file' \in Configs =>
       \/ file'.port = file.port
       \/ file'.manage = file.manage /\ file'.home = file.home
       \/ /\ ~file.manage /\ ~file'.manage
          /\ \E p \in Procs : pc[p] = "commit" /\ (job[p].op = "init" \/ job[p].repair)
MutationsKeepTheRest == [][KeepsTheRest]_vars

Enabling == \E p \in Procs : pc[p] = "commit" /\ job[p].op = "enable"
Repairing == \E p \in Procs : pc[p] = "commit" /\ job[p].repair /\ file = Plain

\* A file that went missing is never recreated with the consent of an older
\* snapshot: consent appears on disk by an enabling or over unusable bytes.
GrantsLegibly ==
  External \/ DeviceFailure \/ (Granted(file') /\ ~Granted(file) => Enabling \/ Repairing)
MissingFileLosesConsent == [][GrantsLegibly]_vars

\* The inductive invariant behind the properties above: handles exclude each
\* other, an open file exists, jobs have the shape their operation gave them,
\* and a revocation that reached its commit has no block left.
Exclusion ==
  /\ \A p, q \in Procs : pc[p] \in WriterAt /\ pc[q] \in WriterAt \cup LeaseAt => p = q
  /\ Writing \/ Leased => file # Missing

Fits(label, j) ==
  /\ label \in {"open", "commit"} => j.op \in {"init", "proxy", "enable", "disable"}
  /\ label = "missing" => j.op = "proxy"
  /\ label \in {"revokeRead", "revokeApply"} => j.op = "disable"
  /\ label \in {"revokeRead", "revokeApply", "commit"} /\ j.op = "disable" => j.base.home # NoHome
  /\ label \in {"lease"} \cup LeaseAt => j.op = "launch"
  /\ label \in {"prepareRead", "prepareApply"} => j.base.manage
  /\ label = "prepareApply" => j.base.home # NoHome
  /\ j.op = "proxy" => j.next.manage = j.base.manage /\ j.next.home = j.base.home
  /\ j.op = "enable" => ~j.base.manage /\ j.next.port = j.base.port
  /\ j.op = "disable" => ~j.next.manage /\ j.next.port = j.base.port
  /\ j.op = "init" => ~j.next.manage
  /\ j.repair => j.op = "proxy"

JobShape ==
  \A p \in Procs :
    /\ Fits(pc[p], job[p])
    /\ pc[p] = "commit" /\ job[p].repair /\ job[p].base.manage => file = Plain

Revoked ==
  \A p \in Procs : pc[p] = "commit" /\ job[p].op = "disable" => env[Dir(p)].block = NoBlock

Inv == TypeOK /\ Exclusion /\ JobShape /\ LeaseHolds /\ TransactionHolds /\ Revoked

\* docs/TROUBLESHOOTING.md:38-40: a consented repair of a file that disappeared is
\* refused "and the file is left absent".
RefusedRepairLeavesFileAbsent ==
  [][\A p \in Procs :
       (job[p].repair /\ pc[p] \in {"missing", "open"} /\ pc'[p] = "idle" /\ file = Missing)
         => file' = Missing]_vars
==============================================================================
