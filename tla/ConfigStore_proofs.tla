-------------------------- MODULE ConfigStore_proofs --------------------------
(***************************************************************************)
(* Theorems about ConfigStore for every number of Guard processes, every   *)
(* set of Homes and endpoints, every way Homes alias each other and every  *)
(* bound on edits, failures and crashes.                                   *)
(***************************************************************************)
EXTENDS ConfigStore, TLAPS

LEMMA Typed ==
  /\ Default \in Configs /\ NoJob \in Jobs /\ Unread \in Snapshots
  /\ Default # Missing /\ Default # Marked /\ Default # Plain
  /\ Configs \subseteq Files
  /\ Missing \in Files /\ Marked \in Files /\ Plain \in Files
<1>1. Default \in Configs
  BY ConstantsAssumption DEF Default, Configs
<1>2. NoJob \in Jobs
  BY <1>1 DEF NoJob, Jobs, Ops, Images
<1>3. Unread \in Snapshots
  BY <1>1 DEF Unread, Snapshots
<1> QED BY <1>1, <1>2, <1>3, ConstantsAssumption DEF Files

LEMMA InitType == Init => TypeOK
BY Typed, ConstantsAssumption DEF Init, TypeOK, Labels, Images

\* The home directory of a job is a directory, once the home is a real one.
LEMMA DirTyped ==
  ASSUME TypeOK, NEW p \in Procs, job[p].base.home # NoHome
  PROVE  Dir(p) \in Dirs /\ job[p].base.home \in Homes
BY ConstantsAssumption DEF TypeOK, Jobs, Configs, Dir, Dirs

LEMMA RequestType == ASSUME TypeOK, NEW p \in Procs, Request(p) PROVE TypeOK'
<1>1. \A label \in Labels, j \in Jobs : Begin(p, label, j) => TypeOK'
  BY DEF TypeOK, Begin, Goto, budgets
<1>2. CASE Refresh(p)
  <2>1. [NoJob EXCEPT !.op = "refresh"] \in Jobs
    BY Typed DEF Jobs, Ops
  <2> QED BY <1>1, <1>2, <2>1 DEF Refresh, Labels
<1>3. CASE Launch(p)
  <2>1. [NoJob EXCEPT !.op = "launch", !.base = seen[p].config] \in Jobs
    BY Typed DEF Jobs, Ops, TypeOK, Snapshots
  <2> QED BY <1>1, <1>3, <2>1 DEF Launch, Labels
<1>4. ASSUME NEW port \in Ports, SetProxy(p, port) PROVE TypeOK'
  <2> DEFINE j == [NoJob EXCEPT !.op = "proxy", !.base = seen[p].config, !.repair = seen[p].invalid,
                                !.next = [seen[p].config EXCEPT !.port = port]]
  <2>1. j \in Jobs
    BY Typed DEF Jobs, Ops, TypeOK, Snapshots, Configs
  <2> QED BY <1>1, <1>4, <2>1 DEF SetProxy, Labels
<1>5. ASSUME NEW port \in Ports, InitConfig(p, port) PROVE TypeOK'
  <2>1. [NoJob EXCEPT !.op = "init", !.next = [Default EXCEPT !.port = port]] \in Jobs
    BY Typed DEF Jobs, Ops, Configs
  <2> QED BY <1>1, <1>5, <2>1 DEF InitConfig, Labels
<1>6. ASSUME NEW home \in Homes, SetConsent(p, home) PROVE TypeOK'
  <2> DEFINE c == seen[p].config
  <2>1. c \in Configs
    BY DEF TypeOK, Snapshots
  <2>2. [NoJob EXCEPT !.op = "disable", !.base = c, !.next = [c EXCEPT !.manage = FALSE, !.home = NoHome]] \in Jobs
    BY Typed, <2>1 DEF Jobs, Ops, Configs
  <2>3. [NoJob EXCEPT !.op = "enable", !.base = c, !.next = [c EXCEPT !.manage = TRUE, !.home = home]] \in Jobs
    BY Typed, <2>1 DEF Jobs, Ops, Configs
  <2> HIDE DEF c
  <2>4. Begin(p, "open", [NoJob EXCEPT !.op = "disable", !.base = c, !.next = [c EXCEPT !.manage = FALSE, !.home = NoHome]])
        \/ Begin(p, "open", [NoJob EXCEPT !.op = "enable", !.base = c, !.next = [c EXCEPT !.manage = TRUE, !.home = home]])
    BY <1>6 DEF SetConsent, c
  <2> QED BY <1>1, <2>2, <2>3, <2>4 DEF Labels
<1> QED BY <1>2, <1>3, <1>4, <1>5, <1>6 DEF Request

LEMMA WorkType == ASSUME TypeOK, JobShape, NEW p \in Procs, Work(p) PROVE TypeOK'
<1>0. (pc[p] \in {"revokeRead", "revokeApply", "prepareApply"} \/ PrepareRead(p)) =>
        job[p].base.home # NoHome /\ Dir(p) \in Dirs /\ env[Dir(p)] \in Images
  BY DirTyped DEF JobShape, Fits, PrepareRead, TypeOK
<1> USE Typed DEF TypeOK, Goto, Finish, Refuse, budgets, Labels
<1>1. CASE Probe(p)           BY <1>1 DEF Probe
<1>2. CASE Create(p)          BY <1>2 DEF Create
<1>3. CASE CreateCommit(p)    BY <1>3 DEF CreateCommit
<1>4. \A invalid \in BOOLEAN : Unreadable(p, invalid) \in Snapshots
  BY DEF Unreadable, Snapshots, Jobs
<1>5. CASE Load(p)
  <2> DEFINE s == IF file \in Configs THEN [ready |-> TRUE, invalid |-> FALSE, config |-> file]
                                      ELSE Unreadable(p, TRUE)
  <2>1. s \in Snapshots       BY <1>4 DEF Snapshots
  <2> QED BY <1>5, <2>1 DEF Load, Publish
<1>6. CASE LoadFails(p)       BY <1>4, <1>6 DEF LoadFails, Publish
<1>7. CASE CheckMissing(p)    BY <1>7 DEF CheckMissing
<1>8. CASE OpenProxy(p)       BY <1>8 DEF OpenProxy
<1>9. CASE OpenConsent(p)     BY <1>9 DEF OpenConsent
<1>10. CASE OpenInit(p)       BY <1>10 DEF OpenInit
<1>11. CASE OpenRefused(p)   BY <1>11 DEF OpenRefused
<1>12. CASE RevokeRead(p) \/ PrepareRead(p)
  <2>1. env[Dir(p)] \in Images
    BY <1>0, <1>12 DEF RevokeRead
  <2>2. [job EXCEPT ![p].image = env[Dir(p)]] \in [Procs -> Jobs]
    BY <2>1 DEF Jobs
  <2> QED BY <1>12, <2>2 DEF RevokeRead, PrepareRead
<1>13. CASE RevokeApply(p)
  <2>1. [env EXCEPT ![Dir(p)].block = NoBlock] \in [Dirs -> Images]
    BY DEF Images
  <2> QED BY <1>13, <2>1 DEF RevokeApply
<1>14. CASE Lease(p)          BY <1>14 DEF Lease
<1>15. CASE PrepareApply(p)
  <2>1. job[p].base.port \in Ports
    BY DEF Jobs, Configs
  <2>2. [env EXCEPT ![Dir(p)].block = job[p].base.port] \in [Dirs -> Images]
    BY <2>1 DEF Images
  <2> QED BY <1>15, <2>2 DEF PrepareApply
<1>16. CASE EnvFails(p)       BY <1>16 DEF EnvFails
<1>17. CASE EndLaunch(p)      BY <1>17 DEF EndLaunch
<1>18. CASE Commit(p)
  <2>1. job[p].next \in Files
    BY DEF Jobs
  <2>2. \/ job' = [job EXCEPT ![p] = NoJob] /\ pc' = [pc EXCEPT ![p] = "idle"]
        \/ job' = job /\ pc' = [pc EXCEPT ![p] = "probe"]
    BY <1>18 DEF Commit
  <2> QED BY <1>18, <2>1, <2>2 DEF Commit
<1>19. CASE CommitFails(p)    BY <1>19, ConstantsAssumption DEF CommitFails
<1> QED BY <1>1, <1>2, <1>3, <1>5, <1>6, <1>7, <1>8, <1>9, <1>10, <1>11, <1>12, <1>13, <1>14,
           <1>15, <1>16, <1>17, <1>18, <1>19 DEF Work
LEMMA EnvironmentType ==
  ASSUME TypeOK, External \/ (\E p \in Procs : RollbackFails(p) \/ Crash(p))
  PROVE  TypeOK'
<1> USE Typed DEF TypeOK, Goto, Finish, Labels
<1>1. CASE External
  <2>1. ASSUME NEW f \in ExternalFiles, ExternalConfig(f) PROVE TypeOK'
    BY <2>1, ConstantsAssumption DEF ExternalConfig
  <2>2. ASSUME NEW d \in Dirs, NEW text \in {"plain", "conflict", "bad"}, ExternalEnv(d, text)
        PROVE  TypeOK'
    <3>1. PICK b \in {env[d].block, NoBlock} : env' = [env EXCEPT ![d] = [block |-> b, text |-> text]]
      BY <2>2 DEF ExternalEnv
    <3>2. [block |-> b, text |-> text] \in Images
      BY DEF Images
    <3> QED BY <2>2, <3>1, <3>2, ConstantsAssumption DEF ExternalEnv
  <2> QED BY <1>1, <2>1, <2>2 DEF External
<1>2. ASSUME NEW p \in Procs, RollbackFails(p) PROVE TypeOK'
  <2>1. job[p].next \in Files
    BY DEF Jobs
  <2> QED BY <1>2, <2>1, ConstantsAssumption DEF RollbackFails
<1>3. ASSUME NEW p \in Procs, Crash(p) PROVE TypeOK'
  <2>1. job[p].next \in Files
    BY DEF Jobs
  <2> QED BY <1>3, <2>1, ConstantsAssumption DEF Crash
<1> QED BY <1>1, <1>2, <1>3

LEMMA NextType == ASSUME TypeOK, JobShape, [Next]_vars PROVE TypeOK'
<1>1. CASE UNCHANGED vars
  BY <1>1 DEF TypeOK, vars
<1> QED BY <1>1, RequestType, WorkType, EnvironmentType DEF Next

-------------------------------------------------------------------------------
(* The rest of the inductive invariant.  A step is at one process: the rest   *)
(* keep their label and their job.                                            *)

\* Requests start an operation and touch no file.
LEMMA RequestInv == ASSUME Inv, NEW p \in Procs, Request(p) PROVE Inv'
<1>0. TypeOK /\ TypeOK'
  BY RequestType DEF Inv
<1>1. /\ UNCHANGED <<file, env>>
      /\ pc[p] = "idle"
      /\ \E label \in {"probe", "missing", "open", "lease"} : pc' = [pc EXCEPT ![p] = label]
      /\ \E j \in Jobs : job' = [job EXCEPT ![p] = j]
  <2>1. job'[p] \in Jobs
    BY <1>0 DEF TypeOK
  <2>2. job' = [job EXCEPT ![p] = job'[p]]
    BY <1>0 DEF TypeOK, Request, Refresh, Launch, SetProxy, InitConfig, SetConsent, Begin
  <2> QED BY <2>1, <2>2 DEF Request, Refresh, Launch, SetProxy, InitConfig, SetConsent, Begin, Goto
<1>2. \A q \in Procs \ {p} : pc'[q] = pc[q] /\ job'[q] = job[q]
  BY <1>0, <1>1 DEF TypeOK
<1>3. pc'[p] \in {"probe", "missing", "open", "lease"}
  BY <1>0, <1>1 DEF TypeOK
<1>4. JobShape'
  <2> DEFINE c == seen[p].config
  <2>0. c \in Configs /\ Default \in Configs
    BY <1>0, Typed DEF TypeOK, Snapshots
  <2> USE <1>0 DEF Fits, LeaseAt, Begin, Goto
  <2>1. pc \in [Procs -> Labels] /\ job \in [Procs -> Jobs]
    BY DEF TypeOK
  <2>2. Refresh(p) => Fits(pc'[p], job'[p])
    BY <2>1 DEF Refresh, NoJob
  <2>3. Launch(p) => Fits(pc'[p], job'[p])
    BY <2>1 DEF Launch, NoJob
  <2>4. ASSUME NEW port \in Ports, SetProxy(p, port) PROVE Fits(pc'[p], job'[p])
    BY <2>0, <2>1, <2>4 DEF SetProxy, NoJob, Configs
  <2>5. ASSUME NEW port \in Ports, InitConfig(p, port) PROVE Fits(pc'[p], job'[p])
    BY <2>0, <2>1, <2>5 DEF InitConfig, NoJob, Configs, Default
  <2>6. ASSUME NEW home \in Homes, SetConsent(p, home) PROVE Fits(pc'[p], job'[p])
    BY <2>0, <2>1, <2>6 DEF SetConsent, NoJob, Configs
  <2>7. Fits(pc'[p], job'[p])
    BY <2>2, <2>3, <2>4, <2>5, <2>6 DEF Request
  <2> QED BY <1>1, <1>2, <1>3, <2>7 DEF Inv, JobShape
<1> USE <1>1, <1>2, <1>3
<1>5. Exclusion' /\ LeaseHolds' /\ TransactionHolds'
  BY DEF Inv, Exclusion, Writing, Leased, WriterAt, LeaseAt, LeaseHolds, TransactionHolds, Granted
<1>6. Revoked'
  BY DEF Inv, Revoked, Dir
<1> QED BY <1>0, <1>4, <1>5, <1>6 DEF Inv

\* Ending an operation closes its handle and changes no file.
LEMMA FinishInv ==
  ASSUME Inv, TypeOK', NEW p \in Procs, Finish(p), UNCHANGED <<file, env>>
  PROVE  Inv'
<1>1. /\ \A q \in Procs \ {p} : pc'[q] = pc[q] /\ job'[q] = job[q]
      /\ pc'[p] = "idle" /\ job'[p] = NoJob
  BY DEF Inv, TypeOK, Finish, Goto
<1>2. Fits("idle", NoJob)
  BY DEF Fits, NoJob, LeaseAt
<1>3. Exclusion' /\ LeaseHolds' /\ TransactionHolds' /\ Revoked'
  BY <1>1 DEF Inv, Exclusion, Writing, Leased, WriterAt, LeaseAt, LeaseHolds, TransactionHolds, Granted, Revoked, Dir
<1>4. JobShape'
  BY <1>1, <1>2 DEF Inv, JobShape
<1> QED BY <1>3, <1>4 DEF Inv

LEMMA WorkInv == ASSUME Inv, NEW p \in Procs, Work(p) PROVE Inv'
<1>0. TypeOK /\ TypeOK'
  BY WorkType DEF Inv
<1>5. CASE Load(p)            BY <1>5, <1>0, FinishInv DEF Load, Publish
<1>6. CASE LoadFails(p)       BY <1>6, <1>0, FinishInv DEF LoadFails, Publish
<1>11. CASE OpenRefused(p) BY <1>11, <1>0, FinishInv DEF OpenRefused, Refuse, budgets
<1>17. CASE EnvFails(p) BY <1>17, <1>0, FinishInv DEF EnvFails, Refuse, budgets
<1>18. CASE EndLaunch(p) BY <1>18, <1>0, FinishInv DEF EndLaunch, Refuse, budgets
<1>20. CASE CommitFails(p)    BY <1>20, <1>0, FinishInv DEF CommitFails
<1> USE <1>0, Typed DEF Inv, TypeOK, Exclusion, JobShape, Fits, LeaseHolds, TransactionHolds, Revoked,
        Writing, Leased, CanRead, CanWrite, WriterAt, LeaseAt, Granted, Dir, Goto, Finish, Refuse, budgets, NoJob
<1>1. CASE Probe(p)           BY <1>1 DEF Probe
<1>2. CASE Create(p)          BY <1>2 DEF Create
<1>3. CASE CreateCommit(p)    BY <1>3 DEF CreateCommit
<1>7. CASE CheckMissing(p)    BY <1>7, <1>0, FinishInv DEF CheckMissing
<1>8. CASE OpenProxy(p)       BY <1>8 DEF OpenProxy
<1>9. CASE OpenConsent(p)
  <2>1. Exclusion'         BY <1>9 DEF OpenConsent
  <2>2. JobShape'          BY <1>9, ConstantsAssumption DEF OpenConsent, ConsentHome, Jobs
  <2>3. LeaseHolds'        BY <1>9 DEF OpenConsent
  <2>4. TransactionHolds'  BY <1>9 DEF OpenConsent
  <2>5. Revoked'           BY <1>9 DEF OpenConsent
  <2> QED BY <2>1, <2>2, <2>3, <2>4, <2>5
<1>10. CASE OpenInit(p)
  <2>1. Exclusion'         BY <1>10 DEF OpenInit
  <2>2. JobShape'          BY <1>10 DEF OpenInit
  <2>3. LeaseHolds'        BY <1>10 DEF OpenInit
  <2>4. TransactionHolds'  BY <1>10 DEF OpenInit, Default
  <2>5. Revoked'           BY <1>10 DEF OpenInit
  <2> QED BY <2>1, <2>2, <2>3, <2>4, <2>5
<1>12. CASE RevokeRead(p)
  <2>1. Exclusion'         BY <1>12 DEF RevokeRead
  <2>2. JobShape'          BY <1>12 DEF RevokeRead
  <2>3. LeaseHolds'        BY <1>12 DEF RevokeRead
  <2>4. TransactionHolds'  BY <1>12 DEF RevokeRead
  <2>5. Revoked'           BY <1>12 DEF RevokeRead
  <2> QED BY <2>1, <2>2, <2>3, <2>4, <2>5
<1>13. CASE RevokeApply(p)    BY <1>13 DEF RevokeApply
<1>14. CASE Lease(p)          BY <1>14 DEF Lease
<1>15. CASE PrepareRead(p)
  <2>1. Exclusion'         BY <1>15 DEF PrepareRead
  <2>2. JobShape'          BY <1>15 DEF PrepareRead
  <2>3. LeaseHolds'        BY <1>15 DEF PrepareRead
  <2>4. TransactionHolds'  BY <1>15 DEF PrepareRead
  <2>5. Revoked'           BY <1>15 DEF PrepareRead
  <2> QED BY <2>1, <2>2, <2>3, <2>4, <2>5
<1>16. CASE PrepareApply(p)   BY <1>16 DEF PrepareApply
<1>19. CASE Commit(p)         BY <1>19 DEF Commit
<1> QED BY <1>1, <1>2, <1>3, <1>5, <1>6, <1>7, <1>8, <1>9, <1>10, <1>11, <1>12, <1>13, <1>14,
           <1>15, <1>16, <1>17, <1>18, <1>19, <1>20 DEF Work

\* Crashes close handles; failures and crashes rewrite the file only under the
\* exclusive handle; other programs write config.toml only when no Guard holds
\* it, and never write a managed block.
LEMMA EnvironmentInv ==
  ASSUME Inv, External \/ (\E p \in Procs : RollbackFails(p) \/ Crash(p))
  PROVE  Inv'
<1>0. TypeOK /\ TypeOK'
  BY EnvironmentType DEF Inv
<1> USE <1>0, Typed DEF Inv, TypeOK, Exclusion, JobShape, Fits, LeaseHolds, TransactionHolds, Revoked,
        Writing, Leased, WriterAt, LeaseAt, Granted, Dir, Goto, Finish, NoJob
<1>1. ASSUME NEW f \in ExternalFiles, ExternalConfig(f) PROVE Inv'
  BY <1>1 DEF ExternalConfig
<1>2. ASSUME NEW d \in Dirs, NEW text \in {"plain", "conflict", "bad"}, ExternalEnv(d, text)
      PROVE  Inv'
  <2>1. \A c \in Dirs : env[c].block = NoBlock => env'[c].block = NoBlock
    BY <1>2 DEF ExternalEnv
  <2>2. \A p \in Procs : pc[p] = "commit" /\ job[p].op = "disable" => Dir(p) \in Dirs
    BY DirTyped
  <2> QED BY <1>2, <2>1, <2>2 DEF ExternalEnv
<1>3. ASSUME NEW p \in Procs, RollbackFails(p) PROVE Inv'
  BY <1>3 DEF RollbackFails
<1>4. ASSUME NEW p \in Procs, Crash(p) PROVE Inv'
  BY <1>4 DEF Crash
<1> QED BY <1>1, <1>2, <1>3, <1>4 DEF External

LEMMA InitInv == Init => Inv
<1>1. SUFFICES ASSUME Init PROVE Inv
  OBVIOUS
<1>2. TypeOK
  BY <1>1, InitType
<1> QED BY <1>1, <1>2
        DEF Init, Inv, Exclusion, Writing, Leased, WriterAt, LeaseAt, JobShape, Fits, NoJob,
            LeaseHolds, TransactionHolds, Revoked

LEMMA NextInv == Inv /\ [Next]_vars => Inv'
<1> SUFFICES ASSUME Inv, [Next]_vars PROVE Inv'
  OBVIOUS
<1>1. CASE UNCHANGED vars
  BY <1>1 DEF vars, Inv, TypeOK, Exclusion, Writing, Leased, JobShape, LeaseHolds, TransactionHolds,
              Granted, Revoked, Dir
<1> QED BY <1>1, RequestInv, WorkInv, EnvironmentInv DEF Next

\* The inductive invariant holds: handles exclude each other and every job is
\* still about the file it opened.
THEOREM Invariance == Spec => []Inv
BY InitInv, NextInv, PTL DEF Spec

\* Every variable keeps its type.
THEOREM TypeCorrect == Spec => []TypeOK
BY Invariance, PTL DEF Inv

\* A launch's configuration cannot change while its lease is held.
THEOREM LeaseSafe == Spec => []LeaseHolds
BY Invariance, PTL DEF Inv

\* A mutation writes over exactly what it checked.
THEOREM TransactionSafe == Spec => []TransactionHolds
BY Invariance, PTL DEF Inv

-------------------------------------------------------------------------------
(* What a step may never do.  A Guard step that writes config.toml is one of  *)
(* four, under the exclusive handle; two others write a `.env`.               *)

LEMMA StepShape ==
  ASSUME TypeOK, NEW p \in Procs, Request(p) \/ Work(p)
  PROVE  \/ UNCHANGED <<file, env>>
         \/ RevokeApply(p) /\ file' = file
         \/ PrepareApply(p) /\ file' = file
         \/ file = Missing /\ file' = Default /\ env' = env
         \/ Commit(p) /\ env' = env
<1>1. CASE Request(p)
  BY <1>1 DEF Request, Refresh, Launch, SetProxy, InitConfig, SetConsent, Begin
<1>2. CASE Work(p)
  BY <1>2 DEF Work, Probe, Create, CreateCommit, Load, LoadFails, Publish, CheckMissing, OpenProxy,
              OpenConsent, OpenInit, OpenRefused, RevokeRead, RevokeApply, Lease, PrepareRead,
              PrepareApply, EnvFails, EndLaunch, Commit, CommitFails, Refuse
<1> QED BY <1>1, <1>2

LEMMA OrphanStep == ASSUME Inv, [Next]_vars PROVE [KeepsAccounts]_vars
<1> USE DEF KeepsAccounts
<1>1. SUFFICES ASSUME Next, ~External, ~DeviceFailure, NEW d \in Dirs, Accounted(d)
               PROVE  Accounted(d)'
  BY DEF vars
<1>2. PICK p \in Procs : Request(p) \/ Work(p) \/ Crash(p)
  BY <1>1 DEF Next, DeviceFailure
<1>3. CASE UNCHANGED <<file, env>>
  BY <1>1, <1>3 DEF Accounted
<1>4. CASE RevokeApply(p) /\ file' = file
  BY <1>1, <1>4 DEF Accounted, RevokeApply, Inv, TypeOK, Images
<1>5. CASE PrepareApply(p) /\ file' = file
  <2>1. pc[p] = "prepareApply" /\ file = job[p].base /\ file \in Configs /\ Binds(file, Dir(p))
    BY <1>5 DEF PrepareApply, Inv, LeaseHolds, LeaseAt, JobShape, Fits, TypeOK, Jobs, Binds, Dir
  <2>2. d # Dir(p) => env'[d] = env[d]
    BY <1>5 DEF PrepareApply, Inv, TypeOK
  <2> QED BY <1>1, <1>5, <2>1, <2>2 DEF Accounted
<1>6. CASE file = Missing /\ file' = Default /\ env' = env
  BY <1>1, <1>6, ConstantsAssumption DEF Accounted
<1>7. CASE pc[p] = "commit" /\ file' \in {file, job[p].next, Marked} /\ env' = env
  <2>1. job[p].op \in {"init", "proxy", "enable", "disable"} /\ job[p].base \in Configs /\ job[p].next \in Configs
    BY <1>7 DEF Inv, TypeOK, Jobs, JobShape, Fits
  <2>2. CASE job[p].op = "init"
    BY <1>1, <1>7, <2>2 DEF Inv, TransactionHolds, Granted, Accounted, Binds
  <2>3. CASE job[p].op = "proxy" /\ ~job[p].repair
    <3>1. /\ file = job[p].base
          /\ job[p].next.manage = file.manage /\ job[p].next.home = file.home
      BY <1>7, <2>3 DEF Inv, TransactionHolds, JobShape, Fits
    <3> QED BY <1>1, <1>7, <2>1, <3>1, ConstantsAssumption DEF Accounted, Binds
  <2>4. CASE job[p].op = "proxy" /\ job[p].repair
    <3>1. file \in {Plain, Default}
      BY <1>7, <2>4 DEF Inv, TransactionHolds
    <3>2. env[d].block = NoBlock
      BY <1>1, <3>1, Typed, ConstantsAssumption DEF Accounted, Binds, Default
    <3> QED BY <1>7, <3>2 DEF Accounted
  <2>5. CASE job[p].op = "enable"
    BY <1>1, <1>7, <2>1, <2>5, ConstantsAssumption DEF Inv, TransactionHolds, JobShape, Fits, Accounted, Binds
  <2>6. CASE job[p].op = "disable"
    <3>1. file = job[p].base /\ env[Dir(p)].block = NoBlock
      BY <1>7, <2>6 DEF Inv, TransactionHolds, JobShape, Fits, Revoked
    <3>2. env[d].block = NoBlock
      BY <1>1, <2>1, <3>1, ConstantsAssumption DEF Accounted, Binds, Dir
    <3> QED BY <1>7, <3>2 DEF Accounted
  <2> QED BY <2>1, <2>2, <2>3, <2>4, <2>5, <2>6
<1>8. CASE Crash(p)
  BY <1>3, <1>7, <1>8 DEF Crash
<1>9. CASE Commit(p) /\ env' = env
  BY <1>7, <1>9 DEF Commit
<1> QED BY <1>2, <1>3, <1>4, <1>5, <1>6, <1>8, <1>9, StepShape DEF Inv

\* Whatever Guards, Homes and aliases there are, no Guard step leaves a managed
\* block without the authorization needed to revoke it.
THEOREM NoOrphans == Spec => NoGuardStepOrphansBlock
BY Invariance, OrphanStep, PTL DEF Spec, NoGuardStepOrphansBlock

\* What the writer of config.toml turns one usable configuration into.
LEMMA CommitStep ==
  ASSUME Inv, Next, ~External, ~DeviceFailure, file' # file
  PROVE  \/ file = Missing /\ file' = Default
         \/ \E p \in Procs : /\ pc[p] = "commit"
                            /\ file' \in {job[p].next, Marked}
                            /\ job[p].op \in {"init", "proxy", "enable", "disable"}
<1>1. PICK p \in Procs : Request(p) \/ Work(p) \/ Crash(p)
  BY DEF Next, DeviceFailure
<1>2. CASE Crash(p)
  BY <1>2 DEF Crash, Inv, JobShape, Fits
<1>3. CASE Request(p) \/ Work(p)
  BY <1>3, StepShape DEF Inv, Commit, JobShape, Fits
<1> QED BY <1>1, <1>2, <1>3

LEMMA RestStep == ASSUME Inv, [Next]_vars PROVE [KeepsTheRest]_vars
<1>1. SUFFICES ASSUME Next, ~External, ~DeviceFailure, file # file', file \in Configs, file' \in Configs
               PROVE  KeepsTheRest
  BY DEF KeepsTheRest, vars
<1>2. PICK p \in Procs : /\ pc[p] = "commit" /\ file' = job[p].next
                         /\ job[p].op \in {"init", "proxy", "enable", "disable"}
  BY <1>1, CommitStep, ConstantsAssumption
<1>3. CASE job[p].op = "init"
  BY <1>1, <1>2, <1>3 DEF KeepsTheRest, Inv, TransactionHolds, Granted, JobShape, Fits
<1>4. CASE job[p].repair /\ job[p].op = "proxy"
  <2>1. file = Default /\ ~file.manage
    BY <1>1, <1>2, <1>4, ConstantsAssumption DEF Inv, TransactionHolds, Default
  <2>2. ~file'.manage
    BY <1>2, <1>4, <2>1, Typed DEF Inv, JobShape, Fits, TypeOK, Jobs, Configs
  <2> QED BY <1>2, <1>4, <2>1, <2>2 DEF KeepsTheRest
<1>5. CASE ~job[p].repair /\ job[p].op # "init"
  <2>1. file = job[p].base
    BY <1>2, <1>5 DEF Inv, TransactionHolds
  <2> QED BY <1>2, <1>5, <2>1 DEF KeepsTheRest, Inv, JobShape, Fits
<1> QED BY <1>2, <1>3, <1>4, <1>5 DEF Inv, JobShape, Fits

\* No mutation loses another one's update, however stale its snapshot.
THEOREM NoLostUpdate == Spec => MutationsKeepTheRest
BY Invariance, RestStep, PTL DEF Spec, MutationsKeepTheRest

LEMMA GrantStep == ASSUME Inv, [Next]_vars PROVE [GrantsLegibly]_vars
<1>1. SUFFICES ASSUME Next, ~External, ~DeviceFailure, Granted(file'), ~Granted(file)
               PROVE  Enabling \/ Repairing
  BY DEF GrantsLegibly, vars, Granted
<1>2. PICK p \in Procs : /\ pc[p] = "commit" /\ file' = job[p].next /\ job[p].next.manage
                         /\ job[p].op \in {"init", "proxy", "enable", "disable"}
  BY <1>1, CommitStep, Typed, ConstantsAssumption DEF Granted, Default
<1>3. job[p].op \notin {"init", "disable"}
  BY <1>2 DEF Inv, JobShape, Fits
<1>4. CASE job[p].op = "enable"
  BY <1>2, <1>4 DEF Enabling
<1>5. CASE job[p].op = "proxy"
  <2>1. job[p].base.manage
    BY <1>2, <1>5 DEF Inv, JobShape, Fits
  <2>2. CASE job[p].repair
    BY <1>2, <2>1, <2>2 DEF Inv, JobShape, Repairing
  <2>3. CASE ~job[p].repair
    BY <1>1, <1>2, <1>5, <2>1, <2>3 DEF Inv, TransactionHolds, Granted, TypeOK, Jobs
  <2> QED BY <2>2, <2>3
<1> QED BY <1>2, <1>3, <1>4, <1>5

\* A missing file comes back without the consent of an older snapshot.
THEOREM NoConsentRecreated == Spec => MissingFileLosesConsent
BY Invariance, GrantStep, PTL DEF Spec, MissingFileLosesConsent

LEMMA CurrentStep == ASSUME Inv, [Next]_vars PROVE [BlockStaysCurrent]_vars
<1>1. SUFFICES ASSUME Next, ~External, NEW p \in Procs, pc'[p] = "launching", job'[p].base.manage,
                      pc[p] = "launching" => Current(p)
               PROVE  Current(p)'
  BY DEF BlockStaysCurrent, vars
<1>2. PICK q \in Procs : Request(q) \/ Work(q) \/ RollbackFails(q) \/ Crash(q)
  BY <1>1 DEF Next
<1>3. q # p => pc'[p] = pc[p] /\ job'[p] = job[p]
  BY <1>2 DEF Inv, TypeOK, Request, Refresh, Launch, SetProxy, InitConfig, SetConsent, Begin,
              Work, Probe, Create, CreateCommit, Load, LoadFails, Publish, CheckMissing, OpenProxy,
              OpenConsent, OpenInit, OpenRefused, RevokeRead, RevokeApply, Lease, PrepareRead,
              PrepareApply, EnvFails, EndLaunch, Commit, CommitFails, Refuse, RollbackFails, Crash, Finish, Goto
<1>4. CASE pc[p] = "launching"
  <2>1. /\ file = job[p].base /\ file.manage /\ q # p
        /\ env[Dir(p)].block = job[p].base.port
    <3>1. q # p
      BY <1>1, <1>2, <1>4
      DEF Inv, TypeOK, Request, Refresh, Launch, SetProxy, InitConfig, SetConsent, Begin,
          Work, Probe, Create, CreateCommit, Load, LoadFails, Publish, CheckMissing, OpenProxy,
          OpenConsent, OpenInit, OpenRefused, RevokeRead, RevokeApply, Lease, PrepareRead,
          PrepareApply, EnvFails, EndLaunch, Commit, CommitFails, Refuse, RollbackFails, Crash, Finish, Goto
    <3> QED BY <1>1, <1>3, <1>4, <3>1 DEF Current, Inv, LeaseHolds, LeaseAt
  <2>2. CASE env' = env
    BY <1>3, <2>1, <2>2 DEF Current, Dir
  <2>3. CASE RevokeApply(q)
    BY <1>4, <2>1, <2>3 DEF RevokeApply, Inv, Exclusion, WriterAt, LeaseAt
  <2>4. CASE PrepareApply(q)
    <3>1. job[q].base = file
      BY <2>4 DEF PrepareApply, Inv, LeaseHolds, LeaseAt
    <3>2. Dir(q) = Dir(p) /\ job[q].base.port = job[p].base.port
      BY <2>1, <3>1 DEF Dir
    <3>3. env' = [env EXCEPT ![Dir(p)].block = job[p].base.port]
      BY <2>4, <3>2 DEF PrepareApply
    <3>4. Dir(p) \in Dirs /\ env \in [Dirs -> Images]
      BY <2>4, <3>1, <3>2, DirTyped DEF PrepareApply, Inv, JobShape, Fits, TypeOK
    <3>5. env'[Dir(p)].block = job[p].base.port
      BY <3>3, <3>4 DEF Images
    <3> QED BY <1>3, <2>1, <3>5 DEF Current, Dir
  <2> QED BY <1>2, <2>2, <2>3, <2>4, StepShape DEF Inv, RollbackFails, Crash
<1>5. CASE pc[p] # "launching"
  <2>1. Lease(p) \/ PrepareRead(p) \/ PrepareApply(p)
    <3>1. q = p
      BY <1>1, <1>3, <1>5
    <3> QED BY <1>1, <1>2, <1>5, <3>1
      DEF Inv, TypeOK, Request, Refresh, Launch, SetProxy, InitConfig, SetConsent, Begin,
          Work, Probe, Create, CreateCommit, Load, LoadFails, Publish, CheckMissing, OpenProxy,
          OpenConsent, OpenInit, OpenRefused, RevokeRead, RevokeApply,
          EnvFails, EndLaunch, Commit, CommitFails, Refuse, RollbackFails, Crash, Finish, Goto
  <2>2. CASE Lease(p)
    BY <1>1, <2>2 DEF Lease, Goto, Inv, TypeOK
  <2>3. CASE PrepareRead(p)
    BY <1>1, <2>3 DEF PrepareRead, Goto, Inv, TypeOK, Jobs, Current, Dir
  <2>4. CASE PrepareApply(p)
    <3>1. Dir(p) \in Dirs /\ env \in [Dirs -> Images] /\ job' = job
      BY <2>4, DirTyped DEF PrepareApply, Inv, JobShape, Fits, TypeOK
    <3> QED BY <2>4, <3>1 DEF PrepareApply, Images, Current, Dir
  <2> QED BY <2>1, <2>2, <2>3, <2>4
<1> QED BY <1>4, <1>5

\* A consented launch submits Desktop over a block that holds its own endpoint.
THEOREM CurrentBlock == Spec => LaunchSeesCurrentBlock
BY Invariance, CurrentStep, PTL DEF Spec, LaunchSeesCurrentBlock
==============================================================================
