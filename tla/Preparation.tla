----------------------------- MODULE Preparation -----------------------------
(***************************************************************************)
(* The front half of a launch (crates/cpg-engine/src/launch.rs,            *)
(* launch_with): a Desktop is discovered while packages come and go, the   *)
(* plan is made, and the managed block is written into a file that others  *)
(* edit.  LaunchPipeline models the rest.                                  *)
(***************************************************************************)
EXTENDS ManagedBlock, Discovery

VARIABLES backend  \* what the launch made of the block, "none" before it

vars == <<env, config, edits, registry, override, discovery, seen, backend>>

files == <<env, config>>
packages == <<registry, override, discovery, seen>>

Init == BlockInit /\ DiscoveryInit /\ backend = "none"

\* The check launch_with makes of every registered result.
Identified(found) ==
  found.registered =>
    found.package # NoPackage /\ found.app.id # "none" /\ found.app.exe # "none" /\ found.app.entry = "FullTrust"

Refused ==
  \/ ~desktop.found \/ ~Identified(desktop)
  \/ desktop.registered /\ ~CanPlan(config)
  \/ desktop.registered /\ config.managed /\ ~CanPrepare(config)

Prepare ==
  /\ IF Refused THEN backend' = "refused" /\ UNCHANGED env
     ELSE IF ~desktop.registered THEN backend' = "not_applicable" /\ UNCHANGED env
     ELSE IF ~config.managed THEN backend' = "not_authorized" /\ UNCHANGED env
     ELSE backend' = "prepared" /\ PrepareProxyEnv(config)
  /\ Forget /\ UNCHANGED <<config, edits>>

Search == Discovers /\ backend' = "none" /\ UNCHANGED <<files, edits>>

\* Steps on the file commute with those of a discovery, and those on packages
\* with everything else: each is taken where it can matter.
Others ==
  \/ /\ phase = "idle" /\ backend' = "none" /\ UNCHANGED packages
     /\ EditEnv \/ Configure \/ Revoke \/ Consent
  \/ phase \notin {"idle", "done"} /\ ChangeRegistry /\ Other /\ UNCHANGED <<files, backend>>

Next == Prepare \/ Search \/ Others
Spec == Init /\ [][Next]_vars

------------------------------------------------------------------------------
(* Properties.                                                             *)

TypeOK ==
  /\ BlockTypeOK /\ DiscoveryTypeOK
  /\ backend \in {"none", "refused", "not_applicable", "not_authorized", "prepared"}

\* A NO_PROXY value a valid configuration could have produced: cut at some of its
\* commas it is a list of valid entries.
CouldBeGenerated(value) ==
  \E cuts \in SUBSET (1..(Len(value) - 1)) :
    /\ Cardinality(cuts) < MaxEntries
    /\ \A i, k \in cuts \cup {0, Len(value)} :
         i < k /\ (\A j \in cuts : j <= i \/ j >= k) => ValidEntry(SubSeq(value, i + 1, k))

\* The lines from p on are a complete block of Guard's.
BlockAt(lines, p) ==
  /\ p + 4 <= Len(lines) /\ lines[p].kind = "BEGIN" /\ lines[p + 4].kind = "END"
  /\ {lines[i].kind : i \in (p + 1)..(p + 3)} = Keys
  /\ \E url \in Endpoints : \A i \in (p + 1)..(p + 3) :
       IF lines[i].kind = "NO_PROXY" THEN CouldBeGenerated(lines[i].value) ELSE lines[i].value = url

Markers(lines) == {i \in DOMAIN lines : lines[i].kind \in {"BEGIN", "END", "OTHER"}}
Blocks(lines) == {p \in DOMAIN lines : BlockAt(lines, p)}
Outside(lines) ==
  {i \in DOMAIN lines : \A p \in Blocks(lines) : i \notin p..(p + 4)}
Rest(lines) == LET kept == Outside(lines) IN [i \in 1..Cardinality(kept) |->
  lines[CHOOSE k \in kept : Cardinality({j \in kept : j <= k}) = i]]

\* parse_env accepts exactly the files whose every line stands for itself and
\* whose only markers are those of one complete block that Guard could have
\* written: a duplicated, truncated, reordered or edited block is refused.
BlocksAreRecognised ==
  Readable(ParseEnv(env.lines)) <=>
    /\ \A i \in DOMAIN env.lines : ~UnsafeEnvLine(env.lines[i])
    /\ \/ Markers(env.lines) = {}
       \/ \E p \in Blocks(env.lines) : Markers(env.lines) = {p, p + 4}

\* What a launch prepared is what the status shows, and can be taken back: the
\* file Guard wrote is one it reads, and without the block it is the file that
\* was there.  Exclusions with quotation marks or backslashes, which the schema
\* admits, never get as far as the file.
PreparedCanBeTakenBack ==
  [][(backend = "none" /\ backend' = "prepared") =>
       /\ Inspect(env', config) = "current"
       /\ Revoked(env'.lines, ParseEnv(env'.lines)) = Rest(env.lines)]_vars

\* Guard changes no line but its own.
OtherLinesAreKept ==
  [][env' = env \/ edits' # edits \/ Rest(env'.lines) = Rest(env.lines)]_vars

\* A registered Desktop that discovery found passes every later check of the
\* launch, was registered while it was looked for, and is the one application of
\* its package it could be.
DiscoveredCanBeLaunched ==
  phase = "done" /\ desktop.found /\ desktop.registered =>
    /\ desktop.package \in seen /\ Identified(desktop)
    /\ desktop.app.at = "inside" /\ Candidates(desktop.package) = {desktop.app}

\* No named package of its family among these is better.
Beats(p, names) ==
  \A q \in names : Manifest[q].family = Manifest[p].family /\ Manifest[q].named =>
    /\ ~VersionLess(p, q)
    /\ ~VersionLess(q, p) /\ Manifest[q].native => Manifest[p].native

\* Of the packages one enumeration returned in whatever order, the record is
\* taken from one with the highest version, and a native one if there is any.
BestPackageIsTaken == \A i \in DOMAIN records : Beats(records[i], listed)

------------------------------------------------------------------------------
(* The invariant the proofs rest on.                                       *)

\* A family is enumerated once: what was listed or recorded of others before it
\* stays out of its way.
EnumerationInv ==
  /\ phase = "idle" => records = <<>> /\ listed = {}
  /\ phase # "idle" => registry \subseteq seen
  /\ listed \subseteq seen
  /\ phase \in {"size", "names", "locate", "manifest"} =>
       /\ families \in {Families, <<"Classic">>} /\ Len(records) + Len(families) <= 2
       /\ \A i \in DOMAIN records : Manifest[records[i]].family \notin Range(families)
  /\ phase \in {"size", "names"} => \A p \in listed : Manifest[p].family \notin Range(families)
  /\ phase \in {"locate", "manifest"} =>
       /\ best \in listed /\ Manifest[best].family = Family /\ Beats(best, listed)
       /\ \A p \in listed : Manifest[p].family \notin Range(Tail(families))
  /\ \A i \in DOMAIN records : records[i] \in listed /\ Beats(records[i], listed)

\* Before a selection there is no result, and what it selected can be launched.
SelectionInv ==
  /\ phase # "done" => desktop = NotFound
  /\ desktop.found =>
       \/ desktop = Native
       \/ \E p \in listed : \E app \in Manifest[p].apps :
            /\ desktop = Registered(p, app) /\ Identified(desktop)
            /\ app.at = "inside" /\ Candidates(p) = {app}

DiscoveryInv == DiscoveryTypeOK /\ EnumerationInv /\ SelectionInv

\* A file holds lines of other people and lines Guard wrote for some configuration.
AllLines == Lines \cup UNION {Range(Block(c)) : c \in Configs}

FileInv ==
  /\ env \in [exists : BOOLEAN, lines : Seq(AllLines), ended : BOOLEAN]
  /\ config \in Configs /\ edits \in 0..MaxEdits

Inv == FileInv /\ DiscoveryInv /\ backend \in {"none", "refused", "not_applicable", "not_authorized", "prepared"}
=============================================================================
