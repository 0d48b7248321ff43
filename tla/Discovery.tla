------------------------------ MODULE Discovery ------------------------------
(***************************************************************************)
(* How Guard finds Desktop: the enumeration of registered packages, made   *)
(* of several calls between which Windows may install, update or remove    *)
(* one (crates/cpg-windows/src/appmodel.rs), and the selection of the one  *)
(* application that may be launched (cpg-domain/src/discovery.rs).         *)
(*                                                                         *)
(* A package is known by its full name, which fixes its version,           *)
(* architecture and manifest: an update registers another full name.       *)
(***************************************************************************)
EXTENDS Naturals, FiniteSets, Sequences, SequencesExt

CONSTANTS
  Packages, NoPackage,
  Installed,    \* what may be registered at first
  Manifest,     \* of each package: family, named, version, native, apps, root
  Overrides,    \* configured executables: the package it lies in, the
                \* application it is, whether its path names WindowsApps
  NoOverride,
  MaxPackages   \* the capacity of one enumeration: 16

\* The version of a package is one number: the four parts are compared in order.
ASSUME DiscoveryAssumption ==
  /\ IsFiniteSet(Packages) /\ NoPackage \notin Packages /\ MaxPackages \in Nat
  /\ \A p \in Packages :
       /\ Manifest[p].family \in {"Codex", "Classic"} /\ Manifest[p].version \in Nat
       /\ IsFiniteSet(Manifest[p].apps)
  /\ Installed \subseteq SUBSET Packages
  /\ NoOverride \notin Overrides
  /\ \A o \in Overrides : o.package \in Packages \cup {NoPackage}

VARIABLES
  registry,  \* the packages registered now
  override,
  phase,     \* the next call of the discovery
  families,  \* SUPPORTED, those not yet enumerated
  capacity,  \* what the sizing call answered
  best,
  records,
  desktop,   \* the result
  listed,    \* the names the enumerations returned
  seen       \* the packages registered at some time during the discovery

discovery == <<phase, families, capacity, best, records, desktop, listed>>

Families == <<"Codex", "Classic">>
Of(family) == {p \in registry : Manifest[p].family = family}

NotFound == [found |-> FALSE]
NoApp == [id |-> "none", exe |-> "none", entry |-> "none", at |-> "missing"]
Native == [found |-> TRUE, registered |-> FALSE, package |-> NoPackage, app |-> NoApp]
Registered(p, app) == [found |-> TRUE, registered |-> TRUE, package |-> p, app |-> app]

DiscoveryInit ==
  /\ registry \in Installed /\ override \in Overrides \cup {NoOverride}
  /\ phase = "idle" /\ families = Families /\ capacity = 0 /\ best = NoPackage
  /\ records = <<>> /\ desktop = NotFound /\ listed = {} /\ seen = {}

------------------------------------------------------------------------------
(* discover_packages_native.                                               *)

World == UNCHANGED <<registry, override, seen>>
Goto(from, to) == phase = from /\ phase' = to
Family == Head(families)
Following == IF Len(families) = 1 THEN "select" ELSE "size"

Discover ==
  /\ Goto("idle", "size") /\ families' = Families /\ seen' = registry
  /\ UNCHANGED <<registry, override, capacity, best, records, desktop, listed>>

\* The caller takes the result.
Forget ==
  /\ Goto("done", "idle") /\ families' = Families /\ capacity' = 0 /\ best' = NoPackage
  /\ records' = <<>> /\ desktop' = NotFound /\ listed' = {} /\ seen' = {}
  /\ UNCHANGED <<registry, override>>

Fail ==
  /\ phase' = "done" /\ desktop' = NotFound
  /\ World /\ UNCHANGED <<families, capacity, best, records, listed>>

\* Cancelled, past the deadline of five seconds, or a call that fails.
Break == phase \in {"size", "names", "locate", "manifest"} /\ Fail

\* No package of this family: on to the next one.
SkipFamily(from) ==
  /\ Goto(from, Following) /\ families' = Tail(families)
  /\ World /\ UNCHANGED <<capacity, best, records, desktop, listed>>

TooMany(count) == count > MaxPackages

SizeNames ==
  \/ phase = "size" /\ Of(Family) = {} /\ SkipFamily("size")
  \/ phase = "size" /\ TooMany(Cardinality(Of(Family))) /\ Fail
  \/ /\ Goto("size", "names")
     /\ Of(Family) # {} /\ ~TooMany(Cardinality(Of(Family))) /\ capacity' = Cardinality(Of(Family))
     /\ World /\ UNCHANGED <<families, best, records, desktop, listed>>

VersionLess(p, q) == Manifest[p].version < Manifest[q].version

\* The mutant lets the native architecture beat a higher version.
BetterNative(current, p) ==
  \/ current = NoPackage
  \/ VersionLess(current, p)
  \/ Manifest[p].native /\ ~Manifest[current].native

\* Highest version wins; ties prefer the native architecture.
Better(current, p) ==
  \/ current = NoPackage
  \/ VersionLess(current, p)
  \/ ~VersionLess(p, current) /\ Manifest[p].native /\ ~Manifest[current].native

Prefer(current, p) == IF Manifest[p].named /\ Better(current, p) THEN p ELSE current

\* The loop over the names.
BestOf(names) ==
  LET taken[i \in 0..Len(names)] == IF i = 0 THEN NoPackage ELSE Prefer(taken[i - 1], names[i])
  IN taken[Len(names)]

\* The names come in any order.  More of them than were sized fail at once.
ListNames ==
  \/ phase = "names" /\ Cardinality(Of(Family)) > capacity /\ Fail
  \/ /\ phase = "names" /\ Cardinality(Of(Family)) <= capacity
     /\ \E names \in SetToSeqs(Of(Family)) :
          /\ best' = BestOf(names)
          /\ listed' = listed \cup Range(names)
     /\ IF best' = NoPackage
          THEN Goto("names", Following) /\ families' = Tail(families)
          ELSE Goto("names", "locate") /\ UNCHANGED families
     /\ World /\ UNCHANGED <<capacity, records, desktop>>

\* GetPackagePathByFullName, then the manifest below it.
Locate ==
  \/ phase = "locate" /\ best \notin registry /\ Fail
  \/ /\ best \in registry /\ Goto("locate", "manifest")
     /\ World /\ UNCHANGED <<families, capacity, best, records, desktop, listed>>

\* The files of a package that was just removed may still be there.
ReadManifest ==
  /\ Goto("manifest", Following)
  /\ records' = Append(records, best) /\ families' = Tail(families)
  /\ World /\ UNCHANGED <<capacity, best, desktop, listed>>

------------------------------------------------------------------------------
(* parse_discovery.                                                        *)

TrustedCandidate(family, app) ==
  IF family = "Codex" THEN app.id = "App" /\ app.exe = "app/ChatGPT.exe"
  ELSE app.entry = "FullTrust" /\ app.exe \in {"app/ChatGPT.exe", "ChatGPT.exe", "../ChatGPT.exe"}

Candidates(p) == {app \in Manifest[p].apps : TrustedCandidate(Manifest[p].family, app)}

\* The executable stays below the package directory, by name and once resolved.
Contained(app) == app.exe # "../ChatGPT.exe" /\ app.at = "inside"

\* The mutant asks for no explicit FullTrust entry point.
RuntimeAnything(app) == TRUE

RuntimeAccepted(app) == app.entry = "FullTrust"

\* registered_desktop.
RegisteredDesktop(p) ==
  IF /\ Manifest[p].root
     /\ Cardinality(Candidates(p)) = 1
     /\ \A app \in Candidates(p) : app.id # "none" /\ Contained(app) /\ RuntimeAccepted(app)
  THEN Registered(p, CHOOSE app \in Candidates(p) : TRUE)
  ELSE NotFound

\* An override inside a package must be its registered entry.
OverrideDesktop ==
  IF \E i \in DOMAIN records : records[i] = override.package /\ Manifest[records[i]].root
    THEN LET found == RegisteredDesktop(override.package)
         IN IF found.found /\ found.app = override.app THEN found ELSE NotFound
  ELSE IF override.store THEN NotFound ELSE Native

Select ==
  /\ Goto("select", "done")
  /\ desktop' = IF override # NoOverride THEN OverrideDesktop
                ELSE IF records = <<>> THEN NotFound
                ELSE RegisteredDesktop(Head(records))
  /\ World /\ UNCHANGED <<families, capacity, best, records, listed>>

Discovers == Discover \/ Break \/ SizeNames \/ ListNames \/ Locate \/ ReadManifest \/ Select

\* Windows installs, updates or removes packages.
ChangeRegistry ==
  /\ \E gone \in SUBSET registry, new \in SUBSET (Packages \ registry) :
       /\ Cardinality(gone) <= 1 /\ Cardinality(new) <= 1 /\ gone \cup new # {}
       /\ registry' = (registry \ gone) \cup new
       /\ seen' = seen \cup new
  /\ UNCHANGED <<override, discovery>>

DiscoveryTypeOK ==
  /\ registry \subseteq Packages /\ override \in Overrides \cup {NoOverride}
  /\ phase \in {"idle", "size", "names", "locate", "manifest", "select", "done"}
  /\ families \in {<<>>, <<"Classic">>, Families}
  /\ capacity \in 0..MaxPackages /\ best \in Packages \cup {NoPackage}
  /\ records \in Seq(Packages) /\ Len(records) <= 2
  /\ {listed, seen} \subseteq SUBSET Packages
  /\ desktop.found => desktop.package \in Packages \cup {NoPackage}
=============================================================================
