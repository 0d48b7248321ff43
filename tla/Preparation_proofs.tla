-------------------------- MODULE Preparation_proofs --------------------------
(***************************************************************************)
(* Proofs about Preparation: its invariant Inv is inductive for any number *)
(* of packages and of steps of other programs, and a file of any length is *)
(* read, prepared and taken back as the properties say.                    *)
(***************************************************************************)
EXTENDS Preparation, ManagedBlock_proofs

------------------------------------------------------------------------------
(* The loop over the names.                                                *)

\* What the loop has to show for the names it went through.
Choice(p, names) ==
  IF p = NoPackage THEN \A q \in names : ~Manifest[q].named
  ELSE /\ p \in names /\ Manifest[p].named
       /\ \A q \in names : Manifest[q].named =>
            /\ ~VersionLess(p, q)
            /\ ~VersionLess(q, p) /\ Manifest[q].native => Manifest[p].native

LEMMA PreferChooses ==
  ASSUME NEW names \in SUBSET Packages, NEW p \in Packages \cup {NoPackage}, NEW q \in Packages, Choice(p, names)
  PROVE  Choice(Prefer(p, q), names \cup {q})
  <1>1. /\ \A r \in Packages : Manifest[r].version \in Nat
        /\ NoPackage \notin Packages
    BY DiscoveryAssumption
  <1>2. CASE p = NoPackage
    BY <1>1, <1>2 DEF Choice, Prefer, Better, VersionLess
  <1>3. CASE p # NoPackage
    BY <1>1, <1>3 DEF Choice, Prefer, Better, VersionLess
  <1> QED BY <1>2, <1>3

LEMMA BestOfChooses ==
  ASSUME NEW names \in Seq(Packages)
  PROVE  BestOf(names) \in Packages \cup {NoPackage} /\ Choice(BestOf(names), Range(names))
  <1> DEFINE n == Len(names)
             Taken(f, k) == f = [i \in 0..k |-> IF i = 0 THEN NoPackage ELSE Prefer(f[i - 1], names[i])]
             Upto(k) == {names[i] : i \in 1..k}
             T == {k \in 0..n : \E f : Taken(f, k)}
  <1>1. n \in Nat
    OBVIOUS
  <1>2. 0 \in T
    <2> DEFINE g == [i \in 0..0 |-> NoPackage]
    <2>1. g = [i \in 0..0 |-> IF i = 0 THEN NoPackage ELSE Prefer(g[i - 1], names[i])]
      OBVIOUS
    <2> HIDE DEF g
    <2>2. \E f : Taken(f, 0)
      BY <2>1
    <2> QED BY <2>2, <1>1
  <1>3. ASSUME NEW k \in 1..n, k - 1 \in T PROVE k \in T
    <2>1. PICK f : Taken(f, k - 1)
      BY <1>3
    <2> DEFINE g == [i \in 0..k |-> IF i = k THEN Prefer(f[k - 1], names[k]) ELSE f[i]]
    <2>2. ASSUME NEW i \in 0..k
          PROVE  g[i] = IF i = 0 THEN NoPackage ELSE Prefer(g[i - 1], names[i])
      <3>1. CASE i = k
        <4>1. g[k - 1] = f[k - 1] /\ g[i] = Prefer(f[k - 1], names[k]) /\ k # 0
          BY <3>1
        <4> QED BY <3>1, <4>1
      <3>2. CASE i # k
        <4>1. i \in 0..(k - 1) /\ g[i] = f[i] /\ (i # 0 => i - 1 \in 0..(k - 1) /\ g[i - 1] = f[i - 1])
          BY <3>2
        <4>2. f[i] = IF i = 0 THEN NoPackage ELSE Prefer(f[i - 1], names[i])
          BY <2>1, <4>1
        <4> HIDE DEF g
        <4> QED BY <4>1, <4>2
      <3> QED BY <3>1, <3>2
    <2>3. Taken(g, k)
      <3>1. g = [i \in 0..k |-> g[i]]
        OBVIOUS
      <3> HIDE DEF g
      <3> QED BY <2>2, <3>1
    <2> HIDE DEF g
    <2> QED BY <2>3
  <1>4. T = 0..n
    <2> HIDE DEF T
    <2>1. T \in SUBSET (0..n)
      BY DEF T
    <2> QED BY <1>1, <1>2, <1>3, <2>1, UpTo
  <1>5. PICK h : Taken(h, n)
    <2>1. n \in T
      BY <1>1, <1>4
    <2> QED BY <2>1
  <1> DEFINE c == CHOOSE f : f = [i \in 0..Len(names) |-> IF i = 0 THEN NoPackage ELSE Prefer(f[i - 1], names[i])]
  <1>6. Taken(c, n)
    BY <1>5
  <1>7. BestOf(names) = c[n]
    BY DEF BestOf
  <1> HIDE DEF c, T
  <1> DEFINE G == {k \in 0..n : c[k] \in Packages \cup {NoPackage} /\ Choice(c[k], Upto(k))}
  <1>8. 0 \in G
    <2>1. c[0] = NoPackage
      BY <1>1, <1>6
    <2>2. Upto(0) = {}
      OBVIOUS
    <2>3. Choice(NoPackage, {})
      BY DEF Choice
    <2> HIDE DEF Upto
    <2> QED BY <1>1, <2>1, <2>2, <2>3
  <1>9. ASSUME NEW k \in 1..n, k - 1 \in G PROVE k \in G
    <2>1. c[k] = Prefer(c[k - 1], names[k])
      BY <1>1, <1>6
    <2>2. Upto(k) = Upto(k - 1) \cup {names[k]} /\ Upto(k - 1) \in SUBSET Packages /\ names[k] \in Packages
      OBVIOUS
    <2> HIDE DEF Upto, Taken
    <2>3. c[k - 1] \in Packages \cup {NoPackage} /\ Choice(c[k - 1], Upto(k - 1))
      BY <1>9
    <2>4. Choice(c[k], Upto(k))
      BY <2>1, <2>2, <2>3, PreferChooses
    <2>5. c[k] \in Packages \cup {NoPackage}
      BY <2>1, <2>2, <2>3 DEF Prefer
    <2> QED BY <2>4, <2>5
  <1>10. G = 0..n
    <2> HIDE DEF G
    <2>1. G \in SUBSET (0..n)
      BY DEF G
    <2> QED BY <1>1, <1>8, <1>9, <2>1, UpTo
  <1> HIDE DEF G
  <1>11. n \in G
    BY <1>1, <1>10
  <1>12. Upto(n) = Range(names)
    BY DEF Range
  <1>13. c[n] \in Packages \cup {NoPackage} /\ Choice(c[n], Upto(n))
    BY <1>11 DEF G
  <1> HIDE DEF Upto
  <1> QED BY <1>7, <1>12, <1>13

------------------------------------------------------------------------------
(* The enumeration.                                                        *)

\* The names of one family, in the order they came.
LEMMA NamesOfAFamily ==
  ASSUME registry \subseteq Packages, NEW family, NEW names \in SetToSeqs(Of(family))
  PROVE  names \in Seq(Packages) /\ Range(names) \subseteq Of(family)
  <1>1. Of(family) \subseteq Packages
    BY DEF Of
  <1>2. IsFiniteSet(Of(family))
    BY <1>1, DiscoveryAssumption, FS_Subset
  <1>3. Cardinality(Of(family)) \in Nat
    BY <1>2, FS_CardinalityType
  <1>4. names \in [1..Cardinality(Of(family)) -> Of(family)]
    BY DEF SetToSeqs
  <1>5. names \in Seq(Packages)
    BY <1>1, <1>3, <1>4
  <1> QED BY <1>4, <1>5 DEF Range

LEMMA FamilyFacts ==
  /\ Len(Families) = 2 /\ Head(Families) = "Codex" /\ Tail(Families) = <<"Classic">> /\ Range(Families) = {"Codex", "Classic"}
  /\ Len(<<"Classic">>) = 1 /\ Head(<<"Classic">>) = "Classic" /\ Tail(<<"Classic">>) = <<>> /\ Range(<<"Classic">>) = {"Classic"}
  /\ Range(<<>>) = {} /\ Families # <<"Classic">>
  BY DEF Families, Range

\* What a step leaves to an enumeration that goes on, and to one that ends.
LEMMA SameEnumeration ==
  ASSUME DiscoveryInv, UNCHANGED <<registry, override, seen, families, capacity, best, records, listed>>,
         phase' = "done" \/ (phase = "size" /\ phase' = "names") \/ (phase = "locate" /\ phase' = "manifest"),
         phase # "idle", phase' = "done" \/ UNCHANGED desktop, SelectionInv',
         desktop'.found => desktop'.package \in Packages \cup {NoPackage}
  PROVE  DiscoveryInv'
  <1> USE DEF DiscoveryInv, DiscoveryTypeOK, EnumerationInv, Beats, VersionLess, Family
  <1>1. DiscoveryTypeOK'
    OBVIOUS
  <1>2. EnumerationInv'
    OBVIOUS
  <1> QED BY <1>1, <1>2

LEMMA FailInv ==
  ASSUME DiscoveryInv, Fail, phase # "idle"
  PROVE  DiscoveryInv'
  <1>1. desktop' = NotFound /\ ~desktop'.found
    BY DEF Fail, NotFound
  <1>2. SelectionInv'
    BY <1>1 DEF SelectionInv
  <1> QED BY <1>1, <1>2, SameEnumeration DEF Fail, World

LEMMA DiscoverInv ==
  ASSUME DiscoveryInv, Discover
  PROVE  DiscoveryInv'
  <1> USE DEF DiscoveryInv, Discover, Goto
  <1>1. DiscoveryTypeOK'
    BY DEF DiscoveryTypeOK
  <1>2. EnumerationInv'
    <2>1. records' = <<>> /\ listed' = {} /\ families' = Families /\ phase' = "size" /\ registry' \subseteq seen'
      BY DEF EnumerationInv
    <2> QED BY <2>1, FamilyFacts DEF EnumerationInv
  <1>3. SelectionInv'
    BY DEF SelectionInv, NotFound
  <1> QED BY <1>1, <1>2, <1>3

LEMMA ForgetInv ==
  ASSUME DiscoveryInv, Forget
  PROVE  DiscoveryInv'
  <1> USE DEF DiscoveryInv, Forget, Goto
  <1>1. DiscoveryTypeOK'
    BY DiscoveryAssumption DEF DiscoveryTypeOK, NotFound
  <1>2. EnumerationInv'
    BY DEF EnumerationInv
  <1>3. SelectionInv'
    BY DEF SelectionInv, NotFound
  <1> QED BY <1>1, <1>2, <1>3

LEMMA ChangeRegistryInv ==
  ASSUME DiscoveryInv, ChangeRegistry, phase \notin {"idle", "done"}
  PROVE  DiscoveryInv'
  <1>1. PICK gone \in SUBSET registry, new \in SUBSET (Packages \ registry) :
          registry' = (registry \ gone) \cup new /\ seen' = seen \cup new
    BY DEF ChangeRegistry
  <1>2. UNCHANGED <<override, phase, families, capacity, best, records, desktop, listed>>
    BY DEF ChangeRegistry, discovery
  <1> USE DEF DiscoveryInv
  <1>3. DiscoveryTypeOK'
    BY <1>1, <1>2 DEF DiscoveryTypeOK
  <1>4. EnumerationInv'
    BY <1>1, <1>2 DEF EnumerationInv, Beats, VersionLess, Family
  <1>5. SelectionInv'
    BY <1>2 DEF SelectionInv, Identified
  <1> QED BY <1>3, <1>4, <1>5

\* On to the next family, or to the selection.
LEMMA FollowingFacts ==
  ASSUME families \in {Families, <<"Classic">>}
  PROVE  /\ Tail(families) \in {<<>>, <<"Classic">>} /\ Following \in {"size", "select"}
         /\ Following = "size" => Tail(families) = <<"Classic">> /\ Tail(families) \in {Families, <<"Classic">>}
         /\ Len(Tail(families)) = Len(families) - 1 /\ Len(families) \in 1..2
         /\ Range(families) = {Family} \cup Range(Tail(families)) /\ Family \notin Range(Tail(families))
         /\ Family \in {"Codex", "Classic"}
  <1>1. PICK s : s = <<"Classic">>
    OBVIOUS
  <1>2. /\ Len(Families) = 2 /\ Head(Families) = "Codex" /\ Tail(Families) = s /\ Range(Families) = {"Codex", "Classic"}
        /\ Len(s) = 1 /\ Head(s) = "Classic" /\ Tail(s) = <<>> /\ Range(s) = {"Classic"} /\ Range(<<>>) = {} /\ Len(<<>>) = 0
    BY <1>1, FamilyFacts
  <1>3. families \in {Families, s}
    BY <1>1
  <1>4. /\ Tail(families) \in {<<>>, s} /\ Following \in {"size", "select"}
        /\ Following = "size" => Tail(families) = s /\ Tail(families) \in {Families, s}
        /\ Len(Tail(families)) = Len(families) - 1 /\ Len(families) \in 1..2
        /\ Range(families) = {Family} \cup Range(Tail(families)) /\ Family \notin Range(Tail(families))
        /\ Family \in {"Codex", "Classic"}
    <2>1. CASE families = Families
      <3>1. Tail(families) = s /\ Len(families) = 2 /\ Family = "Codex" /\ Range(families) = {"Codex", "Classic"} /\ Following = "size"
        BY <1>2, <2>1 DEF Following, Family
      <3>2. Range(Tail(families)) = {"Classic"} /\ {"Codex", "Classic"} = {"Codex"} \cup {"Classic"} /\ "Codex" \notin {"Classic"}
        BY <1>2, <3>1
      <3>3. Range(families) = {Family} \cup Range(Tail(families)) /\ Family \notin Range(Tail(families))
        BY <3>1, <3>2
      <3> QED BY <1>2, <3>1, <3>3
    <2>2. CASE families = s
      <3>1. Tail(families) = <<>> /\ Len(families) = 1 /\ Family = "Classic" /\ Range(families) = {"Classic"} /\ Following = "select"
        BY <1>2, <2>2 DEF Following, Family
      <3>2. Range(Tail(families)) = {} /\ {"Classic"} = {"Classic"} \cup {} /\ "Classic" \notin {}
        BY <1>2, <3>1
      <3>3. Range(families) = {Family} \cup Range(Tail(families)) /\ Family \notin Range(Tail(families))
        BY <3>1, <3>2
      <3> QED BY <1>2, <3>1, <3>3
    <2> QED BY <1>3, <2>1, <2>2
  <1> QED BY <1>1, <1>4

LEMMA SkipFamilyInv ==
  ASSUME DiscoveryInv, NEW from \in {"size", "names"}, phase = from, phase' = Following, families' = Tail(families), World,
         UNCHANGED <<capacity, records, desktop>>, best' \in Packages \cup {NoPackage},
         NEW names \in SUBSET registry, \A p \in names : Manifest[p].family = Family, listed' = listed \cup names
  PROVE  DiscoveryInv'
  <1>1. families \in {Families, <<"Classic">>} /\ Len(records) + Len(families) <= 2 /\ phase \in {"size", "names"}
    BY DEF DiscoveryInv, EnumerationInv
  <1>2. /\ UNCHANGED <<registry, override, seen>> /\ registry \subseteq seen /\ registry \subseteq Packages
        /\ names \subseteq seen /\ names \subseteq Packages /\ phase' \in {"size", "select"}
    BY <1>1, FollowingFacts DEF World, DiscoveryInv, EnumerationInv, DiscoveryTypeOK
  <1>3. DiscoveryTypeOK'
    BY <1>1, <1>2, FollowingFacts DEF DiscoveryInv, DiscoveryTypeOK
  <1>4. \A i \in DOMAIN records : records[i] \in listed /\ Manifest[records[i]].family # Family
    BY <1>1, FollowingFacts DEF DiscoveryInv, EnumerationInv
  <1>5. (\A i \in DOMAIN records : Beats(records[i], listed))'
    BY <1>4 DEF DiscoveryInv, EnumerationInv, Beats, VersionLess
  <1>6. \A p \in listed' : Manifest[p].family \notin Range(families')
    BY <1>1, FollowingFacts DEF DiscoveryInv, EnumerationInv
  <1>7. phase' = "size" => families' \in {Families, <<"Classic">>} /\ Len(records) + Len(families') <= 2
    BY <1>1, FollowingFacts DEF DiscoveryInv, DiscoveryTypeOK
  <1>8. \A i \in DOMAIN records : Manifest[records[i]].family \notin Range(families')
    BY <1>1, FollowingFacts DEF DiscoveryInv, EnumerationInv
  <1>9. EnumerationInv'
    <2>1. listed' \subseteq seen' /\ registry' \subseteq seen' /\ records' = records
      BY <1>2 DEF DiscoveryInv, EnumerationInv
    <2>2. (\A i \in DOMAIN records : records[i] \in listed)'
      BY <2>1, <1>4
    <2>3. (\A i \in DOMAIN records : Manifest[records[i]].family \notin Range(families))'
      BY <2>1, <1>8
    <2> QED BY <1>2, <1>5, <1>6, <1>7, <2>1, <2>2, <2>3 DEF EnumerationInv
  <1>10. SelectionInv'
    BY <1>1, <1>2 DEF DiscoveryInv, SelectionInv, NotFound
  <1> QED BY <1>3, <1>9, <1>10 DEF DiscoveryInv

LEMMA SizeNamesInv ==
  ASSUME DiscoveryInv, SizeNames
  PROVE  DiscoveryInv'
  <1>1. CASE phase = "size" /\ Of(Family) = {} /\ SkipFamily("size")
    <2>1. phase = "size" /\ phase' = Following /\ families' = Tail(families) /\ World /\ listed' = listed \cup {}
          /\ UNCHANGED <<capacity, best, records, desktop>>
      BY <1>1 DEF SkipFamily, Goto
    <2>2. best' \in Packages \cup {NoPackage}
      BY <2>1 DEF DiscoveryInv, DiscoveryTypeOK
    <2> QED BY <2>1, <2>2, SkipFamilyInv
  <1>2. CASE phase = "size" /\ Fail
    BY <1>2, FailInv
  <1>3. CASE /\ Goto("size", "names") /\ ~TooMany(Cardinality(Of(Family))) /\ capacity' = Cardinality(Of(Family))
             /\ World /\ UNCHANGED <<families, best, records, desktop, listed>>
    <2>1. Of(Family) \subseteq Packages
      BY DEF Of, DiscoveryInv, DiscoveryTypeOK
    <2>2. Cardinality(Of(Family)) \in Nat
      BY <2>1, DiscoveryAssumption, FS_Subset, FS_CardinalityType
    <2>3. capacity' \in 0..MaxPackages
      BY <1>3, <2>2, DiscoveryAssumption DEF TooMany
    <2>4. DiscoveryTypeOK'
      BY <1>3, <2>3 DEF DiscoveryInv, DiscoveryTypeOK, Goto, World
    <2>5. EnumerationInv'
      BY <1>3 DEF DiscoveryInv, EnumerationInv, Beats, VersionLess, Goto, World
    <2>6. SelectionInv'
      BY <1>3 DEF DiscoveryInv, SelectionInv, Goto, NotFound
    <2> QED BY <2>4, <2>5, <2>6 DEF DiscoveryInv
  <1> QED BY <1>1, <1>2, <1>3 DEF SizeNames

LEMMA ListNamesInv ==
  ASSUME DiscoveryInv, ListNames
  PROVE  DiscoveryInv'
  <1>1. CASE phase = "names" /\ Fail
    BY <1>1, FailInv
  <1> SUFFICES ASSUME phase = "names", ListNames, ~Fail PROVE DiscoveryInv'
    BY <1>1 DEF ListNames
  <1>2. PICK names \in SetToSeqs(Of(Family)) : best' = BestOf(names) /\ listed' = listed \cup Range(names)
    BY DEF ListNames
  <1>3. registry \subseteq Packages /\ families \in {Families, <<"Classic">>} /\ registry \subseteq seen
    BY DEF DiscoveryInv, DiscoveryTypeOK, EnumerationInv
  <1>4. names \in Seq(Packages) /\ Range(names) \subseteq Of(Family)
    BY <1>3, NamesOfAFamily
  <1>5. best' \in Packages \cup {NoPackage} /\ Choice(best', Range(names))
    BY <1>2, <1>4, BestOfChooses
  <1>6. Range(names) \in SUBSET registry /\ \A p \in Range(names) : Manifest[p].family = Family
    BY <1>4 DEF Of
  <1>7. UNCHANGED <<registry, override, seen, capacity, records, desktop>> /\ World
    BY DEF ListNames, World
  <1>8. CASE best' = NoPackage
    <2>1. phase' = Following /\ families' = Tail(families)
      BY <1>8 DEF ListNames, Goto
    <2> QED BY <1>2, <1>5, <1>6, <1>7, <2>1, SkipFamilyInv
  <1>9. CASE best' # NoPackage
    <2>1. phase' = "locate" /\ families' = families
      BY <1>9 DEF ListNames, Goto
    <2>2. best' \in Range(names) /\ best' \in Packages /\ Manifest[best'].family = Family
      BY <1>5, <1>6, <1>9 DEF Choice
    <2>3. \A i \in DOMAIN records : records[i] \in listed /\ Manifest[records[i]].family # Family
      BY <1>3, FollowingFacts DEF DiscoveryInv, EnumerationInv
    <2>4. (\A i \in DOMAIN records : records[i] \in listed /\ Beats(records[i], listed))'
      BY <1>2, <1>6, <1>7, <2>3 DEF DiscoveryInv, EnumerationInv, Beats, VersionLess
    <2>5. Beats(best, listed)'
      <3>1. \A p \in listed : Manifest[p].family # Family
        BY <1>3, FollowingFacts DEF DiscoveryInv, EnumerationInv
      <3>2. \A p \in Range(names) : Manifest[p].named =>
              ~VersionLess(best', p) /\ (~VersionLess(p, best') /\ Manifest[p].native => Manifest[best'].native)
        BY <1>5, <1>9 DEF Choice
      <3> QED BY <1>2, <2>2, <3>1, <3>2 DEF Beats, VersionLess
    <2>6. \A p \in listed' : Manifest[p].family \notin Range(Tail(families))
      BY <1>2, <1>3, <1>6, FollowingFacts DEF DiscoveryInv, EnumerationInv
    <2>7. DiscoveryTypeOK'
      BY <1>2, <1>3, <1>6, <1>7, <2>1, <2>2 DEF DiscoveryInv, DiscoveryTypeOK
    <2>8. listed' \subseteq seen' /\ registry' \subseteq seen'
      BY <1>2, <1>3, <1>6, <1>7 DEF DiscoveryInv, EnumerationInv
    <2>9. Len(records) + Len(families) <= 2 /\ \A i \in DOMAIN records : Manifest[records[i]].family \notin Range(families)
      BY DEF DiscoveryInv, EnumerationInv
    <2>10. EnumerationInv'
      <3>1. (families \in {Families, <<"Classic">>} /\ Len(records) + Len(families) <= 2)'
        BY <1>3, <1>7, <2>1, <2>9
      <3>2. (\A i \in DOMAIN records : Manifest[records[i]].family \notin Range(families))'
        BY <1>7, <2>1, <2>9
      <3>3. (best \in listed /\ Manifest[best].family = Family)'
        BY <1>2, <2>1, <2>2 DEF Family
      <3>4. (\A p \in listed : Manifest[p].family \notin Range(Tail(families)))'
        BY <2>1, <2>6
      <3> QED BY <2>1, <2>4, <2>5, <2>8, <3>1, <3>2, <3>3, <3>4 DEF EnumerationInv
    <2>11. SelectionInv'
      BY <1>7, <2>1 DEF DiscoveryInv, SelectionInv, NotFound
    <2> QED BY <2>7, <2>10, <2>11 DEF DiscoveryInv
  <1> QED BY <1>8, <1>9

LEMMA LocateInv ==
  ASSUME DiscoveryInv, Locate
  PROVE  DiscoveryInv'
  <1>1. CASE phase = "locate" /\ Fail
    BY <1>1, FailInv
  <1>2. CASE Goto("locate", "manifest") /\ World /\ UNCHANGED <<families, capacity, best, records, desktop, listed>>
    <2>1. SelectionInv' /\ (desktop'.found => desktop'.package \in Packages \cup {NoPackage})
      BY <1>2 DEF DiscoveryInv, SelectionInv, Goto, NotFound
    <2> QED BY <1>2, <2>1, SameEnumeration DEF Goto, World
  <1> QED BY <1>1, <1>2 DEF Locate

LEMMA ReadManifestInv ==
  ASSUME DiscoveryInv, ReadManifest
  PROVE  DiscoveryInv'
  <1>1. /\ phase = "manifest" /\ phase' = Following /\ records' = Append(records, best) /\ families' = Tail(families)
        /\ UNCHANGED <<registry, override, seen, capacity, best, desktop, listed>>
    BY DEF ReadManifest, Goto, World
  <1>2. /\ families \in {Families, <<"Classic">>} /\ records \in Seq(Packages) /\ listed \subseteq Packages
        /\ Len(records) + Len(families) <= 2 /\ best \in listed /\ Manifest[best].family = Family /\ Beats(best, listed)
        /\ \A i \in DOMAIN records : Manifest[records[i]].family \notin Range(families)
        /\ \A p \in listed : Manifest[p].family \notin Range(Tail(families))
    BY <1>1 DEF DiscoveryInv, EnumerationInv, DiscoveryTypeOK
  <1>3. /\ records' \in Seq(Packages) /\ Len(records') = Len(records) + 1 /\ DOMAIN records' = 1..(Len(records) + 1)
        /\ records'[Len(records) + 1] = best /\ \A i \in DOMAIN records : records'[i] = records[i]
    BY <1>1, <1>2
  <1>4. \A i \in DOMAIN records' : i \in DOMAIN records \/ records'[i] = best
    BY <1>2, <1>3
  <1>5. /\ Len(Tail(families)) = Len(families) - 1 /\ Len(families) \in 1..2 /\ phase' \in {"size", "select"}
        /\ phase' = "size" => families' \in {Families, <<"Classic">>}
        /\ families' \in {<<>>, <<"Classic">>} /\ Family \notin Range(families') /\ Range(families') \subseteq Range(families)
    BY <1>1, <1>2, FollowingFacts
  <1>6. Len(records') + Len(families') <= 2 /\ Len(records') <= 2
    <2>1. Len(families') = Len(families) - 1 /\ Len(records) \in Nat
      BY <1>1, <1>2, <1>5
    <2> QED BY <1>2, <1>3, <1>5, <2>1
  <1>7. DiscoveryTypeOK'
    <2>1. phase' \in {"idle", "size", "names", "locate", "manifest", "select", "done"}
      BY <1>5
    <2>2. families' \in {<<>>, <<"Classic">>, Families}
      BY <1>5
    <2>3. records' \in Seq(Packages) /\ Len(records') <= 2
      BY <1>3, <1>6
    <2>4. /\ registry' \subseteq Packages /\ override' \in Overrides \cup {NoOverride}
          /\ capacity' \in 0..MaxPackages /\ best' \in Packages \cup {NoPackage}
          /\ {listed, seen}' \subseteq SUBSET Packages
          /\ desktop'.found => desktop'.package \in Packages \cup {NoPackage}
      BY <1>1 DEF DiscoveryInv, DiscoveryTypeOK
    <2> QED BY <2>1, <2>2, <2>3, <2>4 DEF DiscoveryTypeOK
  <1>8. (\A i \in DOMAIN records : records[i] \in listed /\ Beats(records[i], listed))'
    BY <1>1, <1>2, <1>3, <1>4 DEF DiscoveryInv, EnumerationInv, Beats, VersionLess
  <1>9. (\A i \in DOMAIN records : Manifest[records[i]].family \notin Range(families))'
    BY <1>1, <1>2, <1>3, <1>4, <1>5
  <1>10. (\A p \in listed : Manifest[p].family \notin Range(families))'
    BY <1>1, <1>2
  <1>11. (listed \subseteq seen /\ registry \subseteq seen)'
    BY <1>1 DEF DiscoveryInv, EnumerationInv
  <1>12. EnumerationInv'
    BY <1>5, <1>6, <1>8, <1>9, <1>10, <1>11 DEF EnumerationInv
  <1>13. SelectionInv'
    BY <1>1, <1>5 DEF DiscoveryInv, SelectionInv, NotFound
  <1> QED BY <1>7, <1>12, <1>13 DEF DiscoveryInv

------------------------------------------------------------------------------
(* The selection.                                                          *)

LEMMA RegisteredIsTheCandidate ==
  ASSUME NEW p \in Packages, RegisteredDesktop(p).found
  PROVE  \E app \in Manifest[p].apps :
           /\ RegisteredDesktop(p) = Registered(p, app) /\ Identified(Registered(p, app))
           /\ app.at = "inside" /\ Candidates(p) = {app}
  <1>1. /\ Cardinality(Candidates(p)) = 1
        /\ \A app \in Candidates(p) : app.id # "none" /\ Contained(app) /\ RuntimeAccepted(app)
        /\ RegisteredDesktop(p) = Registered(p, CHOOSE app \in Candidates(p) : TRUE)
    BY DEF RegisteredDesktop, NotFound
  <1>2. Candidates(p) \subseteq Manifest[p].apps
    BY DEF Candidates
  <1>3. PICK app : Candidates(p) = {app}
    <2>1. IsFiniteSet(Candidates(p))
      BY <1>2, DiscoveryAssumption, FS_Subset
    <2> QED BY <1>1, <2>1, FS_Singleton
  <1>4. app \in Candidates(p) /\ app \in Manifest[p].apps /\ RegisteredDesktop(p) = Registered(p, app)
    BY <1>1, <1>2, <1>3
  <1>5. TrustedCandidate(Manifest[p].family, app) /\ app.id # "none" /\ Contained(app) /\ RuntimeAccepted(app)
    BY <1>1, <1>4 DEF Candidates
  <1>6. app.exe # "none" /\ app.entry = "FullTrust" /\ app.at = "inside"
    BY <1>5 DEF TrustedCandidate, Contained, RuntimeAccepted
  <1>7. Identified(Registered(p, app))
    BY <1>5, <1>6, DiscoveryAssumption DEF Identified, Registered
  <1> QED BY <1>3, <1>4, <1>6, <1>7

LEMMA SelectInv ==
  ASSUME DiscoveryInv, Select
  PROVE  DiscoveryInv'
  <1>1. /\ phase = "select" /\ phase' = "done"
        /\ UNCHANGED <<registry, override, seen, families, capacity, best, records, listed>>
    BY DEF Select, Goto, World
  <1>2. records \in Seq(Packages) /\ listed \subseteq Packages /\ \A i \in DOMAIN records : records[i] \in listed
    BY DEF DiscoveryInv, DiscoveryTypeOK, EnumerationInv
  <1>3. ~NotFound.found /\ Native.found /\ Native.package = NoPackage
    BY DEF NotFound, Native
  <1> DEFINE Selected(found) ==
        found.found =>
          \/ found = Native
          \/ \E p \in listed : \E app \in Manifest[p].apps :
               /\ found = Registered(p, app) /\ Identified(found)
               /\ app.at = "inside" /\ Candidates(p) = {app}
  <1>4. ASSUME NEW p \in listed PROVE Selected(RegisteredDesktop(p))
    BY <1>2, RegisteredIsTheCandidate
  <1>5. Selected(NotFound) /\ Selected(Native)
    BY <1>3
  <1>6. Selected(desktop')
    <2>1. CASE override # NoOverride
      <3>1. desktop' = OverrideDesktop
        BY <2>1 DEF Select
      <3>2. CASE \E i \in DOMAIN records : records[i] = override.package /\ Manifest[records[i]].root
        <4>1. override.package \in listed
          BY <1>2, <3>2
        <4>2. desktop' \in {RegisteredDesktop(override.package), NotFound}
          BY <3>1, <3>2 DEF OverrideDesktop
        <4> HIDE DEF Selected
        <4> QED BY <1>4, <1>5, <4>1, <4>2
      <3>3. CASE ~\E i \in DOMAIN records : records[i] = override.package /\ Manifest[records[i]].root
        <4>1. desktop' \in {NotFound, Native}
          BY <3>1, <3>3 DEF OverrideDesktop
        <4> HIDE DEF Selected
        <4> QED BY <1>5, <4>1
      <3> QED BY <3>2, <3>3
    <2>2. CASE override = NoOverride /\ records = <<>>
      <3>1. desktop' = NotFound
        BY <2>2 DEF Select
      <3> QED BY <1>5, <3>1
    <2>3. CASE override = NoOverride /\ records # <<>>
      <3>1. desktop' = RegisteredDesktop(Head(records))
        BY <2>3 DEF Select
      <3>2. Head(records) \in listed
        BY <1>2, <2>3
      <3> HIDE DEF Selected
      <3> QED BY <1>4, <3>1, <3>2
    <2> QED BY <2>1, <2>2, <2>3
  <1>7. SelectionInv'
    <2>1. (\A p \in listed : TRUE) /\ listed' = listed
      BY <1>1
    <2> QED BY <1>1, <1>6 DEF SelectionInv, Identified
  <1>8. desktop'.found => desktop'.package \in Packages \cup {NoPackage}
    BY <1>2, <1>3, <1>6 DEF Registered
  <1> QED BY <1>1, <1>7, <1>8, SameEnumeration
\* What is left of the file when the lines from the p-th on and before the q-th are
\* the only ones that count as a block's.
LEMMA RestOfLines ==
  ASSUME NEW S, NEW lines \in Seq(S), NEW p \in 1..(Len(lines) + 1), NEW q \in p..(Len(lines) + 1),
         Outside(lines) = 1..(p - 1) \cup q..Len(lines)
  PROVE  Rest(lines) = Remaining(lines, p, q)
  <1> DEFINE n == Len(lines)
             kept == Outside(lines)
             Rank(k) == Cardinality({j \in kept : j <= k})
             d == q - p
             new == Remaining(lines, p, q)
  <1>1. n \in Nat /\ p \in Nat /\ q \in Nat /\ p # 0 /\ p <= q /\ q <= n + 1 /\ d \in Nat
    OBVIOUS
  <1>2. ASSUME NEW a \in Nat, NEW b \in Nat, NEW e \in Nat, a < b, b <= e + 1
        PROVE  Cardinality(1..a \cup b..e) = a + (e + 1 - b)
    <2>1. IsFiniteSet(1..a) /\ Cardinality(1..a) = a
      <3>1. 1 \in Nat /\ 1 <= a + 1
        OBVIOUS
      <3>2. IsFiniteSet(1..a) /\ Cardinality(1..a) = a + 1 - 1
        BY <3>1, SizeOfInterval
      <3> QED BY <3>2
    <2>2. IsFiniteSet(b..e) /\ Cardinality(b..e) = e + 1 - b
      BY <1>2, SizeOfInterval
    <2>3. (1..a) \cap (b..e) = {}
      BY <1>2
    <2>4. Cardinality(1..a \cup b..e) = Cardinality(1..a) + Cardinality(b..e) - Cardinality((1..a) \cap (b..e))
      BY <2>1, <2>2, FS_Union
    <2>5. Cardinality((1..a) \cap (b..e)) = 0
      BY <2>3, FS_EmptySet
    <2> QED BY <1>2, <2>1, <2>2, <2>4, <2>5
  <1>3. Cardinality(kept) = n - d
    BY <1>1, <1>2
  <1>4. ASSUME NEW k \in 1..(p - 1) PROVE Rank(k) = k
    <2>1. {j \in kept : j <= k} = 1..k
      BY <1>1
    <2>2. Cardinality(1..k) = k
      BY SizeOfInterval
    <2> QED BY <2>1, <2>2
  <1>5. ASSUME NEW k \in q..n PROVE Rank(k) = k - d
    <2>1. {j \in kept : j <= k} = 1..(p - 1) \cup q..k
      BY <1>1
    <2>2. Cardinality(1..(p - 1) \cup q..k) = (p - 1) + (k + 1 - q)
      BY <1>1, <1>2
    <2>3. (p - 1) + (k + 1 - q) = k - d
      BY <1>1
    <2> QED BY <2>1, <2>2, <2>3
  <1> HIDE DEF Rank
  <1>6. /\ new \in Seq(S) /\ Len(new) = n - d
        /\ \A i \in 1..(p - 1) : new[i] = lines[i]
        /\ \A i \in q..n : new[i - d] = lines[i]
    BY RemainingLines DEF IsRemaining
  <1> HIDE DEF new
  <1>7. ASSUME NEW i \in 1..(n - d)
        PROVE  lines[CHOOSE k \in kept : Rank(k) = i] = new[i]
    <2>1. \A k \in kept : k \in 1..(p - 1) \/ k \in q..n
      OBVIOUS
    <2>2. CASE i < p
      <3>1. i \in kept /\ Rank(i) = i
        BY <1>1, <1>4, <2>2
      <3>2. \A k \in kept : Rank(k) = i => k = i
        BY <1>1, <1>4, <1>5, <2>1, <2>2
      <3>3. (CHOOSE k \in kept : Rank(k) = i) = i
        BY <3>1, <3>2
      <3>4. new[i] = lines[i]
        <4>1. i \in 1..(p - 1)
          BY <1>1, <2>2
        <4> QED BY <1>6, <4>1
      <3> HIDE DEF kept
      <3> QED BY <3>3, <3>4
    <2>3. CASE i >= p
      <3>1. i + d \in q..n /\ i + d \in kept /\ Rank(i + d) = i /\ (i + d) - d = i
        <4>1. i + d \in q..n /\ (i + d) - d = i
          BY <1>1, <2>3
        <4> QED BY <1>5, <4>1
      <3>2. ASSUME NEW k \in kept, Rank(k) = i PROVE k = i + d
        <4>1. k \notin 1..(p - 1)
          BY <1>1, <1>4, <2>3, <3>2
        <4>2. k \in q..n /\ Rank(k) = k - d
          BY <1>5, <2>1, <4>1
        <4> QED BY <1>1, <3>2, <4>2
      <3>3. (CHOOSE k \in kept : Rank(k) = i) = i + d
        BY <3>1, <3>2
      <3> QED BY <1>6, <3>1, <3>3
    <2> QED BY <1>1, <2>2, <2>3
  <1>8. Rest(lines) = [i \in 1..(n - d) |-> lines[CHOOSE k \in kept : Rank(k) = i]]
    <2>1. Rest(lines) = [i \in 1..Cardinality(kept) |-> lines[CHOOSE k \in kept : Rank(k) = i]]
      BY DEF Rest, Rank
    <2> HIDE DEF kept
    <2> QED BY <1>3, <2>1
  <1>9. new = [i \in 1..(n - d) |-> new[i]]
    BY <1>1, <1>6
  <1> HIDE DEF kept, d, n
  <1>10. Rest(lines) = new
    BY <1>7, <1>8, <1>9
  <1> QED BY <1>10 DEF new

------------------------------------------------------------------------------
(* The lines of a file.                                                    *)

Decent(line) ==
  /\ line.kind \in Kinds \cup {"OPEN"}
  /\ line.kind = "NO_PROXY" => line.value \in Seq(Pieces) \ {<<>>}

LEMMA BlockLines ==
  ASSUME NEW c
  PROVE  /\ Len(Block(c)) = 5
         /\ Block(c)[1] = Line("BEGIN") /\ Block(c)[2] = Entry("HTTP_PROXY", c.endpoint)
         /\ Block(c)[3] = Entry("HTTPS_PROXY", c.endpoint) /\ Block(c)[4] = Entry("NO_PROXY", NoProxyValue(c))
         /\ Block(c)[5] = Line("END")
         /\ \A S : (\A i \in 1..5 : Block(c)[i] \in S) => Block(c) \in Seq(S)
  BY DEF Block

LEMMA LinesAreDecent ==
  \A line \in AllLines : Decent(line)
  <1>1. ASSUME NEW line \in Lines PROVE Decent(line)
    <2>1. CASE line \in {Line(kind) : kind \in {"BEGIN", "END", "OTHER", "PROXY", "TEXT", "OPEN"}}
      BY <2>1 DEF Decent, Line, Kinds
    <2>2. CASE line \in {Entry(key, url) : key \in {"HTTP_PROXY", "HTTPS_PROXY"}, url \in Endpoints \cup {Foreign}}
      BY <2>2 DEF Decent, Entry, Kinds, Keys
    <2>3. CASE line \in {Entry("NO_PROXY", value) : value \in Values}
      <3>1. PICK value \in Values : line = Entry("NO_PROXY", value)
        BY <2>3
      <3>2. value \in Seq(Pieces) \ {<<>>}
        BY ManagedBlockAssumption
      <3> QED BY <3>1, <3>2 DEF Decent, Entry, Kinds, Keys
    <2> QED BY <2>1, <2>2, <2>3 DEF Lines
  <1>2. ASSUME NEW c \in Configs, NEW line \in Range(Block(c)) PROVE Decent(line)
    <2>1. c.no_proxy \in Lists
      BY DEF Configs
    <2>2. NoProxyValue(c) \in Seq(Pieces) \ {<<>>}
      <3>1. c.no_proxy \in Seq(Seq(Pieces) \ {<<>>}) /\ c.no_proxy # <<>>
        BY <2>1, ManagedBlockAssumption
      <3> QED BY <3>1, FlattenType DEF NoProxyValue
    <2>3. PICK i \in 1..5 : line = Block(c)[i]
      BY DEF Range, Block
    <2>4. line \in {Line("BEGIN"), Entry("HTTP_PROXY", c.endpoint), Entry("HTTPS_PROXY", c.endpoint),
                    Entry("NO_PROXY", NoProxyValue(c)), Line("END")}
      BY <2>3, BlockLines
    <2> HIDE DEF NoProxyValue
    <2> QED BY <2>2, <2>4 DEF Decent, Line, Entry, Kinds, Keys
  <1> QED BY <1>1, <1>2 DEF AllLines

LEMMA BlockIsLines ==
  ASSUME NEW c \in Configs
  PROVE  Block(c) \in Seq(AllLines)
  <1>1. \A i \in 1..5 : Block(c)[i] \in Range(Block(c))
    BY DEF Range, Block
  <1>2. \A i \in 1..5 : Block(c)[i] \in AllLines
    BY <1>1 DEF AllLines
  <1> QED BY <1>2, BlockLines

------------------------------------------------------------------------------
(* What parse_env accepts.                                                 *)

LEMMA CouldBeIsCut ==
  ASSUME NEW value
  PROVE  CouldBeGenerated(value) <=> CutInto(value, Len(value), MaxEntries)
  BY DEF CouldBeGenerated, CutInto, CutAt, Reaches

Safe(lines) == \A i \in 1..Len(lines) : ~UnsafeEnvLine(lines[i])

\* The values of a block hold together.
Consistent(lines, p) ==
  \E url \in Endpoints : \A i \in (p + 1)..(p + 3) :
    IF lines[i].kind = "NO_PROXY" THEN CouldBeGenerated(lines[i].value) ELSE lines[i].value = url

LEMMA BlockAtIsFramed ==
  ASSUME NEW S, NEW lines \in Seq(S), NEW p
  PROVE  p \in Blocks(lines) /\ Markers(lines) = {p, p + 4} <=> Framed(lines, p) /\ Consistent(lines, p)
  <1>1. DOMAIN lines = 1..Len(lines)
    OBVIOUS
  <1>2. Markers(lines) = MarkersIn(lines)
    BY <1>1 DEF Markers, MarkersIn, MarkerKinds
  <1> QED BY <1>1, <1>2 DEF Blocks, BlockAt, Framed, Consistent

LEMMA ValuesAreConsistent ==
  ASSUME NEW S, NEW lines \in Seq(S), \A i \in 1..Len(lines) : Decent(lines[i]),
         NEW p, Framed(lines, p), NEW values, \A i \in (p + 1)..(p + 3) : values[lines[i].kind] = lines[i].value
  PROVE  ValidateManagedValues(values) <=> Consistent(lines, p)
  <1>1. p \in Nat /\ p + 4 <= Len(lines) /\ {lines[i].kind : i \in (p + 1)..(p + 3)} = Keys /\ Len(lines) \in Nat
    BY DEF Framed
  <1>2. PICK i \in (p + 1)..(p + 3), j \in (p + 1)..(p + 3), k \in (p + 1)..(p + 3) :
          lines[i].kind = "HTTP_PROXY" /\ lines[j].kind = "HTTPS_PROXY" /\ lines[k].kind = "NO_PROXY"
    <2>1. \A key \in Keys : \E j \in (p + 1)..(p + 3) : lines[j].kind = key
      BY <1>1
    <2>2. "HTTP_PROXY" \in Keys /\ "HTTPS_PROXY" \in Keys /\ "NO_PROXY" \in Keys
      BY DEF Keys
    <2> QED BY <2>1, <2>2
  <1>3. values["HTTP_PROXY"] = lines[i].value /\ values["HTTPS_PROXY"] = lines[j].value /\ values["NO_PROXY"] = lines[k].value
    BY <1>2
  <1>4. \A h \in (p + 1)..(p + 3) : lines[h].kind \in Keys
    BY <1>1
  <1>5. \A h \in (p + 1)..(p + 3) :
          CASE lines[h].kind = "HTTP_PROXY" -> lines[h].value = lines[i].value
            [] lines[h].kind = "HTTPS_PROXY" -> lines[h].value = lines[j].value
            [] OTHER -> lines[h].kind = "NO_PROXY" /\ lines[h].value = lines[k].value
    BY <1>3, <1>4 DEF Keys
  <1>6. GeneratedNoProxy(lines[k].value) <=> CouldBeGenerated(lines[k].value)
    <2>1. k \in 1..Len(lines)
      BY <1>1
    <2>2. lines[k].value \in Seq(Pieces) \ {<<>>}
      BY <1>2, <2>1 DEF Decent
    <2>3. Len(lines[k].value) \in Nat \ {0}
      BY <2>2
    <2> QED BY <2>3, GeneratedIsCut, CouldBeIsCut
  <1>7. ASSUME ValidateManagedValues(values) PROVE Consistent(lines, p)
    <2>1. /\ lines[i].value \in Endpoints /\ lines[j].value = lines[i].value /\ CouldBeGenerated(lines[k].value)
      BY <1>3, <1>6, <1>7 DEF ValidateManagedValues
    <2> QED BY <1>5, <2>1 DEF Consistent
  <1>8. ASSUME Consistent(lines, p) PROVE ValidateManagedValues(values)
    BY <1>2, <1>3, <1>6, <1>8 DEF Consistent, ValidateManagedValues
  <1> QED BY <1>7, <1>8

\* What parse_env knows of the block at p.
IsParsed(parsed, lines, p) ==
  /\ parsed.begin = p /\ parsed.end = p + 4 /\ Framed(lines, p) /\ DOMAIN parsed.values = Keys
  /\ \A i \in (p + 1)..(p + 3) : parsed.values[lines[i].kind] = lines[i].value
  /\ parsed.conflict <=>
       \E i \in 1..Len(lines) : i \notin (p + 1)..(p + 3) /\ lines[i].kind \in Keys \cup {"PROXY"}

\* parse_env: no block, or exactly the one whose markers are the only ones.
LEMMA ParsedFile ==
  ASSUME NEW S, NEW lines \in Seq(S), \A i \in 1..Len(lines) : Decent(lines[i])
  PROVE  /\ ParseEnv(lines).state = "none" <=> Safe(lines) /\ Markers(lines) = {}
         /\ ParseEnv(lines).state = "block" <=>
              Safe(lines) /\ \E p \in Blocks(lines) : Markers(lines) = {p, p + 4}
         /\ \A p \in Blocks(lines) : Safe(lines) /\ Markers(lines) = {p, p + 4} => IsParsed(ParseEnv(lines), lines, p)
         /\ ParseEnv(lines).state = "none" =>
              (ParseEnv(lines).conflict <=> \E i \in 1..Len(lines) : lines[i].kind \in Keys \cup {"PROXY"})
  <1>1. PICK s, parsed : s = Scan(lines) /\ parsed = ParseEnv(lines)
    OBVIOUS
  <1>2. DOMAIN lines = 1..Len(lines)
    OBVIOUS
  <1>3. /\ parsed.state = IF ~Safe(lines) THEN "unsupported"
                          ELSE IF ~s.ok \/ ~Complete(s) THEN "invalid"
                          ELSE IF s.begin = 0 THEN "none"
                          ELSE IF ~ValidateManagedValues(s.values) THEN "invalid" ELSE "block"
        /\ parsed.begin = s.begin /\ parsed.end = s.end /\ parsed.values = s.values /\ parsed.conflict = s.conflict
    BY <1>1, <1>2 DEF ParseEnv, Safe
  <1>4. CASE ~Safe(lines)
    BY <1>1, <1>3, <1>4
  <1>5. CASE Safe(lines)
    <2>1. \A i \in 1..Len(lines) : lines[i].kind \in Kinds
      BY <1>5 DEF Safe, UnsafeEnvLine, Decent
    <2>2. parsed.state = "none" <=> Markers(lines) = {}
      <3>1. Markers(lines) = MarkersIn(lines)
        BY <1>2 DEF Markers, MarkersIn, MarkerKinds
      <3>2. s.ok /\ Complete(s) /\ s.begin = 0 <=> MarkersIn(lines) = {}
        BY <1>1, <2>1, NoMarkers
      <3> QED BY <1>3, <1>5, <3>1, <3>2
    <2>3. ASSUME s.ok, Complete(s), s.begin # 0
          PROVE  /\ Framed(lines, s.begin) /\ s.end = s.begin + 4 /\ DOMAIN s.values = Keys
                 /\ \A i \in (s.begin + 1)..(s.begin + 3) : s.values[lines[i].kind] = lines[i].value
                 /\ s.conflict <=> \E i \in 1..Len(lines) : i \notin (s.begin + 1)..(s.begin + 3) /\ lines[i].kind \in Keys \cup {"PROXY"}
      BY <1>1, <2>1, <2>3, BlockIsFramed
    <2>4. ASSUME parsed.state = "block"
          PROVE  s.begin \in Blocks(lines) /\ Markers(lines) = {s.begin, s.begin + 4}
      <3>1. s.ok /\ Complete(s) /\ s.begin # 0 /\ ValidateManagedValues(s.values)
        BY <1>3, <1>5, <2>4
      <3>2. Framed(lines, s.begin) /\ \A i \in (s.begin + 1)..(s.begin + 3) : s.values[lines[i].kind] = lines[i].value
        BY <2>3, <3>1
      <3>3. Consistent(lines, s.begin)
        BY <3>1, <3>2, ValuesAreConsistent
      <3> QED BY <3>2, <3>3, BlockAtIsFramed
    <2>5. ASSUME NEW p, p \in Blocks(lines), Markers(lines) = {p, p + 4}
          PROVE  parsed.state = "block" /\ IsParsed(parsed, lines, p)
      <3>1. Framed(lines, p) /\ Consistent(lines, p)
        BY <2>5, BlockAtIsFramed
      <3>2. s.ok /\ Complete(s) /\ s.begin = p /\ p # 0
        BY <1>1, <2>1, <3>1, FramedIsBlock DEF Framed
      <3>3. /\ s.end = p + 4 /\ DOMAIN s.values = Keys
            /\ \A i \in (p + 1)..(p + 3) : s.values[lines[i].kind] = lines[i].value
            /\ s.conflict <=> \E i \in 1..Len(lines) : i \notin (p + 1)..(p + 3) /\ lines[i].kind \in Keys \cup {"PROXY"}
        BY <2>3, <3>2
      <3>4. ValidateManagedValues(s.values)
        BY <3>1, <3>3, ValuesAreConsistent
      <3>5. parsed.state = "block" /\ parsed.begin = p
        BY <1>3, <1>5, <3>2, <3>4
      <3> QED BY <1>3, <3>1, <3>3, <3>5 DEF IsParsed
    <2>6. ASSUME parsed.state = "none"
          PROVE  s.conflict <=> \E i \in 1..Len(lines) : lines[i].kind \in Keys \cup {"PROXY"}
      <3>1. s.ok /\ s.begin = 0
        BY <1>3, <1>5, <2>6
      <3>2. ScanInv(lines, Len(lines), s) /\ Interior(s, Len(lines)) = {}
        BY <1>1, <2>1, <3>1, ScanStates DEF Interior
      <3> QED BY <3>2 DEF ScanInv
    <2> QED BY <1>1, <1>3, <1>5, <2>2, <2>4, <2>5, <2>6
  <1> QED BY <1>4, <1>5

------------------------------------------------------------------------------
(* The file without its block.                                             *)

LEMMA SameLines ==
  ASSUME NEW S, NEW s \in Seq(S), NEW t \in Seq(S), Len(s) = Len(t), \A i \in 1..Len(s) : s[i] = t[i]
  PROVE  s = t
  OBVIOUS

LEMMA WholeFile ==
  ASSUME NEW S, NEW lines \in Seq(S)
  PROVE  Remaining(lines, Len(lines) + 1, Len(lines) + 1) = lines
  <1> DEFINE n == Len(lines)
  <1>1. n \in Nat /\ n + 1 \in 1..(n + 1) /\ n + 1 \in (n + 1)..(n + 1)
    OBVIOUS
  <1>2. PICK new : new = Remaining(lines, n + 1, n + 1)
    OBVIOUS
  <1>3. new \in Seq(S) /\ Len(new) = n - ((n + 1) - (n + 1)) /\ \A i \in 1..((n + 1) - 1) : new[i] = lines[i]
    BY <1>1, <1>2, RemainingLines DEF IsRemaining
  <1>4. Len(new) = n /\ \A i \in 1..n : new[i] = lines[i]
    BY <1>1, <1>3
  <1> QED BY <1>2, <1>3, <1>4, SameLines

LEMMA RestWithBlock ==
  ASSUME NEW S, NEW lines \in Seq(S), NEW p \in Blocks(lines), Markers(lines) = {p, p + 4}
  PROVE  /\ p \in 1..Len(lines) /\ p + 4 <= Len(lines)
         /\ Rest(lines) = Remaining(lines, p, p + 5)
  <1>1. DOMAIN lines = 1..Len(lines) /\ Len(lines) \in Nat
    OBVIOUS
  <1>2. p \in 1..Len(lines) /\ p + 4 <= Len(lines) /\ lines[p + 4].kind = "END"
    BY <1>1 DEF Blocks, BlockAt
  <1>3. ASSUME NEW q \in Blocks(lines) PROVE q = p
    <2>1. q \in 1..Len(lines) /\ lines[q].kind = "BEGIN"
      BY <1>1 DEF Blocks, BlockAt
    <2>2. q \in {p, p + 4}
      BY <1>1, <2>1 DEF Markers
    <2> QED BY <1>2, <2>1, <2>2
  <1>4. Outside(lines) = {i \in 1..Len(lines) : i \notin p..(p + 4)}
    BY <1>1, <1>3 DEF Outside
  <1>5. Outside(lines) = 1..(p - 1) \cup (p + 5)..Len(lines)
    BY <1>1, <1>2, <1>4
  <1>6. p \in 1..(Len(lines) + 1) /\ p + 5 \in p..(Len(lines) + 1)
    BY <1>1, <1>2
  <1> QED BY <1>2, <1>5, <1>6, RestOfLines

LEMMA RestWithoutBlock ==
  ASSUME NEW S, NEW lines \in Seq(S), Markers(lines) = {}
  PROVE  Rest(lines) = lines
  <1> DEFINE n == Len(lines)
  <1>1. DOMAIN lines = 1..n /\ n \in Nat
    OBVIOUS
  <1>2. Blocks(lines) = {}
    BY <1>1 DEF Blocks, BlockAt, Markers
  <1>3. Outside(lines) = 1..n
    BY <1>1, <1>2 DEF Outside
  <1>4. Outside(lines) = 1..((n + 1) - 1) \cup (n + 1)..n
    BY <1>1, <1>3
  <1>5. n + 1 \in 1..(n + 1) /\ n + 1 \in (n + 1)..(n + 1)
    BY <1>1
  <1>6. Rest(lines) = Remaining(lines, n + 1, n + 1)
    BY <1>4, <1>5, RestOfLines
  <1> QED BY <1>6, WholeFile

------------------------------------------------------------------------------
(* The block a launch writes.                                              *)

LEMMA PlannedValue ==
  ASSUME NEW c \in Configs, CanPlan(c)
  PROVE  /\ NoProxyValue(c) \in Seq(Pieces) \ {<<>>} /\ CouldBeGenerated(NoProxyValue(c))
         /\ ~UnsafeEnvLine(Entry("NO_PROXY", NoProxyValue(c)))
  <1> DEFINE n == Len(c.no_proxy)
  <1>1. n \in 1..MaxEntries /\ (\A i \in 1..n : c.no_proxy[i] = <<"loopback">>) /\ MaxEntries \in Nat /\ ValidEntry(<<"loopback">>)
    <2>1. c.no_proxy \in Seq(Seq(Pieces) \ {<<>>})
      BY ManagedBlockAssumption DEF Configs
    <2>2. DOMAIN c.no_proxy = 1..n /\ n \in Nat
      BY <2>1
    <2>3. n \in 1..MaxEntries /\ \A i \in 1..n : ValidEntry(c.no_proxy[i]) /\ c.no_proxy[i] = <<"loopback">>
      BY <2>2 DEF CanPlan, ValidConfig
    <2>4. ValidEntry(<<"loopback">>)
      <3>1. 1 \in 1..n
        BY <2>2, <2>3
      <3> QED BY <2>3, <3>1
    <2>5. MaxEntries \in Nat
      BY ManagedBlockAssumption
    <2> QED BY <2>3, <2>4, <2>5
  <1>2. PICK v : v = [i \in 1..n |-> "loopback"]
    OBVIOUS
  <1>3. NoProxyValue(c) = v
    <2>1. n \in Nat \ {0}
      BY <1>1
    <2> QED BY <1>1, <1>2, <2>1, FlattenAlike DEF NoProxyValue
  <1>4. v \in Seq(Pieces) \ {<<>>} /\ Len(v) = n /\ n \in Nat /\ n # 0
    <2>1. "loopback" \in Pieces
      BY DEF Pieces, Length
    <2>2. v \in Seq(Pieces) /\ Len(v) = n
      BY <1>1, <1>2, <2>1
    <2> QED BY <1>1, <2>2
  <1>5. \A i \in 1..n : v[i] = "loopback"
    BY <1>2
  <1>6. CutInto(v, n, MaxEntries)
    <2> DEFINE cuts == 1..(n - 1)
    <2>1. Cardinality(cuts) < MaxEntries
      <3>1. 1 \in Nat /\ n - 1 \in Nat /\ 1 <= (n - 1) + 1
        BY <1>4
      <3>2. Cardinality(cuts) = (n - 1) + 1 - 1
        BY <3>1, SizeOfInterval
      <3> QED BY <1>1, <3>1, <3>2
    <2>2. CutAt(v, cuts, n)
      <3> SUFFICES ASSUME NEW i \in cuts \cup {0, n}, NEW j \in cuts \cup {0, n}, i < j, \A h \in cuts : h <= i \/ h >= j
                   PROVE  ValidEntry(SubSeq(v, i + 1, j))
        BY DEF CutAt, Reaches
      <3>1. i \in 0..n /\ j \in 1..n /\ j = i + 1
        <4>1. i \in 0..(n - 1) /\ j \in 1..n
          BY <1>4
        <4>2. i + 1 \in cuts => i + 1 >= j
          BY <4>1
        <4>3. i + 1 \notin cuts => i + 1 = n
          BY <1>4, <4>1
        <4> QED BY <1>4, <4>1, <4>2, <4>3
      <3>2. SubSeq(v, j, j) = <<"loopback">>
        <4>1. SubSeq(v, j, j) \in Seq(Pieces) /\ Len(SubSeq(v, j, j)) = 1 /\ SubSeq(v, j, j)[1] = v[j]
          BY <1>4, <3>1
        <4>2. v[j] = "loopback"
          BY <1>5, <3>1
        <4>3. PICK one : one = <<"loopback">>
          OBVIOUS
        <4>4. one \in Seq(Pieces) /\ Len(one) = 1 /\ one[1] = "loopback"
          BY <4>3 DEF Pieces, Length
        <4>5. PICK part : part = SubSeq(v, j, j)
          OBVIOUS
        <4>6. part \in Seq(Pieces) /\ Len(part) = Len(one) /\ \A h \in 1..Len(part) : part[h] = one[h]
          BY <4>1, <4>2, <4>4, <4>5
        <4> QED BY <4>3, <4>4, <4>5, <4>6, SameLines
      <3> QED BY <1>1, <3>1, <3>2
    <2> QED BY <2>1, <2>2 DEF CutInto
  <1>7. ~UnsafeEnvLine(Entry("NO_PROXY", v))
    <2>1. DOMAIN v = 1..n
      BY <1>2
    <2>2. {i \in DOMAIN v : v[i] = "quote"} = {}
      BY <1>5, <2>1
    <2>3. Cardinality({i \in DOMAIN v : v[i] = "quote"}) = 0
      BY <2>2, FS_EmptySet
    <2>4. Last(v) = "loopback"
      BY <1>4, <1>5 DEF Last
    <2>5. Entry("NO_PROXY", v).kind = "NO_PROXY" /\ Entry("NO_PROXY", v).value = v
      BY DEF Entry
    <2> QED BY <2>3, <2>4, <2>5 DEF UnsafeEnvLine
  <1> QED BY <1>3, <1>4, <1>6, <1>7, CouldBeIsCut

\* Lines that are not Guard's and do not get in its way.
Foreigners == MarkerKinds \cup Keys \cup {"PROXY"}

\* The new file, line by line.
IsWritten(new, lines, c, p, q) ==
  /\ p \in 1..Len(new) /\ p + 4 <= Len(new) /\ Len(new) = Len(lines) + 5 - (q - p)
  /\ new[p] = Line("BEGIN") /\ new[p + 1] = Entry("HTTP_PROXY", c.endpoint)
  /\ new[p + 2] = Entry("HTTPS_PROXY", c.endpoint) /\ new[p + 3] = Entry("NO_PROXY", NoProxyValue(c))
  /\ new[p + 4] = Line("END")
  /\ \A i \in 1..(p - 1) : new[i] = lines[i]
  /\ \A i \in (p + 5)..Len(new) : i + (q - p) - 5 \in q..Len(lines) /\ new[i] = lines[i + (q - p) - 5]

LEMMA WrittenLines ==
  ASSUME NEW lines \in Seq(AllLines), NEW c \in Configs,
         NEW p \in 1..(Len(lines) + 1), NEW q \in p..(Len(lines) + 1), NEW new, new = Spliced(lines, p, Block(c), q)
  PROVE  new \in Seq(AllLines) /\ IsWritten(new, lines, c, p, q)
  <1> DEFINE n == Len(lines)
  <1>1. PICK block : block = Block(c)
    OBVIOUS
  <1>2. block \in Seq(AllLines) /\ Len(block) = 5
    BY <1>1, BlockIsLines, BlockLines
  <1>3. new \in Seq(AllLines) /\ IsSpliced(new, lines, p, block, Len(block), q)
    BY <1>1, <1>2, SplicedLines
  <1>4. /\ Len(new) = (p - 1) + 5 + (n + 1 - q)
        /\ \A i \in 1..(p - 1) : new[i] = lines[i]
        /\ \A i \in 1..5 : new[(p - 1) + i] = block[i]
        /\ \A i \in q..n : new[i + (p - 1) + 5 + 1 - q] = lines[i]
    BY <1>2, <1>3 DEF IsSpliced
  <1>5. n \in Nat /\ p \in Nat /\ q \in Nat /\ p # 0 /\ p <= q /\ q <= n + 1
    OBVIOUS
  <1>6. p \in 1..Len(new) /\ p + 4 <= Len(new) /\ Len(new) = n + 5 - (q - p)
    <2>1. Len(new) = (p - 1) + 5 + (n + 1 - q)
      BY <1>4
    <2> QED BY <1>5, <2>1
  <1>7. /\ new[(p - 1) + 1] = block[1] /\ new[(p - 1) + 2] = block[2] /\ new[(p - 1) + 3] = block[3]
        /\ new[(p - 1) + 4] = block[4] /\ new[(p - 1) + 5] = block[5]
    BY <1>4
  <1>8. new[p] = block[1] /\ new[p + 1] = block[2] /\ new[p + 2] = block[3] /\ new[p + 3] = block[4] /\ new[p + 4] = block[5]
    BY <1>5, <1>7
  <1>9. ASSUME NEW i \in (p + 5)..Len(new) PROVE i + (q - p) - 5 \in q..n /\ new[i] = lines[i + (q - p) - 5]
    <2>1. i + (q - p) - 5 \in q..n /\ (i + (q - p) - 5) + (p - 1) + 5 + 1 - q = i
      BY <1>5, <1>6
    <2>2. new[(i + (q - p) - 5) + (p - 1) + 5 + 1 - q] = lines[i + (q - p) - 5]
      BY <1>4, <2>1
    <2> QED BY <2>1, <2>2
  <1>10. /\ new[p] = Line("BEGIN") /\ new[p + 1] = Entry("HTTP_PROXY", c.endpoint)
         /\ new[p + 2] = Entry("HTTPS_PROXY", c.endpoint) /\ new[p + 3] = Entry("NO_PROXY", NoProxyValue(c))
         /\ new[p + 4] = Line("END")
    BY <1>1, <1>8, BlockLines
  <1> QED BY <1>3, <1>4, <1>6, <1>9, <1>10 DEF IsWritten

LEMMA WrittenBlock ==
  ASSUME NEW lines \in Seq(AllLines), Safe(lines), NEW c \in Configs, CanPlan(c),
         NEW p \in 1..(Len(lines) + 1), NEW q \in p..(Len(lines) + 1),
         \A i \in 1..(p - 1) \cup q..Len(lines) : lines[i].kind \notin Foreigners
  PROVE  LET new == Spliced(lines, p, Block(c), q) IN
         /\ new \in Seq(AllLines) /\ Safe(new) /\ p \in Blocks(new) /\ Markers(new) = {p, p + 4}
         /\ ParseEnv(new).state = "block" /\ ParseEnv(new).begin = p /\ ParseEnv(new).end = p + 4
         /\ ~ParseEnv(new).conflict /\ CurrentValues(ParseEnv(new), c)
         /\ Remaining(new, p, p + 5) = Remaining(lines, p, q)
  <1> DEFINE n == Len(lines)
             v == NoProxyValue(c)
  <1>1. PICK new : new = Spliced(lines, p, Block(c), q)
    OBVIOUS
  <1>2. /\ new \in Seq(AllLines) /\ p \in 1..Len(new) /\ p + 4 <= Len(new)
        /\ Len(new) = Len(lines) + 5 - (q - p)
        /\ new[p] = Line("BEGIN") /\ new[p + 1] = Entry("HTTP_PROXY", c.endpoint)
        /\ new[p + 2] = Entry("HTTPS_PROXY", c.endpoint) /\ new[p + 3] = Entry("NO_PROXY", v)
        /\ new[p + 4] = Line("END")
        /\ \A i \in 1..(p - 1) : new[i] = lines[i]
        /\ \A i \in (p + 5)..Len(new) : i + (q - p) - 5 \in q..Len(lines) /\ new[i] = lines[i + (q - p) - 5]
    <2>1. new \in Seq(AllLines) /\ IsWritten(new, lines, c, p, q)
      BY <1>1, WrittenLines
    <2> QED BY <2>1 DEF IsWritten
  <1>3. n \in Nat /\ p \in Nat /\ q \in Nat /\ p # 0 /\ p <= q /\ q <= n + 1 /\ Len(new) \in Nat
    BY <1>2
  <1>4. v \in Seq(Pieces) \ {<<>>} /\ CouldBeGenerated(v) /\ ~UnsafeEnvLine(Entry("NO_PROXY", v)) /\ c.endpoint \in Endpoints
    BY PlannedValue DEF Configs
  <1> HIDE DEF v
  <1>5. /\ new[p].kind = "BEGIN" /\ new[p + 4].kind = "END"
        /\ new[p + 1].kind = "HTTP_PROXY" /\ new[p + 1].value = c.endpoint
        /\ new[p + 2].kind = "HTTPS_PROXY" /\ new[p + 2].value = c.endpoint
        /\ new[p + 3].kind = "NO_PROXY" /\ new[p + 3].value = v
    BY <1>2 DEF Line, Entry
  <1>6. \A i \in 1..Len(new) : i \in 1..(p - 1) \/ i \in (p + 5)..Len(new) \/ i \in {p, p + 1, p + 2, p + 3, p + 4}
    BY <1>3
  <1>7. \A i \in 1..(p - 1) \cup (p + 5)..Len(new) : \E j \in 1..(p - 1) \cup q..n : new[i] = lines[j]
    BY <1>2
  <1>8. \A i \in 1..(p - 1) \cup q..n : i \in 1..n
    BY <1>3
  <1>9. \A i \in 1..(p - 1) \cup (p + 5)..Len(new) : new[i].kind \notin Foreigners /\ ~UnsafeEnvLine(new[i])
    BY <1>7, <1>8 DEF Safe
  <1>10. Safe(new)
    <2>1. \A i \in {p, p + 1, p + 2, p + 3, p + 4} : ~UnsafeEnvLine(new[i])
      <3>1. ~UnsafeEnvLine(new[p]) /\ ~UnsafeEnvLine(new[p + 1]) /\ ~UnsafeEnvLine(new[p + 2]) /\ ~UnsafeEnvLine(new[p + 4])
        BY <1>5 DEF UnsafeEnvLine
      <3>2. ~UnsafeEnvLine(new[p + 3])
        BY <1>2, <1>4
      <3> QED BY <3>1, <3>2
    <2> QED BY <1>6, <1>9, <2>1 DEF Safe
  <1>11. DOMAIN new = 1..Len(new)
    BY <1>2
  <1>12. Markers(new) = {p, p + 4}
    <2>1. \A i \in 1..Len(new) : new[i].kind \in {"BEGIN", "END", "OTHER"} => i \in {p, p + 4}
      BY <1>5, <1>6, <1>9 DEF Foreigners, MarkerKinds
    <2>2. p \in 1..Len(new) /\ p + 4 \in 1..Len(new)
      <3>1. p + 4 <= Len(new)
        BY <1>2
      <3> QED BY <1>3, <3>1
    <2> QED BY <1>5, <1>11, <2>1, <2>2 DEF Markers
  <1>13. \A i \in (p + 1)..(p + 3) : i \in {p + 1, p + 2, p + 3}
    BY <1>3
  <1>14. p \in Blocks(new)
    <2>1. {new[i].kind : i \in (p + 1)..(p + 3)} = Keys
      <3>1. p + 1 \in (p + 1)..(p + 3) /\ p + 2 \in (p + 1)..(p + 3) /\ p + 3 \in (p + 1)..(p + 3)
        BY <1>3
      <3> QED BY <1>5, <1>13, <3>1 DEF Keys
    <2>2. \A i \in (p + 1)..(p + 3) : IF new[i].kind = "NO_PROXY" THEN CouldBeGenerated(new[i].value) ELSE new[i].value = c.endpoint
      BY <1>4, <1>5, <1>13
    <2> QED BY <1>2, <1>4, <1>5, <1>11, <2>1, <2>2 DEF Blocks, BlockAt
  <1>15. PICK parsed : parsed = ParseEnv(new)
    OBVIOUS
  <1>16. /\ parsed.state = "block" /\ parsed.begin = p /\ parsed.end = p + 4 /\ DOMAIN parsed.values = Keys
         /\ \A i \in (p + 1)..(p + 3) : parsed.values[new[i].kind] = new[i].value
         /\ parsed.conflict <=> \E i \in 1..Len(new) : i \notin (p + 1)..(p + 3) /\ new[i].kind \in Keys \cup {"PROXY"}
    <2>1. \A i \in 1..Len(new) : Decent(new[i])
      BY <1>2, LinesAreDecent
    <2>2. parsed.state = "block"
      BY <1>2, <1>10, <1>12, <1>14, <1>15, <2>1, ParsedFile
    <2>3. IsParsed(parsed, new, p)
      BY <1>2, <1>10, <1>12, <1>14, <1>15, <2>1, ParsedFile
    <2> QED BY <2>2, <2>3 DEF IsParsed
  <1>17. ~parsed.conflict
    <2>1. \A i \in 1..Len(new) : i \notin (p + 1)..(p + 3) => new[i].kind \notin Keys \cup {"PROXY"}
      <3>1. \A i \in {p, p + 4} : new[i].kind \notin Keys \cup {"PROXY"}
        BY <1>5 DEF Keys
      <3>2. p + 1 \in (p + 1)..(p + 3) /\ p + 2 \in (p + 1)..(p + 3) /\ p + 3 \in (p + 1)..(p + 3)
        BY <1>3
      <3> QED BY <1>6, <1>9, <3>1, <3>2 DEF Foreigners
    <2> QED BY <1>16, <2>1
  <1>18. CurrentValues(parsed, c)
    <2>1. p + 1 \in (p + 1)..(p + 3) /\ p + 2 \in (p + 1)..(p + 3) /\ p + 3 \in (p + 1)..(p + 3)
      BY <1>3
    <2>2. parsed.values["HTTP_PROXY"] = c.endpoint /\ parsed.values["HTTPS_PROXY"] = c.endpoint /\ parsed.values["NO_PROXY"] = v
      <3>1. \A i \in (p + 1)..(p + 3) : parsed.values[new[i].kind] = new[i].value
        BY <1>16
      <3>2. /\ parsed.values[new[p + 1].kind] = new[p + 1].value /\ parsed.values[new[p + 2].kind] = new[p + 2].value
            /\ parsed.values[new[p + 3].kind] = new[p + 3].value
        BY <2>1, <3>1
      <3> QED BY <1>5, <3>2
    <2>3. parsed.values = [key \in Keys |-> IF key = "NO_PROXY" THEN v ELSE c.endpoint]
      <3>1. \A key \in Keys : parsed.values[key] = IF key = "NO_PROXY" THEN v ELSE c.endpoint
        BY <2>2 DEF Keys
      <3>2. parsed.values = [key \in Keys |-> parsed.values[key]]
        <4>1. parsed.values = Scan(new).values
          BY <1>15 DEF ParseEnv
        <4>2. Scan(new) \in ScanType(new)
          <5>1. \A i \in 1..Len(new) : new[i].kind \in Kinds
            <6>1. \A i \in 1..Len(new) : Decent(new[i])
              BY <1>2, LinesAreDecent
            <6> QED BY <1>10, <6>1 DEF Safe, UnsafeEnvLine, Decent
          <5> QED BY <1>2, <5>1, ScanStates
        <4>3. \E K \in SUBSET Keys : \E W : parsed.values \in [K -> W]
          BY <4>1, <4>2 DEF ScanType, States, Seen
        <4> QED BY <1>16, <4>3
      <3> QED BY <3>1, <3>2
    <2> QED BY <1>16, <2>3 DEF CurrentValues, v
  <1>19. Remaining(new, p, p + 5) = Remaining(lines, p, q)
    <2>1. PICK s, t : s = Remaining(new, p, p + 5) /\ t = Remaining(lines, p, q)
      OBVIOUS
    <2>2. p \in 1..(Len(new) + 1) /\ p + 5 \in p..(Len(new) + 1)
      BY <1>2, <1>3
    <2>3. /\ s \in Seq(AllLines) /\ Len(s) = Len(new) - ((p + 5) - p)
          /\ \A i \in 1..(p - 1) : s[i] = new[i]
          /\ \A i \in (p + 5)..Len(new) : s[i - ((p + 5) - p)] = new[i]
      <3>1. s \in Seq(AllLines) /\ IsRemaining(s, new, p, p + 5)
        <4>1. PICK r : r = p + 5
          OBVIOUS
        <4>2. r \in p..(Len(new) + 1)
          BY <2>2, <4>1
        <4>3. Remaining(new, p, r) \in Seq(AllLines) /\ IsRemaining(Remaining(new, p, r), new, p, r)
          BY <1>2, <2>2, <4>2, RemainingLines
        <4> QED BY <2>1, <4>1, <4>3
      <3> QED BY <3>1 DEF IsRemaining
    <2>4. /\ t \in Seq(AllLines) /\ Len(t) = n - (q - p)
          /\ \A i \in 1..(p - 1) : t[i] = lines[i]
          /\ \A i \in q..n : t[i - (q - p)] = lines[i]
      BY <2>1, RemainingLines DEF IsRemaining
    <2>5. Len(s) = Len(t) /\ Len(s) = n - (q - p)
      BY <1>2, <1>3, <2>3, <2>4
    <2>6. ASSUME NEW i \in 1..Len(s) PROVE s[i] = t[i]
      <3>1. CASE i < p
        <4>1. i \in 1..(p - 1)
          BY <1>3, <3>1
        <4> QED BY <1>2, <2>3, <2>4, <4>1
      <3>2. CASE i >= p
        <4>1. i + 5 \in (p + 5)..Len(new) /\ (i + 5) - ((p + 5) - p) = i
          BY <1>2, <1>3, <2>5, <3>2
        <4>2. (i + 5) + (q - p) - 5 \in q..n /\ ((i + 5) + (q - p) - 5) - (q - p) = i
          BY <1>3, <2>5, <3>2
        <4>3. s[i] = new[i + 5] /\ new[i + 5] = lines[(i + 5) + (q - p) - 5]
          BY <1>2, <2>3, <4>1
        <4>4. t[i] = lines[(i + 5) + (q - p) - 5]
          BY <2>4, <4>2
        <4> QED BY <4>3, <4>4
      <3> QED BY <1>3, <2>5, <3>1, <3>2
    <2> QED BY <2>1, <2>3, <2>4, <2>5, <2>6, SameLines
  <1> QED BY <1>1, <1>2, <1>10, <1>12, <1>14, <1>15, <1>16, <1>17, <1>18, <1>19

------------------------------------------------------------------------------
(* The file a launch prepares and a revocation leaves.                     *)

\* The block there is.
LEMMA TheBlock ==
  ASSUME NEW lines \in Seq(AllLines), NEW parsed, parsed = ParseEnv(lines), parsed.state = "block"
  PROVE  \E p \in Blocks(lines) : Safe(lines) /\ Markers(lines) = {p, p + 4} /\ IsParsed(parsed, lines, p)
  <1>1. \A i \in 1..Len(lines) : Decent(lines[i])
    BY LinesAreDecent
  <1>2. Safe(lines) /\ \E p \in Blocks(lines) : Markers(lines) = {p, p + 4}
    BY <1>1, ParsedFile
  <1>3. PICK p \in Blocks(lines) : Markers(lines) = {p, p + 4}
    BY <1>2
  <1>4. IsParsed(parsed, lines, p)
    BY <1>1, <1>2, <1>3, ParsedFile
  <1> QED BY <1>2, <1>3, <1>4

\* The file with the lines from p on and before q replaced.
IsPrepared(new, lines, c, p, q) ==
  /\ p \in 1..(Len(lines) + 1) /\ q \in p..(Len(lines) + 1)
  /\ new = Spliced(lines, p, Block(c), q)
  /\ \A i \in 1..(p - 1) \cup q..Len(lines) : lines[i].kind \notin Foreigners
  /\ Rest(lines) = Remaining(lines, p, q)

LEMMA PreparedLines ==
  ASSUME NEW lines \in Seq(AllLines), NEW c \in Configs, NEW parsed, parsed = ParseEnv(lines),
         Readable(parsed), ~parsed.conflict
  PROVE  Safe(lines) /\ \E p, q : IsPrepared(Prepared(lines, parsed, c), lines, c, p, q)
  <1> DEFINE n == Len(lines)
  <1>1. n \in Nat /\ DOMAIN lines = 1..n
    OBVIOUS
  <1>2. CASE parsed.state = "block"
    <2>1. PICK p \in Blocks(lines) : Safe(lines) /\ Markers(lines) = {p, p + 4} /\ IsParsed(parsed, lines, p)
      BY <1>2, TheBlock
    <2>2. p \in 1..n /\ p + 4 <= n /\ Rest(lines) = Remaining(lines, p, p + 5)
      BY <2>1, RestWithBlock
    <2>3. \A i \in 1..(p - 1) \cup (p + 5)..n : i \in 1..n /\ i \notin {p, p + 4} /\ i \notin (p + 1)..(p + 3)
      BY <1>1, <2>2
    <2>4. \A i \in 1..n : i \notin {p, p + 4} => lines[i].kind \notin MarkerKinds
      BY <1>1, <2>1 DEF Markers, MarkerKinds
    <2>5. \A i \in 1..n : i \notin (p + 1)..(p + 3) => lines[i].kind \notin Keys \cup {"PROXY"}
      BY <2>1 DEF IsParsed
    <2>6. \A i \in 1..(p - 1) \cup (p + 5)..n : lines[i].kind \notin Foreigners
      BY <2>3, <2>4, <2>5 DEF Foreigners
    <2>7. Prepared(lines, parsed, c) = Spliced(lines, p, Block(c), p + 5)
      <3>1. parsed.begin = p /\ parsed.end = p + 4 /\ (p + 4) + 1 = p + 5
        BY <2>1, <2>2 DEF IsParsed
      <3> QED BY <1>2, <3>1 DEF Prepared, Spliced
    <2>8. p \in 1..(n + 1) /\ p + 5 \in p..(n + 1)
      BY <1>1, <2>2
    <2>9. IsPrepared(Prepared(lines, parsed, c), lines, c, p, p + 5)
      BY <2>2, <2>6, <2>7, <2>8 DEF IsPrepared
    <2> QED BY <2>1, <2>9
  <1>3. CASE parsed.state = "none"
    <2>1. \A i \in 1..n : Decent(lines[i])
      BY LinesAreDecent
    <2>2. Safe(lines) /\ Markers(lines) = {}
      BY <1>3, <2>1, ParsedFile
    <2>3. \A i \in 1..n : lines[i].kind \notin Keys \cup {"PROXY"}
      BY <1>3, <2>1, ParsedFile
    <2>4. \A i \in 1..n : lines[i].kind \notin Foreigners
      BY <1>1, <2>2, <2>3 DEF Foreigners, Markers, MarkerKinds
    <2>5. PICK p : p = n + 1
      OBVIOUS
    <2>6. p \in 1..(n + 1) /\ p \in p..(n + 1) /\ p - 1 = n /\ \A i \in 1..(p - 1) \cup p..n : i \in 1..n
      BY <1>1, <2>5
    <2>7. Rest(lines) = Remaining(lines, p, p)
      BY <2>2, <2>5, RestWithoutBlock, WholeFile
    <2>8. Prepared(lines, parsed, c) = Spliced(lines, p, Block(c), p)
      <3>1. Prepared(lines, parsed, c) = lines \o Block(c)
        BY <1>3 DEF Prepared
      <3>2. PICK block \in Seq(AllLines) : block = Block(c)
        BY BlockIsLines
      <3>9. PICK new : new = lines \o block
        OBVIOUS
      <3>3. PICK other : other = Spliced(lines, p, block, p)
        OBVIOUS
      <3>4. /\ new \in Seq(AllLines) /\ Len(new) = n + Len(block)
            /\ \A i \in 1..n : new[i] = lines[i]
            /\ \A i \in 1..Len(block) : new[n + i] = block[i]
        BY <3>2, <3>9, Concatenated
      <3>5. other \in Seq(AllLines) /\ IsSpliced(other, lines, p, block, Len(block), p)
        BY <2>6, <3>3, SplicedLines
      <3>6. /\ Len(other) = n + Len(block)
            /\ \A i \in 1..n : other[i] = lines[i]
            /\ \A i \in 1..Len(block) : other[n + i] = block[i]
        <4>1. Len(block) \in Nat
          BY <3>2
        <4> QED BY <1>1, <2>5, <2>6, <3>5, <4>1 DEF IsSpliced
      <3>7. ASSUME NEW i \in 1..Len(new) PROVE new[i] = other[i]
        <4>1. CASE i <= n
          <5>1. i \in 1..n
            BY <1>1, <4>1
          <5> QED BY <3>4, <3>6, <5>1
        <4>2. CASE i > n
          <5>1. i - n \in 1..Len(block) /\ n + (i - n) = i
            <6>1. Len(block) \in Nat
              BY <3>2
            <6> QED BY <1>1, <3>4, <4>2, <6>1
          <5> QED BY <3>4, <3>6, <5>1
        <4> QED BY <1>1, <4>1, <4>2
      <3>8. new = other
        BY <3>4, <3>5, <3>6, <3>7, SameLines
      <3> QED BY <3>1, <3>2, <3>3, <3>8, <3>9
    <2>9. IsPrepared(Prepared(lines, parsed, c), lines, c, p, p)
      BY <2>4, <2>6, <2>7, <2>8 DEF IsPrepared
    <2> QED BY <2>2, <2>9
  <1> QED BY <1>2, <1>3 DEF Readable

\* What is true of a file once a launch prepared it from these lines.
IsReady(new, lines, c) ==
  /\ new \in Seq(AllLines) /\ ParseEnv(new).state = "block" /\ ~ParseEnv(new).conflict
  /\ CurrentValues(ParseEnv(new), c)
  /\ Revoked(new, ParseEnv(new)) = Rest(lines) /\ Rest(new) = Rest(lines)

LEMMA PreparedIsReady ==
  ASSUME NEW lines \in Seq(AllLines), NEW c \in Configs, CanPlan(c),
         Readable(ParseEnv(lines)), ~ParseEnv(lines).conflict
  PROVE  IsReady(Prepared(lines, ParseEnv(lines), c), lines, c)
  <1>1. PICK parsed, new : parsed = ParseEnv(lines) /\ new = Prepared(lines, parsed, c)
    OBVIOUS
  <1>2. PICK p, q : IsPrepared(new, lines, c, p, q)
    BY <1>1, PreparedLines
  <1>3. Safe(lines)
    BY <1>1, PreparedLines
  <1>4. /\ p \in 1..(Len(lines) + 1) /\ q \in p..(Len(lines) + 1)
        /\ new = Spliced(lines, p, Block(c), q)
        /\ \A i \in 1..(p - 1) \cup q..Len(lines) : lines[i].kind \notin Foreigners
        /\ Rest(lines) = Remaining(lines, p, q)
    BY <1>2 DEF IsPrepared
  <1>5. /\ new \in Seq(AllLines) /\ p \in Blocks(new) /\ Markers(new) = {p, p + 4}
        /\ ParseEnv(new).state = "block" /\ ParseEnv(new).begin = p /\ ParseEnv(new).end = p + 4
        /\ ~ParseEnv(new).conflict /\ CurrentValues(ParseEnv(new), c)
        /\ Remaining(new, p, p + 5) = Remaining(lines, p, q)
    BY <1>3, <1>4, WrittenBlock
  <1>6. Rest(new) = Remaining(new, p, p + 5)
    BY <1>5, RestWithBlock
  <1>7. Revoked(new, ParseEnv(new)) = Remaining(new, p, p + 5)
    <2>1. (p + 4) + 1 = p + 5
      BY <1>4
    <2> QED BY <1>5, <2>1 DEF Revoked, Remaining
  <1> QED BY <1>1, <1>4, <1>5, <1>6, <1>7 DEF IsReady

LEMMA CurrentIsReady ==
  ASSUME NEW lines \in Seq(AllLines), NEW c \in Configs,
         CurrentValues(ParseEnv(lines), c), ~ParseEnv(lines).conflict
  PROVE  IsReady(lines, lines, c)
  <1>1. PICK parsed : parsed = ParseEnv(lines) /\ parsed.state = "block"
    BY DEF CurrentValues
  <1>2. PICK p \in Blocks(lines) : Safe(lines) /\ Markers(lines) = {p, p + 4} /\ IsParsed(parsed, lines, p)
    BY <1>1, TheBlock
  <1>3. p \in 1..Len(lines) /\ Rest(lines) = Remaining(lines, p, p + 5)
    BY <1>2, RestWithBlock
  <1>4. parsed.begin = p /\ parsed.end = p + 4 /\ (p + 4) + 1 = p + 5
    BY <1>2, <1>3 DEF IsParsed
  <1>5. Revoked(lines, parsed) = Remaining(lines, p, p + 5)
    BY <1>4 DEF Revoked, Remaining
  <1> QED BY <1>1, <1>3, <1>5 DEF IsReady

\* A revocation leaves the other lines, and no marker among them.
LEMMA RevokedLines ==
  ASSUME NEW lines \in Seq(AllLines), NEW parsed, parsed = ParseEnv(lines), parsed.state = "block"
  PROVE  LET new == Revoked(lines, parsed) IN
         new \in Seq(AllLines) /\ Rest(lines) = new /\ Rest(new) = new
  <1> DEFINE n == Len(lines)
  <1>1. PICK p \in Blocks(lines) : Safe(lines) /\ Markers(lines) = {p, p + 4} /\ IsParsed(parsed, lines, p)
    BY TheBlock
  <1>2. p \in 1..n /\ p + 4 <= n /\ Rest(lines) = Remaining(lines, p, p + 5)
    BY <1>1, RestWithBlock
  <1>3. n \in Nat /\ DOMAIN lines = 1..n /\ p \in Nat
    BY <1>2
  <1>4. PICK q, new : q = p + 5 /\ new = Remaining(lines, p, q)
    OBVIOUS
  <1>5. q \in p..(n + 1) /\ p \in 1..(n + 1)
    BY <1>2, <1>3, <1>4
  <1>6. new \in Seq(AllLines) /\ IsRemaining(new, lines, p, q)
    BY <1>4, <1>5, RemainingLines
  <1>7. /\ Len(new) = n - (q - p)
        /\ \A i \in 1..(p - 1) : new[i] = lines[i]
        /\ \A i \in q..n : new[i - (q - p)] = lines[i]
    BY <1>6 DEF IsRemaining
  <1>8. \A i \in 1..n : i \notin {p, p + 4} => lines[i].kind \notin MarkerKinds
    BY <1>1, <1>3 DEF Markers, MarkerKinds
  <1>9. ASSUME NEW i \in 1..Len(new) PROVE new[i].kind \notin MarkerKinds
    <2>1. CASE i < p
      <3>1. i \in 1..(p - 1) /\ i \in 1..n /\ i \notin {p, p + 4}
        BY <1>2, <1>3, <2>1
      <3> QED BY <1>7, <1>8, <3>1
    <2>2. CASE i >= p
      <3>1. i + 5 \in q..n /\ (i + 5) - (q - p) = i /\ i + 5 \in 1..n /\ i + 5 \notin {p, p + 4}
        BY <1>2, <1>3, <1>4, <1>7, <2>2
      <3> QED BY <1>7, <1>8, <3>1
    <2> QED BY <1>3, <2>1, <2>2
  <1>10. Markers(new) = {}
    <2>1. DOMAIN new = 1..Len(new)
      BY <1>6
    <2> QED BY <1>9, <2>1 DEF Markers, MarkerKinds
  <1>11. Rest(new) = new
    BY <1>6, <1>10, RestWithoutBlock
  <1>12. Revoked(lines, parsed) = new
    <2>1. parsed.begin = p /\ parsed.end = p + 4 /\ (p + 4) + 1 = q
      BY <1>1, <1>3, <1>4 DEF IsParsed
    <2> QED BY <1>4, <2>1 DEF Revoked, Remaining
  <1> QED BY <1>2, <1>4, <1>6, <1>11, <1>12

------------------------------------------------------------------------------
(* The steps.                                                              *)

Files == [exists : BOOLEAN, lines : Seq(AllLines), ended : BOOLEAN]

\* What another program makes of the lines are lines again.
LEMMA EditedLines ==
  ASSUME NEW lines \in Seq(AllLines), NEW line \in Lines
  PROVE  /\ \A i \in 1..(Len(lines) + 1) : InsertAt(lines, i, line) \in Seq(AllLines)
         /\ \A i \in DOMAIN lines : RemoveAt(lines, i) \in Seq(AllLines) /\ ReplaceAt(lines, i, line) \in Seq(AllLines)
         /\ lines \o lines \in Seq(AllLines)
  <1>1. line \in AllLines /\ DOMAIN lines = 1..Len(lines) /\ Len(lines) \in Nat
    BY DEF AllLines
  <1>2. ASSUME NEW i \in 1..(Len(lines) + 1) PROVE InsertAt(lines, i, line) \in Seq(AllLines)
    <2>1. PICK one \in Seq(AllLines) : one = <<line>>
      <3>1. <<line>> \in Seq(AllLines)
        BY <1>1
      <3> QED BY <3>1
    <2>2. i \in i..(Len(lines) + 1)
      BY <1>1
    <2>3. Spliced(lines, i, one, i) \in Seq(AllLines)
      BY <2>2, SplicedLines
    <2> QED BY <2>1, <2>3 DEF InsertAt, Spliced
  <1>3. ASSUME NEW i \in 1..Len(lines) PROVE RemoveAt(lines, i) \in Seq(AllLines)
    <2>1. i \in 1..(Len(lines) + 1) /\ i + 1 \in i..(Len(lines) + 1)
      BY <1>1
    <2>2. Remaining(lines, i, i + 1) \in Seq(AllLines)
      BY <2>1, RemainingLines
    <2> QED BY <2>2 DEF RemoveAt, Remaining
  <1>4. ASSUME NEW i \in 1..Len(lines) PROVE ReplaceAt(lines, i, line) \in Seq(AllLines)
    BY <1>1 DEF ReplaceAt
  <1> QED BY <1>1, <1>2, <1>3, <1>4

LEMMA EditEnvInv ==
  ASSUME FileInv, EditEnv
  PROVE  FileInv'
  <1>1. env \in Files /\ env.lines \in Seq(AllLines) /\ MaxEdits \in Nat
    BY ManagedBlockAssumption DEF FileInv, Files
  <1>2. config' \in Configs /\ edits' \in 0..MaxEdits
    <2>1. Other /\ config' = config
      BY DEF EditEnv
    <2> QED BY <1>1, <2>1 DEF FileInv, Other
  <1>3. Line("TEXT") \in Lines
    BY DEF Lines
  <1>4. env' \in Files
    <2>1. CASE \E i \in 1..(Len(env.lines) + 1), line \in Lines :
                 env' = [env EXCEPT !.exists = TRUE, !.lines = InsertAt(@, i, line)]
      BY <1>1, <2>1, EditedLines DEF Files
    <2>2. CASE \E i \in DOMAIN env.lines : env' = [env EXCEPT !.lines = RemoveAt(@, i)]
      BY <1>1, <1>3, <2>2, EditedLines DEF Files
    <2>3. CASE \E i \in DOMAIN env.lines, line \in Lines : env' = [env EXCEPT !.lines = ReplaceAt(@, i, line)]
      <3>1. PICK i \in DOMAIN env.lines, line \in Lines : env' = [env EXCEPT !.lines = ReplaceAt(@, i, line)]
        BY <2>3
      <3>2. ReplaceAt(env.lines, i, line) \in Seq(AllLines)
        BY <1>1, EditedLines
      <3> QED BY <1>1, <3>1, <3>2 DEF Files
    <2>4. CASE env' = [env EXCEPT !.ended = ~@]
      BY <1>1, <2>4 DEF Files
    <2>5. CASE env' = [env EXCEPT !.lines = @ \o @]
      BY <1>1, <1>3, <2>5, EditedLines DEF Files
    <2> QED BY <2>1, <2>2, <2>3, <2>4, <2>5 DEF EditEnv
  <1> QED BY <1>2, <1>4 DEF FileInv, Files

LEMMA ConfigInv ==
  ASSUME FileInv, Configure \/ Consent
  PROVE  FileInv'
  <1>1. edits' \in 0..MaxEdits /\ env' = env
    BY ManagedBlockAssumption DEF FileInv, Configure, Consent, Other
  <1>2. config' \in Configs
    BY DEF FileInv, Configure, Consent, Configs
  <1> QED BY <1>1, <1>2 DEF FileInv

\* revoke_proxy_env changes no line but Guard's.
LEMMA RevokeInv ==
  ASSUME FileInv, Revoke
  PROVE  FileInv' /\ (env' = env \/ Rest(env'.lines) = Rest(env.lines))
  <1>1. PICK parsed, rest : parsed = ParseEnv(env.lines) /\ rest = Revoked(env.lines, parsed)
    OBVIOUS
  <1>2. env.lines \in Seq(AllLines) /\ config' \in Configs /\ edits' = edits
    BY DEF FileInv, Revoke, Configs
  <1>3. CASE parsed.state = "none"
    BY <1>1, <1>2, <1>3 DEF FileInv, Revoke, RevokeProxyEnv
  <1>4. CASE parsed.state = "block"
    <2>1. rest \in Seq(AllLines) /\ Rest(env.lines) = rest /\ Rest(rest) = rest
      BY <1>1, <1>2, <1>4, RevokedLines
    <2>2. env.ended \in BOOLEAN
      BY DEF FileInv
    <2>3. PICK e \in BOOLEAN : e <=> parsed.end = Len(env.lines) \/ env.ended
      OBVIOUS
    <2>4. env' = IF rest = <<>> THEN NoFile ELSE [exists |-> TRUE, lines |-> rest, ended |-> (parsed.end = Len(env.lines) \/ env.ended)]
      BY <1>1, <1>4 DEF Revoke, RevokeProxyEnv
    <2>5. env' \in Files /\ env'.lines = rest
      <3>1. CASE rest = <<>>
        BY <2>1, <2>4, <3>1 DEF NoFile, Files
      <3>2. CASE rest # <<>>
        BY <2>1, <2>4, <3>2 DEF Files
      <3> QED BY <3>1, <3>2
    <2> QED BY <1>2, <2>1, <2>5 DEF FileInv, Files
  <1> QED BY <1>1, <1>3, <1>4 DEF Revoke, RevokeProxyEnv, Readable

\* What prepare_proxy_env leaves.
LEMMA PrepareProxyEnvIsReady ==
  ASSUME FileInv, CanPlan(config), CanPrepare(config), PrepareProxyEnv(config)
  PROVE  env' \in Files /\ IsReady(env'.lines, env.lines, config)
  <1>1. PICK parsed : parsed = ParseEnv(env.lines)
    OBVIOUS
  <1>2. env \in Files /\ env.lines \in Seq(AllLines) /\ config \in Configs /\ Readable(parsed) /\ ~parsed.conflict
    BY <1>1 DEF FileInv, Files, CanPrepare
  <1>3. CASE CurrentValues(parsed, config)
    <2>1. env' = env
      BY <1>1, <1>3 DEF PrepareProxyEnv
    <2>2. IsReady(env.lines, env.lines, config)
      BY <1>1, <1>2, <1>3, CurrentIsReady
    <2> QED BY <1>2, <2>1, <2>2
  <1>4. CASE ~CurrentValues(parsed, config)
    <2>1. PICK new : new = Prepared(env.lines, parsed, config)
      OBVIOUS
    <2>2. IsReady(new, env.lines, config)
      BY <1>1, <1>2, <2>1, PreparedIsReady
    <2>3. env' = [exists |-> TRUE, lines |-> new,
                  ended |-> ((parsed.state = "none" \/ parsed.end = Len(env.lines)) \/ env.ended)]
      BY <1>1, <1>4, <2>1 DEF PrepareProxyEnv
    <2>4. new \in Seq(AllLines)
      BY <2>2 DEF IsReady
    <2> QED BY <2>2, <2>3, <2>4 DEF Files
  <1> QED BY <1>3, <1>4

LEMMA PrepareSteps ==
  ASSUME FileInv, Prepare
  PROVE  /\ FileInv' /\ backend' \in {"refused", "not_applicable", "not_authorized", "prepared"}
         /\ UNCHANGED <<config, edits>>
         /\ backend' = "prepared" => config.managed /\ IsReady(env'.lines, env.lines, config)
         /\ backend' # "prepared" => env' = env
  <1>1. UNCHANGED <<config, edits>>
    BY DEF Prepare
  <1>2. CASE Refused \/ ~desktop.registered \/ ~config.managed
    BY <1>1, <1>2 DEF Prepare, FileInv
  <1>3. CASE ~Refused /\ desktop.registered /\ config.managed
    <2>1. CanPlan(config) /\ CanPrepare(config) /\ PrepareProxyEnv(config) /\ backend' = "prepared"
      BY <1>3 DEF Prepare, Refused
    <2>2. env' \in Files /\ IsReady(env'.lines, env.lines, config)
      BY <2>1, PrepareProxyEnvIsReady
    <2> QED BY <1>1, <1>3, <2>1, <2>2 DEF FileInv, Files
  <1> QED BY <1>2, <1>3

LEMMA DiscoversInv ==
  ASSUME DiscoveryInv, Discovers
  PROVE  DiscoveryInv'
  <1>1. CASE Break
    BY <1>1, FailInv DEF Break
  <1> QED BY <1>1, DiscoverInv, SizeNamesInv, ListNamesInv, LocateInv, ReadManifestInv, SelectInv DEF Discovers

LEMMA SamePackages ==
  ASSUME DiscoveryInv, UNCHANGED packages
  PROVE  DiscoveryInv'
  BY DEF DiscoveryInv, packages, discovery, DiscoveryTypeOK, EnumerationInv, SelectionInv, Family, Range

LEMMA Start ==
  ASSUME Init
  PROVE  Inv
  <1>1. FileInv
    <2>1. <<>> \in Seq(AllLines)
      OBVIOUS
    <2>2. config \in Configs
      BY ManagedBlockAssumption DEF Init, BlockInit, Configs
    <2> QED BY <2>1, <2>2, ManagedBlockAssumption DEF Init, BlockInit, NoFile, FileInv
  <1>2. DiscoveryTypeOK
    <2>1. <<>> \in Seq(Packages) /\ Len(<<>>) = 0
      OBVIOUS
    <2>2. ~desktop.found
      BY DEF Init, DiscoveryInit, NotFound
    <2> QED BY <2>1, <2>2, DiscoveryAssumption DEF Init, DiscoveryInit, DiscoveryTypeOK
  <1>3. EnumerationInv /\ SelectionInv
    <2>1. ~desktop.found
      BY DEF Init, DiscoveryInit, NotFound
    <2> QED BY <2>1 DEF Init, DiscoveryInit, EnumerationInv, SelectionInv
  <1> QED BY <1>1, <1>2, <1>3 DEF Inv, DiscoveryInv, Init

LEMMA Step ==
  ASSUME Inv, [Next]_vars
  PROVE  Inv'
  <1>1. CASE Prepare
    <2>1. Forget
      BY <1>1 DEF Prepare
    <2> QED BY <1>1, <2>1, ForgetInv, PrepareSteps DEF Inv
  <1>2. CASE Search
    <2>1. DiscoveryInv'
      BY <1>2, DiscoversInv DEF Inv, Search
    <2> QED BY <1>2, <2>1 DEF Inv, Search, FileInv, files
  <1>3. CASE phase = "idle" /\ backend' = "none" /\ UNCHANGED packages /\ (EditEnv \/ Configure \/ Revoke \/ Consent)
    <2>1. DiscoveryInv'
      BY <1>3, SamePackages DEF Inv
    <2>2. FileInv'
      BY <1>3, EditEnvInv, ConfigInv, RevokeInv DEF Inv
    <2> QED BY <1>3, <2>1, <2>2 DEF Inv
  <1>4. CASE phase \notin {"idle", "done"} /\ ChangeRegistry /\ Other /\ UNCHANGED <<files, backend>>
    <2>1. DiscoveryInv'
      BY <1>4, ChangeRegistryInv DEF Inv
    <2> QED BY <1>4, <2>1, ManagedBlockAssumption DEF Inv, FileInv, Other, files
  <1>5. CASE UNCHANGED vars
    <2>1. DiscoveryInv'
      BY <1>5, SamePackages DEF Inv, vars, packages, discovery
    <2> QED BY <1>5, <2>1 DEF Inv, FileInv, vars
  <1> QED BY <1>1, <1>2, <1>3, <1>4, <1>5 DEF Next, Others

------------------------------------------------------------------------------
(* The theorems.                                                           *)

\* The file holds lines of other people and lines Guard wrote, an enumeration keeps
\* to the packages it was told of, and the result of a selection can be launched
\* (launch_with, discover_packages_native, parse_discovery).
THEOREM Invariance == Spec => []Inv
  <1>1. Init => Inv
    BY Start
  <1>2. Inv /\ [Next]_vars => Inv'
    BY Step
  <1> QED BY <1>1, <1>2, PTL DEF Spec

\* Every variable stays in its range: in particular the names of an enumeration fit
\* the 16 the buffer holds (discover_packages_native), and a file only ever holds
\* lines somebody wrote (prepare_updated_bytes, revoke_updated_bytes).
THEOREM TypeCorrectness == Spec => []TypeOK
  <1>1. Inv => TypeOK
    BY DEF Inv, FileInv, DiscoveryInv, TypeOK, BlockTypeOK, AllLines
  <1> QED BY <1>1, Invariance, PTL

\* parse_env accepts a file exactly when nothing in it is open or escaped and its
\* markers, if any, are those of one block Guard could have written.
THEOREM OneBlockIsRecognised == Spec => []BlocksAreRecognised
  <1>1. Inv => BlocksAreRecognised
    <2> SUFFICES ASSUME Inv PROVE BlocksAreRecognised
      OBVIOUS
    <2>1. PICK lines \in Seq(AllLines) : lines = env.lines
      BY DEF Inv, FileInv
    <2>2. DOMAIN lines = 1..Len(lines) /\ \A i \in 1..Len(lines) : Decent(lines[i])
      BY <2>1, LinesAreDecent
    <2>3. ParseEnv(lines).state = "none" <=> Safe(lines) /\ Markers(lines) = {}
      BY <2>2, ParsedFile
    <2>4. ParseEnv(lines).state = "block" <=> Safe(lines) /\ \E p \in Blocks(lines) : Markers(lines) = {p, p + 4}
      BY <2>2, ParsedFile
    <2> QED BY <2>1, <2>2, <2>3, <2>4 DEF BlocksAreRecognised, Readable, Safe
  <1> QED BY <1>1, Invariance, PTL

\* What launch_with prepared is current for inspect_proxy_env, and what
\* revoke_updated_bytes makes of it are the lines that were there.
THEOREM PreparationIsUndone == Spec => PreparedCanBeTakenBack
  <1> DEFINE Undone == (backend = "none" /\ backend' = "prepared") =>
                          /\ Inspect(env', config) = "current"
                          /\ Revoked(env'.lines, ParseEnv(env'.lines)) = Rest(env.lines)
  <1>1. Inv /\ [Next]_vars => [Undone]_vars
    <2> SUFFICES ASSUME Inv, Next, backend = "none", backend' = "prepared"
                 PROVE  /\ Inspect(env', config) = "current"
                        /\ Revoked(env'.lines, ParseEnv(env'.lines)) = Rest(env.lines)
      OBVIOUS
    <2>1. Prepare
      BY DEF Next, Search, Others
    <2>2. config.managed /\ IsReady(env'.lines, env.lines, config)
      BY <2>1, PrepareSteps DEF Inv
    <2>3. PICK new : new = env'.lines
      OBVIOUS
    <2>4. /\ ParseEnv(new).state = "block" /\ ~ParseEnv(new).conflict /\ CurrentValues(ParseEnv(new), config)
          /\ Revoked(new, ParseEnv(new)) = Rest(env.lines)
      BY <2>2, <2>3 DEF IsReady
    <2>5. Inspect(env', config) = "current"
      BY <2>2, <2>3, <2>4 DEF Inspect, Readable
    <2> QED BY <2>3, <2>4, <2>5
  <1> QED BY <1>1, Invariance, PTL DEF Spec, PreparedCanBeTakenBack

\* Neither a launch nor a revocation changes, drops or moves a line that is not of
\* the block (prepare_updated_bytes, revoke_updated_bytes).
THEOREM ForeignLinesAreKept == Spec => OtherLinesAreKept
  <1> DEFINE Kept == env' = env \/ edits' # edits \/ Rest(env'.lines) = Rest(env.lines)
  <1>1. Inv /\ [Next]_vars => [Kept]_vars
    <2> SUFFICES ASSUME Inv, Next PROVE Kept
      OBVIOUS
    <2>1. CASE Prepare
      BY <2>1, PrepareSteps DEF Inv, IsReady
    <2>2. CASE Revoke
      BY <2>2, RevokeInv DEF Inv
    <2>3. CASE EditEnv
      <3>1. edits' = edits + 1 /\ edits \in Nat
        <4>1. Other
          BY <2>3 DEF EditEnv
        <4> QED BY <4>1 DEF Other, Inv, FileInv
      <3> QED BY <3>1
    <2> QED BY <2>1, <2>2, <2>3 DEF Next, Search, Others, files, Configure, Consent
  <1> QED BY <1>1, Invariance, PTL DEF Spec, OtherLinesAreKept

\* A registered Desktop the discovery found was registered while it was looked for
\* (discover_packages_native), is the only trusted candidate of its package and
\* passes the later checks of the launch (parse_discovery, launch_with).
THEOREM FoundCanBeLaunched == Spec => []DiscoveredCanBeLaunched
  <1>1. Inv => DiscoveredCanBeLaunched
    <2> SUFFICES ASSUME Inv, desktop.found, desktop.registered
                 PROVE  /\ desktop.package \in seen /\ Identified(desktop)
                        /\ desktop.app.at = "inside" /\ Candidates(desktop.package) = {desktop.app}
      BY DEF DiscoveredCanBeLaunched
    <2>1. desktop # Native
      BY DEF Native
    <2>2. PICK p \in listed : \E app \in Manifest[p].apps :
            /\ desktop = Registered(p, app) /\ Identified(desktop) /\ app.at = "inside" /\ Candidates(p) = {app}
      BY <2>1 DEF Inv, DiscoveryInv, SelectionInv
    <2>3. PICK app \in Manifest[p].apps :
            /\ desktop = Registered(p, app) /\ Identified(desktop) /\ app.at = "inside" /\ Candidates(p) = {app}
      BY <2>2
    <2>4. desktop.package = p /\ desktop.app = app
      BY <2>3 DEF Registered
    <2>5. p \in seen
      BY DEF Inv, DiscoveryInv, EnumerationInv
    <2> QED BY <2>3, <2>4, <2>5
  <1> QED BY <1>1, Invariance, PTL

\* The record of a family is of a package none of those listed beats: the highest
\* version, and a native one among equals (discover_packages_native).
THEOREM TheBestIsTaken == Spec => []BestPackageIsTaken
  <1>1. Inv => BestPackageIsTaken
    BY DEF Inv, DiscoveryInv, EnumerationInv, BestPackageIsTaken
  <1> QED BY <1>1, Invariance, PTL
=============================================================================
