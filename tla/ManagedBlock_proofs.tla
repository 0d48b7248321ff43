------------------------ MODULE ManagedBlock_proofs ------------------------
(***************************************************************************)
(* What the operators of ManagedBlock compute, for files of any length and *)
(* values of any number of pieces.                                         *)
(***************************************************************************)
EXTENDS ManagedBlock, WellFoundedInduction, FiniteSetTheorems, TLAPS

------------------------------------------------------------------------------
(* Induction: a set of numbers has a least element, so that one which holds *)
(* 0 and, with every number below n, the next is all of them.              *)

LEMMA LeastElement ==
  ASSUME NEW T \in SUBSET Nat, T # {}
  PROVE  \E n \in T : \A m \in T : n <= m
  <1>1. IsWellFoundedOn(OpToRel(<, Nat), Nat)
    BY NatLessThanWellFounded
  <1>2. PICK n \in T : \A m \in T : <<m, n>> \notin OpToRel(<, Nat)
    BY <1>1, WFMin
  <1>3. ASSUME NEW m \in T PROVE ~(m < n)
    BY <1>2 DEF OpToRel
  <1> QED BY <1>3

LEMMA UpTo ==
  ASSUME NEW n \in Nat, NEW T \in SUBSET (0..n), 0 \in T, \A i \in 1..n : i - 1 \in T => i \in T
  PROVE  T = 0..n
  <1> SUFFICES ASSUME (0..n) \ T # {} PROVE FALSE
    OBVIOUS
  <1>1. PICK k \in (0..n) \ T : \A m \in (0..n) \ T : k <= m
    <2>1. (0..n) \ T \in SUBSET Nat
      OBVIOUS
    <2> QED BY <2>1, LeastElement
  <1>2. k # 0 /\ k - 1 \in 0..n
    BY <1>1
  <1>3. k - 1 \in T
    BY <1>1, <1>2
  <1> QED BY <1>1, <1>2, <1>3

------------------------------------------------------------------------------
(* The loop over the lines.                                                *)

\* The loop of parse_env as its states one line after the other.
IsScan(f, lines) ==
  f = [i \in 0..Len(lines) |-> IF i = 0 THEN Fresh ELSE ParseLine(f[i - 1], lines[i])]

LEMMA ScanExists ==
  ASSUME NEW S, NEW lines \in Seq(S)
  PROVE  \E f : IsScan(f, lines) /\ Scan(lines) = f[Len(lines)]
  <1> DEFINE n == Len(lines)
             T == {k \in 0..n : \E f : f = [i \in 0..k |-> IF i = 0 THEN Fresh ELSE ParseLine(f[i - 1], lines[i])]}
  <1>1. n \in Nat
    OBVIOUS
  <1>2. 0 \in T
    <2> DEFINE g == [i \in 0..0 |-> Fresh]
    <2>1. g = [i \in 0..0 |-> IF i = 0 THEN Fresh ELSE ParseLine(g[i - 1], lines[i])]
      OBVIOUS
    <2> HIDE DEF g
    <2>2. \E f : f = [i \in 0..0 |-> IF i = 0 THEN Fresh ELSE ParseLine(f[i - 1], lines[i])]
      BY <2>1
    <2> QED BY <2>2, <1>1
  <1>3. ASSUME NEW k \in 1..n, k - 1 \in T PROVE k \in T
    <2>1. PICK f : f = [i \in 0..(k - 1) |-> IF i = 0 THEN Fresh ELSE ParseLine(f[i - 1], lines[i])]
      BY <1>3
    <2> DEFINE g == [i \in 0..k |-> IF i = k THEN ParseLine(f[k - 1], lines[k]) ELSE f[i]]
    <2>2. ASSUME NEW i \in 0..k
          PROVE  g[i] = IF i = 0 THEN Fresh ELSE ParseLine(g[i - 1], lines[i])
      <3>1. CASE i = k
        <4>1. g[k - 1] = f[k - 1] /\ g[i] = ParseLine(f[k - 1], lines[k]) /\ k # 0
          BY <3>1
        <4> QED BY <3>1, <4>1
      <3>2. CASE i # k
        <4>1. i \in 0..(k - 1) /\ g[i] = f[i] /\ (i # 0 => i - 1 \in 0..(k - 1) /\ g[i - 1] = f[i - 1])
          BY <3>2
        <4>2. f[i] = IF i = 0 THEN Fresh ELSE ParseLine(f[i - 1], lines[i])
          BY <2>1, <4>1
        <4> HIDE DEF g
        <4> QED BY <4>1, <4>2
      <3> QED BY <3>1, <3>2
    <2>3. g = [i \in 0..k |-> IF i = 0 THEN Fresh ELSE ParseLine(g[i - 1], lines[i])]
      <3>1. g = [i \in 0..k |-> g[i]]
        OBVIOUS
      <3> HIDE DEF g
      <3> QED BY <2>2, <3>1
    <2>4. \E h : h = [i \in 0..k |-> IF i = 0 THEN Fresh ELSE ParseLine(h[i - 1], lines[i])]
      BY <2>3
    <2> QED BY <2>4
  <1>4. T = 0..n
    <2> HIDE DEF T
    <2>1. T \in SUBSET (0..n)
      BY DEF T
    <2> QED BY <1>1, <1>2, <1>3, <2>1, UpTo
  <1>5. PICK h : h = [i \in 0..n |-> IF i = 0 THEN Fresh ELSE ParseLine(h[i - 1], lines[i])]
    <2>1. n \in T
      BY <1>1, <1>4
    <2> QED BY <2>1
  <1> DEFINE c == CHOOSE f : f = [i \in 0..Len(lines) |-> IF i = 0 THEN Fresh ELSE ParseLine(f[i - 1], lines[i])]
  <1>6. c = [i \in 0..Len(lines) |-> IF i = 0 THEN Fresh ELSE ParseLine(c[i - 1], lines[i])]
    BY <1>5
  <1>7. Scan(lines) = c[Len(lines)]
    BY DEF Scan
  <1> QED BY <1>6, <1>7 DEF IsScan

Kinds == {"BEGIN", "END", "OTHER", "PROXY", "TEXT"} \cup Keys
MarkerKinds == {"BEGIN", "END", "OTHER"}

\* The lines of a block that the first i lines open, between its markers.
Interior(s, i) == IF s.begin = 0 THEN {} ELSE (s.begin + 1)..(IF s.end = 0 THEN i ELSE s.end - 1)

States(values) ==
  [ok : BOOLEAN, at : Nat, begin : Nat, end : Nat, inside : BOOLEAN, values : values, conflict : BOOLEAN]

Seen(lines) == UNION {[K -> {lines[j].value : j \in 1..Len(lines)}] : K \in SUBSET Keys}

ScanType(lines) == States(Seen(lines))

\* Where the loop stands after i lines when it found nothing wrong in them.
ScanInv(lines, i, s) ==
  /\ s.begin <= i /\ s.end <= i
  /\ s.begin = 0 => ~s.inside /\ s.end = 0 /\ \A j \in 1..i : lines[j].kind \notin MarkerKinds
  /\ s.begin # 0 =>
       /\ lines[s.begin].kind = "BEGIN" /\ (s.inside <=> s.end = 0)
       /\ s.end # 0 => s.end > s.begin /\ lines[s.end].kind = "END"
       /\ \A j \in 1..i : lines[j].kind \in MarkerKinds => j \in {s.begin, s.end}
  /\ DOMAIN s.values = {lines[j].kind : j \in Interior(s, i)}
  /\ \A j \in Interior(s, i) : lines[j].kind \in Keys /\ s.values[lines[j].kind] = lines[j].value
  /\ \A j, k \in Interior(s, i) : lines[j].kind = lines[k].kind => j = k
  /\ s.conflict <=> \E j \in 1..i : j \notin Interior(s, i) /\ lines[j].kind \in Keys \cup {"PROXY"}

\* What one line makes of a state, and when.
Invalid(s, line) ==
  \/ line.kind = "BEGIN" /\ (s.begin # 0 \/ s.end # 0)
  \/ line.kind = "END" /\ (~s.inside \/ s.end # 0)
  \/ line.kind = "OTHER"
  \/ line.kind \in Keys /\ s.inside /\ line.kind \in DOMAIN s.values
  \/ line.kind \in {"TEXT", "PROXY"} /\ s.inside

LEMMA ParseLineCases ==
  ASSUME NEW s, NEW line, line.kind \in Kinds
  PROVE  /\ Invalid(s, line) => ParseLine(s, line) = [s EXCEPT !.at = s.at + 1, !.ok = FALSE]
         /\ ~Invalid(s, line) =>
              /\ line.kind = "BEGIN" => ParseLine(s, line) = [s EXCEPT !.at = s.at + 1, !.begin = s.at + 1, !.inside = TRUE]
              /\ line.kind = "END" => ParseLine(s, line) = [s EXCEPT !.at = s.at + 1, !.end = s.at + 1, !.inside = FALSE]
              /\ line.kind \in Keys /\ s.inside => ParseLine(s, line) = [s EXCEPT !.at = s.at + 1, !.values = With(s.values, line)]
              /\ line.kind \in Keys \cup {"TEXT", "PROXY"} /\ ~s.inside =>
                   ParseLine(s, line) = [s EXCEPT !.at = s.at + 1, !.conflict = @ \/ line.kind \in Keys \cup {"PROXY"}]
  BY DEF ParseLine, Invalid, Kinds, Keys

\* What a line can do to a state.
Turns(s, i, v, b) ==
  {[s EXCEPT !.at = i, !.ok = FALSE], [s EXCEPT !.at = i, !.begin = i, !.inside = TRUE],
   [s EXCEPT !.at = i, !.end = i, !.inside = FALSE], [s EXCEPT !.at = i, !.values = v],
   [s EXCEPT !.at = i, !.conflict = b]}

LEMMA TurnsAreStates ==
  ASSUME NEW V, NEW i \in Nat, NEW b \in BOOLEAN, NEW v \in V, NEW s \in States(V)
  PROVE  \A r \in Turns(s, i, v, b) : r \in States(V) /\ r.at = i
  <1> USE DEF States
  <1>1. [s EXCEPT !.at = i, !.ok = FALSE] \in States(V) /\ [s EXCEPT !.at = i, !.ok = FALSE].at = i
    OBVIOUS
  <1>2. [s EXCEPT !.at = i, !.begin = i, !.inside = TRUE] \in States(V) /\ [s EXCEPT !.at = i, !.begin = i, !.inside = TRUE].at = i
    OBVIOUS
  <1>3. [s EXCEPT !.at = i, !.end = i, !.inside = FALSE] \in States(V) /\ [s EXCEPT !.at = i, !.end = i, !.inside = FALSE].at = i
    OBVIOUS
  <1>4. [s EXCEPT !.at = i, !.values = v] \in States(V) /\ [s EXCEPT !.at = i, !.values = v].at = i
    OBVIOUS
  <1>5. [s EXCEPT !.at = i, !.conflict = b] \in States(V) /\ [s EXCEPT !.at = i, !.conflict = b].at = i
    OBVIOUS
  <1> HIDE DEF States
  <1> QED BY <1>1, <1>2, <1>3, <1>4, <1>5 DEF Turns

LEMMA ScanStepType ==
  ASSUME NEW S, NEW lines \in Seq(S), NEW i \in 1..Len(lines), lines[i].kind \in Kinds,
         NEW s \in ScanType(lines), s.at = i - 1
  PROVE  ParseLine(s, lines[i]) \in ScanType(lines) /\ ParseLine(s, lines[i]).at = i
  <1> DEFINE W == {lines[j].value : j \in 1..Len(lines)}
             V == Seen(lines)
  <1>1. s.values \in V /\ s.conflict \in BOOLEAN /\ s.inside \in BOOLEAN /\ s.at + 1 = i /\ i \in Nat /\ s \in States(V)
    BY DEF ScanType, States
  <1>2. PICK K \in SUBSET Keys : s.values \in [K -> W]
    BY <1>1 DEF Seen
  <1>3. lines[i].value \in W
    OBVIOUS
  <1>4. lines[i].kind \in Keys => With(s.values, lines[i]) \in V
    <2> SUFFICES ASSUME lines[i].kind \in Keys PROVE With(s.values, lines[i]) \in V
      OBVIOUS
    <2>1. With(s.values, lines[i]) \in [K \cup {lines[i].kind} -> W]
      <3> HIDE DEF W
      <3> QED BY <1>2, <1>3 DEF With
    <2>2. K \cup {lines[i].kind} \in SUBSET Keys
      OBVIOUS
    <2> QED BY <2>1, <2>2 DEF Seen
  <1> HIDE DEF V
  <1>5. \A b \in BOOLEAN, v \in V : \A r \in Turns(s, i, v, b) : r \in States(V) /\ r.at = i
    BY <1>1, TurnsAreStates
  <1>6. PICK b \in BOOLEAN : b = (s.conflict \/ lines[i].kind \in Keys \cup {"PROXY"})
    OBVIOUS
  <1>7. PICK r : r = ParseLine(s, lines[i])
    OBVIOUS
  <1>8. \E v \in V : r \in Turns(s, i, v, b)
    <2>1. CASE Invalid(s, lines[i])
      BY <1>1, <1>7, <2>1, ParseLineCases DEF Turns
    <2>2. CASE ~Invalid(s, lines[i]) /\ lines[i].kind \in {"BEGIN", "END"}
      <3>1. r \in {[s EXCEPT !.at = i, !.begin = i, !.inside = TRUE], [s EXCEPT !.at = i, !.end = i, !.inside = FALSE]}
        BY <1>1, <1>7, <2>2, ParseLineCases
      <3> QED BY <1>1, <3>1 DEF Turns
    <2>3. CASE ~Invalid(s, lines[i]) /\ lines[i].kind \in Keys /\ s.inside
      <3>1. r = [s EXCEPT !.at = i, !.values = With(s.values, lines[i])]
        <4>1. ParseLine(s, lines[i]) = [s EXCEPT !.at = s.at + 1, !.values = With(s.values, lines[i])]
          BY <1>1, <2>3, ParseLineCases
        <4> QED BY <1>1, <1>7, <4>1
      <3> QED BY <1>4, <2>3, <3>1 DEF Turns
    <2>4. CASE ~Invalid(s, lines[i]) /\ lines[i].kind \in Keys \cup {"TEXT", "PROXY"} /\ ~s.inside
      <3>1. r = [s EXCEPT !.at = i, !.conflict = b]
        BY <1>1, <1>6, <1>7, <2>4, ParseLineCases
      <3> QED BY <1>1, <3>1 DEF Turns
    <2>5. lines[i].kind \in {"TEXT", "PROXY"} /\ s.inside => Invalid(s, lines[i])
      BY DEF Invalid
    <2> QED BY <2>1, <2>2, <2>3, <2>4, <2>5 DEF Kinds, Invalid
  <1>9. r \in States(V) /\ r.at = i
    BY <1>5, <1>8
  <1> QED BY <1>7, <1>9 DEF ScanType, V

LEMMA WithLookup ==
  ASSUME NEW values, NEW line
  PROVE  /\ DOMAIN With(values, line) = DOMAIN values \cup {line.kind}
         /\ With(values, line)[line.kind] = line.value
         /\ \A key \in DOMAIN values \ {line.kind} : With(values, line)[key] = values[key]
  BY DEF With

\* A line that is not refused keeps ScanInv.
LEMMA ScanBegin ==
  ASSUME NEW S, NEW lines \in Seq(S), NEW i \in 1..Len(lines), lines[i].kind = "BEGIN",
         NEW s \in ScanType(lines), s.at = i - 1, ScanInv(lines, i - 1, s), ~Invalid(s, lines[i])
  PROVE  ScanInv(lines, i, ParseLine(s, lines[i]))
  <1>1. PICK r : r = ParseLine(s, lines[i])
    OBVIOUS
  <1>2. r = [s EXCEPT !.at = i, !.begin = i, !.inside = TRUE]
    <2>1. s.at + 1 = i /\ ParseLine(s, lines[i]) = r
      BY <1>1 DEF ScanType, States
    <2> QED BY <2>1, ParseLineCases DEF Kinds
  <1>3. /\ s.begin = 0 /\ s.end = 0 /\ s.begin \in Nat /\ s.end \in Nat /\ i \in Nat /\ i # 0
        /\ s.inside \in BOOLEAN /\ s.conflict \in BOOLEAN
    BY DEF Invalid, ScanType, States
  <1>4. r.begin = i /\ r.end = 0 /\ r.inside = TRUE /\ r.values = s.values /\ r.conflict = s.conflict
    BY <1>2, <1>3 DEF ScanType, States
  <1>5. Interior(r, i) = {} /\ Interior(s, i - 1) = {}
    BY <1>3, <1>4 DEF Interior
  <1>6. /\ \A j \in 1..(i - 1) : lines[j].kind \notin MarkerKinds
        /\ DOMAIN s.values = {lines[j].kind : j \in {}}
        /\ s.conflict <=> \E j \in 1..(i - 1) : j \notin {} /\ lines[j].kind \in Keys \cup {"PROXY"}
    BY <1>3, <1>5 DEF ScanInv
  <1>7. \A j \in 1..i : j \in 1..(i - 1) \/ j = i
    BY <1>3
  <1>8. s.conflict <=> \E j \in 1..i : j \notin {} /\ lines[j].kind \in Keys \cup {"PROXY"}
    BY <1>3, <1>6, <1>7 DEF Keys
  <1>9. \A j \in 1..i : lines[j].kind \in MarkerKinds => j \in {i, 0}
    BY <1>6, <1>7
  <1> QED BY <1>1, <1>3, <1>4, <1>5, <1>6, <1>8, <1>9 DEF ScanInv

LEMMA ScanEnd ==
  ASSUME NEW S, NEW lines \in Seq(S), NEW i \in 1..Len(lines), lines[i].kind = "END",
         NEW s \in ScanType(lines), s.at = i - 1, ScanInv(lines, i - 1, s), ~Invalid(s, lines[i])
  PROVE  ScanInv(lines, i, ParseLine(s, lines[i]))
  <1>1. PICK r : r = ParseLine(s, lines[i])
    OBVIOUS
  <1>2. r = [s EXCEPT !.at = i, !.end = i, !.inside = FALSE]
    <2>1. s.at + 1 = i /\ ParseLine(s, lines[i]) = r
      BY <1>1 DEF ScanType, States
    <2> QED BY <2>1, ParseLineCases DEF Kinds
  <1>3. /\ s.begin # 0 /\ s.end = 0 /\ s.begin \in Nat /\ s.end \in Nat /\ i \in Nat /\ i # 0 /\ s.begin <= i - 1
        /\ s.inside \in BOOLEAN /\ s.conflict \in BOOLEAN
    BY DEF Invalid, ScanType, States, ScanInv
  <1>4. r.begin = s.begin /\ r.end = i /\ r.inside = FALSE /\ r.values = s.values /\ r.conflict = s.conflict
    BY <1>2, <1>3 DEF ScanType, States
  <1> DEFINE I == (s.begin + 1)..(i - 1)
  <1>5. Interior(r, i) = I /\ Interior(s, i - 1) = I
    BY <1>3, <1>4 DEF Interior
  <1>6. /\ lines[s.begin].kind = "BEGIN"
        /\ \A j \in 1..(i - 1) : lines[j].kind \in MarkerKinds => j \in {s.begin, s.end}
        /\ DOMAIN s.values = {lines[j].kind : j \in I}
        /\ \A j \in I : lines[j].kind \in Keys /\ s.values[lines[j].kind] = lines[j].value
        /\ \A j, k \in I : lines[j].kind = lines[k].kind => j = k
        /\ s.conflict <=> \E j \in 1..(i - 1) : j \notin I /\ lines[j].kind \in Keys \cup {"PROXY"}
    <2> HIDE DEF I
    <2> QED BY <1>3, <1>5 DEF ScanInv
  <1>7. \A j \in 1..i : j \in 1..(i - 1) \/ j = i
    BY <1>3
  <1>8. s.conflict <=> \E j \in 1..i : j \notin I /\ lines[j].kind \in Keys \cup {"PROXY"}
    <2> HIDE DEF I
    <2> QED BY <1>3, <1>6, <1>7 DEF Keys
  <1>9. \A j \in 1..i : lines[j].kind \in MarkerKinds => j \in {s.begin, i}
    <2>1. s.end \notin 1..(i - 1)
      BY <1>3
    <2> QED BY <1>6, <1>7, <2>1
  <1> HIDE DEF I
  <1> QED BY <1>1, <1>3, <1>4, <1>5, <1>6, <1>8, <1>9 DEF ScanInv

LEMMA ScanInside ==
  ASSUME NEW S, NEW lines \in Seq(S), NEW i \in 1..Len(lines), lines[i].kind \in Keys,
         NEW s \in ScanType(lines), s.at = i - 1, ScanInv(lines, i - 1, s), ~Invalid(s, lines[i]), s.inside
  PROVE  ScanInv(lines, i, ParseLine(s, lines[i]))
  <1>1. PICK r : r = ParseLine(s, lines[i])
    OBVIOUS
  <1>2. r = [s EXCEPT !.at = i, !.values = With(s.values, lines[i])]
    <2>1. s.at + 1 = i /\ lines[i].kind \in Kinds
      BY DEF Kinds
    <2>2. ~Invalid(s, lines[i]) =>
            (lines[i].kind \in Keys /\ s.inside => ParseLine(s, lines[i]) = [s EXCEPT !.at = s.at + 1, !.values = With(s.values, lines[i])])
      BY <2>1, ParseLineCases
    <2>3. r = [s EXCEPT !.at = s.at + 1, !.values = With(s.values, lines[i])]
      BY <1>1, <2>2
    <2> QED BY <2>1, <2>3
  <1>3. /\ s.begin # 0 /\ s.end = 0 /\ s.begin \in Nat /\ s.end \in Nat /\ i \in Nat /\ i # 0 /\ s.begin <= i - 1
        /\ s.inside = TRUE /\ s.conflict \in BOOLEAN /\ lines[i].kind \notin DOMAIN s.values
    BY DEF Invalid, ScanType, States, ScanInv
  <1>4. r.begin = s.begin /\ r.end = 0 /\ r.inside = TRUE /\ r.values = With(s.values, lines[i]) /\ r.conflict = s.conflict
    BY <1>2, <1>3 DEF ScanType, States
  <1> DEFINE I == (s.begin + 1)..(i - 1)
             J == (s.begin + 1)..i
  <1>5. Interior(r, i) = J /\ Interior(s, i - 1) = I /\ J = I \cup {i} /\ i \notin I
    BY <1>3, <1>4 DEF Interior
  <1>6. /\ lines[s.begin].kind = "BEGIN"
        /\ \A j \in 1..(i - 1) : lines[j].kind \in MarkerKinds => j \in {s.begin, s.end}
        /\ DOMAIN s.values = {lines[j].kind : j \in I}
        /\ \A j \in I : lines[j].kind \in Keys /\ s.values[lines[j].kind] = lines[j].value
        /\ \A j, k \in I : lines[j].kind = lines[k].kind => j = k
        /\ s.conflict <=> \E j \in 1..(i - 1) : j \notin I /\ lines[j].kind \in Keys \cup {"PROXY"}
    <2>1. PICK between : between = Interior(s, i - 1)
      OBVIOUS
    <2>2. between = I
      BY <1>5, <2>1
    <2> HIDE DEF I, J
    <2>3. /\ lines[s.begin].kind = "BEGIN"
          /\ \A j \in 1..(i - 1) : lines[j].kind \in MarkerKinds => j \in {s.begin, s.end}
      BY <1>3 DEF ScanInv
    <2>4. /\ DOMAIN s.values = {lines[j].kind : j \in between}
          /\ \A j \in between : lines[j].kind \in Keys /\ s.values[lines[j].kind] = lines[j].value
          /\ \A j, k \in between : lines[j].kind = lines[k].kind => j = k
          /\ s.conflict <=> \E j \in 1..(i - 1) : j \notin between /\ lines[j].kind \in Keys \cup {"PROXY"}
      BY <2>1 DEF ScanInv
    <2> QED BY <2>2, <2>3, <2>4
  <1> HIDE DEF I, J
  <1>7. (\A j \in 1..i : j \in 1..(i - 1) \/ j = i) /\ \A j \in 1..(i - 1) : j \in 1..i /\ j # i
    BY <1>3
  <1>8. s.conflict <=> \E j \in 1..i : j \notin J /\ lines[j].kind \in Keys \cup {"PROXY"}
    BY <1>3, <1>5, <1>6, <1>7
  <1>9. \A j \in 1..i : lines[j].kind \in MarkerKinds => j \in {s.begin, 0}
    BY <1>3, <1>6, <1>7 DEF MarkerKinds, Keys
  <1>10. /\ DOMAIN r.values = DOMAIN s.values \cup {lines[i].kind}
         /\ r.values[lines[i].kind] = lines[i].value
         /\ \A key \in DOMAIN s.values \ {lines[i].kind} : r.values[key] = s.values[key]
    <2>1. /\ DOMAIN With(s.values, lines[i]) = DOMAIN s.values \cup {lines[i].kind}
          /\ With(s.values, lines[i])[lines[i].kind] = lines[i].value
          /\ \A key \in DOMAIN s.values \ {lines[i].kind} : With(s.values, lines[i])[key] = s.values[key]
      BY WithLookup
    <2> QED BY <1>4, <2>1
  <1>11. \A j \in I : lines[j].kind # lines[i].kind
    BY <1>3, <1>6
  <1>12. \A j \in J : lines[j].kind \in Keys /\ r.values[lines[j].kind] = lines[j].value
    BY <1>5, <1>6, <1>10, <1>11
  <1>13. \A j, k \in J : lines[j].kind = lines[k].kind => j = k
    BY <1>5, <1>6, <1>11
  <1>14. DOMAIN r.values = {lines[j].kind : j \in J}
    BY <1>5, <1>6, <1>10
  <1> QED BY <1>1, <1>3, <1>4, <1>5, <1>6, <1>8, <1>9, <1>12, <1>13, <1>14 DEF ScanInv

LEMMA ScanOutside ==
  ASSUME NEW S, NEW lines \in Seq(S), NEW i \in 1..Len(lines), lines[i].kind \in Keys \cup {"TEXT", "PROXY"},
         NEW s \in ScanType(lines), s.at = i - 1, ScanInv(lines, i - 1, s), ~Invalid(s, lines[i]), ~s.inside
  PROVE  ScanInv(lines, i, ParseLine(s, lines[i]))
  <1>1. PICK r : r = ParseLine(s, lines[i])
    OBVIOUS
  <1>2. PICK b \in BOOLEAN : b <=> (s.conflict \/ lines[i].kind \in Keys \cup {"PROXY"})
    OBVIOUS
  <1>3. /\ s.begin \in Nat /\ s.end \in Nat /\ i \in Nat /\ i # 0 /\ s.begin <= i - 1 /\ s.end <= i - 1
        /\ s.inside = FALSE /\ s.conflict \in BOOLEAN
        /\ s.begin # 0 => s.end # 0 /\ s.end > s.begin
    BY DEF ScanType, States, ScanInv
  <1>4. r = [s EXCEPT !.at = i, !.conflict = b]
    <2>1. r = [s EXCEPT !.at = s.at + 1, !.conflict = @ \/ lines[i].kind \in Keys \cup {"PROXY"}]
      BY <1>1, <1>3, ParseLineCases DEF Kinds
    <2>2. s.at + 1 = i /\ (s.conflict \/ lines[i].kind \in Keys \cup {"PROXY"}) = b
      BY <1>2, <1>3
    <2> QED BY <2>1, <2>2
  <1>5. r.begin = s.begin /\ r.end = s.end /\ r.inside = FALSE /\ r.values = s.values /\ r.conflict = b
    BY <1>2, <1>3, <1>4 DEF ScanType, States
  <1> DEFINE I == Interior(s, i - 1)
  <1>6. Interior(r, i) = I /\ i \notin I
    BY <1>3, <1>5 DEF Interior
  <1> HIDE DEF I
  <1>7. /\ s.begin = 0 => ~s.inside /\ s.end = 0 /\ \A j \in 1..(i - 1) : lines[j].kind \notin MarkerKinds
        /\ s.begin # 0 =>
             /\ lines[s.begin].kind = "BEGIN" /\ s.end > s.begin /\ lines[s.end].kind = "END"
             /\ \A j \in 1..(i - 1) : lines[j].kind \in MarkerKinds => j \in {s.begin, s.end}
        /\ DOMAIN s.values = {lines[j].kind : j \in I}
        /\ \A j \in I : lines[j].kind \in Keys /\ s.values[lines[j].kind] = lines[j].value
        /\ \A j, k \in I : lines[j].kind = lines[k].kind => j = k
        /\ s.conflict <=> \E j \in 1..(i - 1) : j \notin I /\ lines[j].kind \in Keys \cup {"PROXY"}
    BY <1>3 DEF ScanInv, I
  <1>8. (\A j \in 1..i : j \in 1..(i - 1) \/ j = i) /\ (\A j \in 1..(i - 1) : j \in 1..i) /\ i \in 1..i
    BY <1>3
  <1>9. b <=> \E j \in 1..i : j \notin I /\ lines[j].kind \in Keys \cup {"PROXY"}
    BY <1>2, <1>6, <1>7, <1>8
  <1>10. lines[i].kind \notin MarkerKinds
    BY DEF MarkerKinds, Keys
  <1> QED BY <1>1, <1>3, <1>5, <1>6, <1>7, <1>8, <1>9, <1>10 DEF ScanInv

LEMMA ScanStep ==
  ASSUME NEW S, NEW lines \in Seq(S), NEW i \in 1..Len(lines), lines[i].kind \in Kinds,
         NEW s \in ScanType(lines), s.at = i - 1
  PROVE  /\ ParseLine(s, lines[i]).ok <=> s.ok /\ ~Invalid(s, lines[i])
         /\ ~Invalid(s, lines[i]) /\ ScanInv(lines, i - 1, s) => ScanInv(lines, i, ParseLine(s, lines[i]))
  <1>1. PICK r : r = ParseLine(s, lines[i])
    OBVIOUS
  <1>2. r.ok = IF Invalid(s, lines[i]) THEN FALSE ELSE s.ok
    <2> DEFINE b == s.conflict \/ lines[i].kind \in Keys \cup {"PROXY"}
               v == With(s.values, lines[i])
    <2>1. CASE Invalid(s, lines[i])
      <3>1. r = [s EXCEPT !.at = s.at + 1, !.ok = FALSE]
        BY <1>1, <2>1, ParseLineCases
      <3> QED BY <2>1, <3>1 DEF ScanType, States
    <2>2. CASE ~Invalid(s, lines[i]) /\ lines[i].kind = "BEGIN"
      <3>1. r = [s EXCEPT !.at = s.at + 1, !.begin = s.at + 1, !.inside = TRUE]
        BY <1>1, <2>2, ParseLineCases
      <3> QED BY <2>2, <3>1 DEF ScanType, States
    <2>3. CASE ~Invalid(s, lines[i]) /\ lines[i].kind = "END"
      <3>1. r = [s EXCEPT !.at = s.at + 1, !.end = s.at + 1, !.inside = FALSE]
        BY <1>1, <2>3, ParseLineCases
      <3> QED BY <2>3, <3>1 DEF ScanType, States
    <2>4. CASE ~Invalid(s, lines[i]) /\ lines[i].kind \in Keys /\ s.inside
      <3>1. r = [s EXCEPT !.at = s.at + 1, !.values = v]
        BY <1>1, <2>4, ParseLineCases
      <3> HIDE DEF v
      <3> QED BY <2>4, <3>1 DEF ScanType, States
    <2>5. CASE ~Invalid(s, lines[i]) /\ lines[i].kind \in Keys \cup {"TEXT", "PROXY"} /\ ~s.inside
      <3>1. r = [s EXCEPT !.at = s.at + 1, !.conflict = b]
        BY <1>1, <2>5, ParseLineCases
      <3> HIDE DEF b
      <3> QED BY <2>5, <3>1 DEF ScanType, States
    <2> QED BY <2>1, <2>2, <2>3, <2>4, <2>5 DEF Kinds, Invalid
  <1>3. s.inside \in BOOLEAN
    BY DEF ScanType, States
  <1>4. ~Invalid(s, lines[i]) /\ ScanInv(lines, i - 1, s) => ScanInv(lines, i, ParseLine(s, lines[i]))
    BY <1>3, ScanBegin, ScanEnd, ScanInside, ScanOutside DEF Kinds, Invalid
  <1>5. r.ok <=> s.ok /\ ~Invalid(s, lines[i])
    <2>1. Invalid(s, lines[i]) => r.ok = FALSE
      BY <1>2
    <2>2. ~Invalid(s, lines[i]) => r.ok = s.ok
      BY <1>2
    <2> QED BY <2>1, <2>2
  <1> QED BY <1>1, <1>4, <1>5

\* The state a line was refused in.
Refusal(lines, n) ==
  \E i \in 1..n : \E s \in ScanType(lines) : s.at = i - 1 /\ ScanInv(lines, i - 1, s) /\ Invalid(s, lines[i])

LEMMA ScanStates ==
  ASSUME NEW S, NEW lines \in Seq(S), \A i \in 1..Len(lines) : lines[i].kind \in Kinds
  PROVE  /\ Scan(lines) \in ScanType(lines)
         /\ Scan(lines).ok => ScanInv(lines, Len(lines), Scan(lines))
         /\ ~Scan(lines).ok => Refusal(lines, Len(lines))
  <1>1. PICK f : IsScan(f, lines) /\ Scan(lines) = f[Len(lines)]
    BY ScanExists
  <1> DEFINE n == Len(lines)
             Good(k) == /\ f[k] \in ScanType(lines) /\ f[k].at = k
                        /\ f[k].ok => ScanInv(lines, k, f[k])
                        /\ ~f[k].ok => Refusal(lines, k)
             G == {k \in 0..n : Good(k)}
  <1>2. n \in Nat /\ \A i \in 1..n : f[i] = ParseLine(f[i - 1], lines[i])
    <2>1. n \in Nat
      OBVIOUS
    <2>2. \A i \in 0..n : f[i] = IF i = 0 THEN Fresh ELSE ParseLine(f[i - 1], lines[i])
      BY <1>1 DEF IsScan
    <2> QED BY <2>1, <2>2
  <1>3. f[0] = Fresh
    BY <1>1, <1>2 DEF IsScan
  <1>4. 0 \in G
    <2>1. Fresh.values \in Seen(lines)
      <3>1. Fresh.values \in [{} -> {lines[j].value : j \in 1..Len(lines)}]
        BY DEF Fresh
      <3> QED BY <3>1 DEF Seen
    <2>2. Fresh \in ScanType(lines)
      BY <2>1 DEF ScanType, States, Fresh
    <2>3. Fresh.at = 0 /\ Fresh.ok = TRUE /\ Fresh.begin = 0 /\ Fresh.end = 0 /\ Fresh.inside = FALSE
          /\ Fresh.conflict = FALSE /\ DOMAIN Fresh.values = {}
      BY DEF Fresh
    <2>4. Interior(Fresh, 0) = {}
      BY <2>3 DEF Interior
    <2>5. ScanInv(lines, 0, Fresh)
      BY <2>3, <2>4 DEF ScanInv
    <2> QED BY <1>2, <1>3, <2>2, <2>3, <2>5
  <1>5. ASSUME NEW k \in 1..n, k - 1 \in G PROVE k \in G
    <2>1. PICK s \in ScanType(lines) : s = f[k - 1] /\ s.at = k - 1 /\ s.ok \in BOOLEAN
      BY <1>5 DEF ScanType, States
    <2>2. f[k] = ParseLine(s, lines[k]) /\ lines[k].kind \in Kinds
      BY <1>2, <2>1
    <2>3. f[k] \in ScanType(lines) /\ f[k].at = k
      BY <2>1, <2>2, ScanStepType
    <2>4. f[k].ok => ScanInv(lines, k, f[k])
      <3>1. s.ok => ScanInv(lines, k - 1, s)
        BY <1>5, <2>1
      <3>2. f[k].ok => ~Invalid(s, lines[k]) /\ s.ok
        BY <2>1, <2>2, ScanStep
      <3>3. ~Invalid(s, lines[k]) /\ ScanInv(lines, k - 1, s) => ScanInv(lines, k, f[k])
        BY <2>1, <2>2, ScanStep
      <3> QED BY <3>1, <3>2, <3>3
    <2>5. ~f[k].ok => Refusal(lines, k)
      <3>1. ~s.ok => Refusal(lines, k)
        <4>1. ~s.ok => Refusal(lines, k - 1)
          BY <1>5, <2>1
        <4>2. \A i \in 1..(k - 1) : i \in 1..k
          OBVIOUS
        <4> QED BY <4>1, <4>2 DEF Refusal
      <3>2. s.ok /\ Invalid(s, lines[k]) => Refusal(lines, k)
        <4>1. s.ok => ScanInv(lines, k - 1, s)
          BY <1>5, <2>1
        <4> QED BY <2>1, <4>1 DEF Refusal
      <3> QED BY <2>1, <2>2, <3>1, <3>2, ScanStep
    <2> QED BY <2>3, <2>4, <2>5
  <1>6. G = 0..n
    <2> HIDE DEF G
    <2>1. G \in SUBSET (0..n)
      BY DEF G
    <2> QED BY <1>2, <1>4, <1>5, <2>1, UpTo
  <1> HIDE DEF G
  <1>7. n \in G
    BY <1>2, <1>6
  <1>8. Good(n)
    BY <1>7 DEF G
  <1> QED BY <1>1, <1>8

------------------------------------------------------------------------------
(* What is recognised.                                                     *)

MarkersIn(lines) == {i \in 1..Len(lines) : lines[i].kind \in MarkerKinds}

\* The markers and the keys of one block that begins at p.
Framed(lines, p) ==
  /\ p \in 1..Len(lines) /\ p + 4 <= Len(lines) /\ lines[p].kind = "BEGIN" /\ lines[p + 4].kind = "END"
  /\ {lines[i].kind : i \in (p + 1)..(p + 3)} = Keys
  /\ MarkersIn(lines) = {p, p + 4}

\* Three distinct numbers that fill an interval.
LEMMA ThreeInARow ==
  ASSUME NEW a \in Nat, NEW b \in Nat, NEW i \in a..b, NEW j \in a..b, NEW k \in a..b,
         i # j, j # k, i # k, \A m \in a..b : m \in {i, j, k}
  PROVE  b = a + 2
  <1>1. b >= a + 2
    OBVIOUS
  <1>2. b < a + 3
    <2> SUFFICES ASSUME b >= a + 3 PROVE FALSE
      OBVIOUS
    <2>1. a \in {i, j, k} /\ a + 1 \in {i, j, k} /\ a + 2 \in {i, j, k} /\ a + 3 \in {i, j, k}
      OBVIOUS
    <2> QED BY <2>1
  <1> QED BY <1>1, <1>2

LEMMA BlockIsFramed ==
  ASSUME NEW S, NEW lines \in Seq(S), \A i \in 1..Len(lines) : lines[i].kind \in Kinds,
         Scan(lines).ok, Complete(Scan(lines)), Scan(lines).begin # 0
  PROVE  LET s == Scan(lines) IN
         /\ Framed(lines, s.begin) /\ s.end = s.begin + 4 /\ DOMAIN s.values = Keys
         /\ \A i \in (s.begin + 1)..(s.begin + 3) : s.values[lines[i].kind] = lines[i].value
         /\ s.conflict <=> \E i \in 1..Len(lines) : i \notin (s.begin + 1)..(s.begin + 3) /\ lines[i].kind \in Keys \cup {"PROXY"}
  <1>1. PICK s : s = Scan(lines)
    OBVIOUS
  <1>2. s \in ScanType(lines) /\ ScanInv(lines, Len(lines), s)
    BY <1>1, ScanStates
  <1>3. PICK p \in Nat, e \in Nat : p = s.begin /\ e = s.end
    BY <1>2 DEF ScanType, States
  <1>4. p # 0 /\ e # 0 /\ DOMAIN s.values = Keys /\ p <= Len(lines) /\ e <= Len(lines) /\ p < e /\ ~s.inside
    BY <1>1, <1>2, <1>3 DEF Complete, ScanInv
  <1> DEFINE I == (p + 1)..(e - 1)
  <1>5. Interior(s, Len(lines)) = I
    BY <1>3, <1>4 DEF Interior
  <1> HIDE DEF I
  <1>6. /\ lines[p].kind = "BEGIN" /\ lines[e].kind = "END"
        /\ \A j \in 1..Len(lines) : lines[j].kind \in MarkerKinds => j \in {p, e}
        /\ Keys = {lines[j].kind : j \in I}
        /\ \A j \in I : lines[j].kind \in Keys /\ s.values[lines[j].kind] = lines[j].value
        /\ \A j, k \in I : lines[j].kind = lines[k].kind => j = k
        /\ s.conflict <=> \E j \in 1..Len(lines) : j \notin I /\ lines[j].kind \in Keys \cup {"PROXY"}
    BY <1>2, <1>3, <1>4, <1>5 DEF ScanInv
  <1>7. PICK i \in I, j \in I, k \in I : lines[i].kind = "HTTP_PROXY" /\ lines[j].kind = "HTTPS_PROXY" /\ lines[k].kind = "NO_PROXY"
    <2>1. \A key \in Keys : \E j \in I : lines[j].kind = key
      BY <1>6
    <2>2. "HTTP_PROXY" \in Keys /\ "HTTPS_PROXY" \in Keys /\ "NO_PROXY" \in Keys
      BY DEF Keys
    <2> QED BY <2>1, <2>2
  <1>8. \A m \in I : m \in {i, j, k}
    BY <1>6, <1>7 DEF Keys
  <1>9. e - 1 = p + 1 + 2
    <2>1. i # j /\ j # k /\ i # k
      BY <1>7
    <2>2. p + 1 \in Nat /\ e - 1 \in Nat
      BY <1>4
    <2> QED BY <1>7, <1>8, <2>1, <2>2, ThreeInARow DEF I
  <1>10. e = p + 4 /\ I = (p + 1)..(p + 3)
    BY <1>9 DEF I
  <1>11. MarkersIn(lines) = {p, p + 4}
    <2>1. p \in 1..Len(lines) /\ e \in 1..Len(lines) /\ lines[p].kind \in MarkerKinds /\ lines[e].kind \in MarkerKinds
      BY <1>4, <1>6 DEF MarkerKinds
    <2>2. \A h \in 1..Len(lines) : lines[h].kind \in MarkerKinds => h \in {p, e}
      BY <1>6
    <2>3. MarkersIn(lines) = {p, e}
      BY <2>1, <2>2 DEF MarkersIn
    <2> QED BY <1>10, <2>3
  <1>12. Framed(lines, p)
    BY <1>4, <1>6, <1>10, <1>11 DEF Framed
  <1> QED BY <1>1, <1>3, <1>4, <1>6, <1>10, <1>12

LEMMA FramedIsBlock ==
  ASSUME NEW S, NEW lines \in Seq(S), \A i \in 1..Len(lines) : lines[i].kind \in Kinds,
         NEW p, Framed(lines, p)
  PROVE  Scan(lines).ok /\ Complete(Scan(lines)) /\ Scan(lines).begin = p
  <1>1. /\ p \in Nat /\ p # 0 /\ Len(lines) \in Nat /\ p + 4 <= Len(lines)
        /\ lines[p].kind = "BEGIN" /\ lines[p + 4].kind = "END"
        /\ {lines[i].kind : i \in (p + 1)..(p + 3)} = Keys
        /\ \A i \in 1..Len(lines) : lines[i].kind \in MarkerKinds => i \in {p, p + 4}
    BY DEF Framed, MarkersIn
  <1>2. \A i, j \in (p + 1)..(p + 3) : lines[i].kind = lines[j].kind => i = j
    <2>1. \A i \in (p + 1)..(p + 3) : i \in {p + 1, p + 2, p + 3}
      BY <1>1
    <2>2. \A key \in Keys : key \in {lines[p + 1].kind, lines[p + 2].kind, lines[p + 3].kind}
      BY <1>1, <2>1
    <2>3. /\ lines[p + 1].kind # lines[p + 2].kind /\ lines[p + 2].kind # lines[p + 3].kind
          /\ lines[p + 1].kind # lines[p + 3].kind
      BY <2>2 DEF Keys
    <2> QED BY <2>1, <2>3
  <1>3. ASSUME NEW n \in 0..Len(lines), NEW s \in ScanType(lines), ScanInv(lines, n, s)
        PROVE  /\ s.begin \in Nat /\ s.end \in Nat /\ s.inside \in BOOLEAN
               /\ s.begin # 0 => s.begin = p /\ p <= n
               /\ s.end # 0 => s.end = p + 4 /\ s.begin = p
               /\ p <= n => s.begin = p
               /\ p + 4 <= n => s.end = p + 4
               /\ s.inside <=> s.begin # 0 /\ s.end = 0
    <2>1. s.begin \in Nat /\ s.end \in Nat /\ s.inside \in BOOLEAN
      BY DEF ScanType, States
    <2>2. s.begin # 0 => s.begin = p /\ p <= n
      <3> SUFFICES ASSUME s.begin # 0 PROVE s.begin = p /\ p <= n
        OBVIOUS
      <3>1. s.begin \in 1..Len(lines) /\ lines[s.begin].kind = "BEGIN" /\ s.begin <= n
        BY <1>3, <2>1 DEF ScanInv
      <3> QED BY <1>1, <3>1 DEF MarkerKinds
    <2>3. s.end # 0 => s.end = p + 4 /\ s.begin = p
      <3> SUFFICES ASSUME s.end # 0 PROVE s.end = p + 4 /\ s.begin = p
        OBVIOUS
      <3>1. s.begin # 0 /\ s.end \in 1..Len(lines) /\ lines[s.end].kind = "END"
        BY <1>3, <2>1 DEF ScanInv
      <3> QED BY <1>1, <2>2, <3>1 DEF MarkerKinds
    <2>4. p <= n => s.begin = p
      <3>1. p <= n => p \in 1..n /\ lines[p].kind \in MarkerKinds
        BY <1>1 DEF MarkerKinds
      <3> QED BY <1>3, <2>2, <3>1 DEF ScanInv
    <2>5. p + 4 <= n => s.end = p + 4
      <3>1. p + 4 <= n => p + 4 \in 1..n /\ lines[p + 4].kind \in MarkerKinds /\ p <= n
        BY <1>1 DEF MarkerKinds
      <3>2. p + 4 <= n => p + 4 \in {s.begin, s.end}
        BY <1>1, <1>3, <2>4, <3>1 DEF ScanInv
      <3> QED BY <1>1, <2>4, <3>1, <3>2
    <2>6. s.inside <=> s.begin # 0 /\ s.end = 0
      BY <1>3, <2>1 DEF ScanInv
    <2> QED BY <2>1, <2>2, <2>3, <2>4, <2>5, <2>6
  <1>4. Scan(lines).ok
    <2> SUFFICES ASSUME ~Scan(lines).ok PROVE FALSE
      OBVIOUS
    <2>1. PICK i \in 1..Len(lines), s \in ScanType(lines) : ScanInv(lines, i - 1, s) /\ Invalid(s, lines[i])
      BY ScanStates DEF Refusal
    <2>2. /\ s.begin \in Nat /\ s.end \in Nat /\ s.inside \in BOOLEAN /\ i \in Nat
          /\ s.begin # 0 => s.begin = p /\ p <= i - 1
          /\ s.end # 0 => s.end = p + 4 /\ s.begin = p /\ p + 4 <= i - 1
          /\ p <= i - 1 => s.begin = p
          /\ p + 4 <= i - 1 => s.end = p + 4
          /\ s.inside <=> s.begin # 0 /\ s.end = 0
      <3>1. i - 1 \in 0..Len(lines) /\ (s.end \in Nat => s.end <= i - 1)
        BY <2>1 DEF ScanInv
      <3> QED BY <1>1, <1>3, <2>1, <3>1
    <2>3. lines[i].kind \in MarkerKinds => i \in {p, p + 4}
      BY <1>1
    <2>4. lines[i].kind # "BEGIN" \/ ~(s.begin # 0 \/ s.end # 0)
      BY <1>1, <2>2, <2>3 DEF MarkerKinds
    <2>5. lines[i].kind # "END" \/ ~(~s.inside \/ s.end # 0)
      <3> SUFFICES ASSUME lines[i].kind = "END" PROVE s.inside /\ s.end = 0
        OBVIOUS
      <3>1. i = p + 4
        BY <1>1, <2>3 DEF MarkerKinds
      <3> QED BY <1>1, <2>2, <3>1
    <2>6. lines[i].kind # "OTHER"
      BY <1>1, <2>3 DEF MarkerKinds
    <2>7. s.inside => s.begin = p /\ i \in (p + 1)..(p + 4)
      BY <1>1, <2>2
    <2>8. lines[i].kind # "END" /\ s.inside => i \in (p + 1)..(p + 3) /\ lines[i].kind \in Keys
      BY <1>1, <2>7
    <2>9. ~(lines[i].kind \in Keys /\ s.inside /\ lines[i].kind \in DOMAIN s.values)
      <3> SUFFICES ASSUME lines[i].kind \in Keys, s.inside, lines[i].kind \in DOMAIN s.values PROVE FALSE
        OBVIOUS
      <3>1. i \in (p + 1)..(p + 3)
        BY <2>8 DEF Keys
      <3>2. Interior(s, i - 1) = (p + 1)..(i - 1)
        BY <1>1, <2>2, <2>7 DEF Interior
      <3>3. PICK j \in (p + 1)..(i - 1) : lines[j].kind = lines[i].kind
        <4>1. DOMAIN s.values = {lines[j].kind : j \in Interior(s, i - 1)}
          BY <2>1 DEF ScanInv
        <4> QED BY <3>2, <4>1
      <3> QED BY <1>1, <1>2, <3>1, <3>3
    <2>10. ~(lines[i].kind \in {"TEXT", "PROXY"} /\ s.inside)
      BY <2>8 DEF Keys
    <2> QED BY <2>1, <2>4, <2>5, <2>6, <2>9, <2>10 DEF Invalid
  <1>5. PICK s \in ScanType(lines) : s = Scan(lines) /\ ScanInv(lines, Len(lines), s)
    BY <1>4, ScanStates
  <1>6. s.begin = p /\ s.end = p + 4 /\ ~s.inside
    BY <1>1, <1>3, <1>5
  <1>7. Interior(s, Len(lines)) = (p + 1)..(p + 3)
    BY <1>1, <1>6 DEF Interior
  <1>8. DOMAIN s.values = Keys
    BY <1>1, <1>5, <1>7 DEF ScanInv
  <1> QED BY <1>1, <1>4, <1>5, <1>6, <1>8 DEF Complete

LEMMA NoMarkers ==
  ASSUME NEW S, NEW lines \in Seq(S), \A i \in 1..Len(lines) : lines[i].kind \in Kinds
  PROVE  Scan(lines).ok /\ Complete(Scan(lines)) /\ Scan(lines).begin = 0 <=> MarkersIn(lines) = {}
  <1>1. ASSUME Scan(lines).ok, Scan(lines).begin = 0 PROVE MarkersIn(lines) = {}
    BY <1>1, ScanStates DEF ScanInv, MarkersIn
  <1>2. ASSUME MarkersIn(lines) = {} PROVE Scan(lines).ok /\ Complete(Scan(lines)) /\ Scan(lines).begin = 0
    <2>1. \A i \in 1..Len(lines) : lines[i].kind \notin MarkerKinds
      BY <1>2 DEF MarkersIn
    <2>2. ASSUME NEW n \in 0..Len(lines), NEW s \in ScanType(lines), ScanInv(lines, n, s)
          PROVE  s.begin = 0 /\ s.end = 0 /\ ~s.inside
      <3>1. s.begin \in Nat
        BY DEF ScanType, States
      <3>2. s.begin # 0 => s.begin \in 1..Len(lines) /\ lines[s.begin].kind = "BEGIN"
        BY <2>2, <3>1 DEF ScanInv
      <3> QED BY <2>1, <2>2, <3>2 DEF ScanInv, MarkerKinds
    <2>3. Scan(lines).ok
      <3> SUFFICES ASSUME ~Scan(lines).ok PROVE FALSE
        OBVIOUS
      <3>1. PICK i \in 1..Len(lines), s \in ScanType(lines) : ScanInv(lines, i - 1, s) /\ Invalid(s, lines[i])
        BY ScanStates DEF Refusal
      <3>2. s.begin = 0 /\ s.end = 0 /\ ~s.inside
        BY <2>2, <3>1
      <3> QED BY <2>1, <3>1, <3>2 DEF Invalid, MarkerKinds
    <2>4. Scan(lines).begin = 0 /\ Scan(lines).end = 0 /\ ~Scan(lines).inside
      <3>1. Len(lines) \in 0..Len(lines)
        OBVIOUS
      <3> QED BY <2>2, <2>3, <3>1, ScanStates
    <2> QED BY <2>3, <2>4 DEF Complete
  <1> QED BY <1>1, <1>2

------------------------------------------------------------------------------
(* Lines replaced by others, or taken out.                                 *)

\* The lines before the p-th, a block, and those from the q-th on.
Spliced(lines, p, block, q) == SubSeq(lines, 1, p - 1) \o block \o SubSeq(lines, q, Len(lines))
Remaining(lines, p, q) == SubSeq(lines, 1, p - 1) \o SubSeq(lines, q, Len(lines))

IsSpliced(new, lines, p, block, m, q) ==
  /\ Len(new) = (p - 1) + m + (Len(lines) + 1 - q)
  /\ \A i \in 1..(p - 1) : new[i] = lines[i]
  /\ \A i \in 1..m : new[(p - 1) + i] = block[i]
  /\ \A i \in q..Len(lines) : new[i + (p - 1) + m + 1 - q] = lines[i]

LEMMA Concatenated ==
  ASSUME NEW S, NEW s \in Seq(S), NEW t \in Seq(S), NEW w, w = s \o t
  PROVE  /\ w \in Seq(S) /\ Len(w) = Len(s) + Len(t)
         /\ \A i \in 1..Len(s) : w[i] = s[i]
         /\ \A i \in 1..Len(t) : w[Len(s) + i] = t[i]
  OBVIOUS

LEMMA SizeOfInterval ==
  ASSUME NEW a \in Nat, NEW b \in Nat, a <= b + 1
  PROVE  IsFiniteSet(a..b) /\ Cardinality(a..b) = b + 1 - a
  <1>1. a \in Int /\ b \in Int
    OBVIOUS
  <1>2. IsFiniteSet(a..b) /\ Cardinality(a..b) = IF a > b THEN 0 ELSE b-a+1
    BY <1>1, FS_Interval
  <1> QED BY <1>2

LEMMA SplicedLines ==
  ASSUME NEW S, NEW lines \in Seq(S), NEW block \in Seq(S), NEW p \in 1..(Len(lines) + 1), NEW q \in p..(Len(lines) + 1)
  PROVE  Spliced(lines, p, block, q) \in Seq(S) /\ IsSpliced(Spliced(lines, p, block, q), lines, p, block, Len(block), q)
  <1>9. PICK new, m : new = Spliced(lines, p, block, q) /\ m = Len(block)
    OBVIOUS
  <1> DEFINE n == Len(lines)
             a == SubSeq(lines, 1, p - 1)
             c == SubSeq(lines, q, n)
  <1>1. n \in Nat /\ p \in Nat /\ q \in Nat /\ m \in Nat /\ p # 0 /\ p <= q /\ q <= n + 1
    BY <1>9
  <1>2. a \in Seq(S) /\ Len(a) = p - 1 /\ \A i \in 1..(p - 1) : a[i] = lines[i]
    OBVIOUS
  <1>3. c \in Seq(S) /\ Len(c) = n + 1 - q /\ \A i \in 1..(n + 1 - q) : c[i] = lines[q + i - 1]
    <2>1. CASE q = n + 1
      BY <2>1
    <2>2. CASE q <= n
      BY <2>2
    <2> QED BY <1>1, <2>1, <2>2
  <1> HIDE DEF a, c
  <1>10. PICK ab : ab = a \o block
    OBVIOUS
  <1>4. /\ ab \in Seq(S) /\ Len(ab) = (p - 1) + m
        /\ \A i \in 1..(p - 1) : ab[i] = lines[i]
        /\ \A i \in 1..m : ab[(p - 1) + i] = block[i]
    <2>0. a \in Seq(S)
      BY <1>2
    <2>1. ab \in Seq(S) /\ Len(ab) = Len(a) + Len(block)
      BY <2>0, <1>10, Concatenated
    <2>2. \A i \in 1..Len(a) : ab[i] = a[i]
      BY <2>0, <1>10, Concatenated
    <2>3. \A i \in 1..Len(block) : ab[Len(a) + i] = block[i]
      BY <2>0, <1>10, Concatenated
    <2> QED BY <1>1, <1>2, <1>9, <2>1, <2>2, <2>3
  <1>11. new = ab \o c
    BY <1>9, <1>10 DEF a, c, Spliced
  <1>5. /\ new \in Seq(S) /\ Len(new) = (p - 1) + m + (n + 1 - q)
        /\ \A i \in 1..((p - 1) + m) : new[i] = ab[i]
        /\ \A i \in 1..(n + 1 - q) : new[(p - 1) + m + i] = c[i]
    <2>0. ab \in Seq(S) /\ c \in Seq(S)
      BY <1>3, <1>4
    <2>1. new \in Seq(S) /\ Len(new) = Len(ab) + Len(c)
      BY <2>0, <1>11, Concatenated
    <2>2. \A i \in 1..Len(ab) : new[i] = ab[i]
      BY <2>0, <1>11, Concatenated
    <2>3. \A i \in 1..Len(c) : new[Len(ab) + i] = c[i]
      BY <2>0, <1>11, Concatenated
    <2> QED BY <1>1, <1>3, <1>4, <2>1, <2>2, <2>3
  <1>6. \A i \in 1..(p - 1) : new[i] = lines[i]
    BY <1>1, <1>4, <1>5
  <1>7. \A i \in 1..m : new[(p - 1) + i] = block[i]
    BY <1>1, <1>4, <1>5
  <1>8. ASSUME NEW i \in q..n PROVE new[i + (p - 1) + m + 1 - q] = lines[i]
    <2>1. i + 1 - q \in 1..(n + 1 - q) /\ q + (i + 1 - q) - 1 = i /\ (p - 1) + m + (i + 1 - q) = i + (p - 1) + m + 1 - q
      BY <1>1
    <2>2. new[(p - 1) + m + (i + 1 - q)] = c[i + 1 - q]
      BY <1>5, <2>1
    <2>3. c[i + 1 - q] = lines[q + (i + 1 - q) - 1]
      BY <1>3, <2>1
    <2> QED BY <2>1, <2>2, <2>3
  <1> QED BY <1>5, <1>6, <1>7, <1>8, <1>9 DEF IsSpliced

IsRemaining(new, lines, p, q) ==
  /\ Len(new) = Len(lines) - (q - p)
  /\ \A i \in 1..(p - 1) : new[i] = lines[i]
  /\ \A i \in q..Len(lines) : new[i - (q - p)] = lines[i]

LEMMA RemainingLines ==
  ASSUME NEW S, NEW lines \in Seq(S), NEW p \in 1..(Len(lines) + 1), NEW q \in p..(Len(lines) + 1)
  PROVE  Remaining(lines, p, q) \in Seq(S) /\ IsRemaining(Remaining(lines, p, q), lines, p, q)
  <1>1. PICK none, new : none = <<>> /\ new = Spliced(lines, p, none, q)
    OBVIOUS
  <1>7. new = Remaining(lines, p, q)
    <2>0. SubSeq(lines, 1, p - 1) \in Seq(S)
      OBVIOUS
    <2>1. PICK a \in Seq(S) : a = SubSeq(lines, 1, p - 1)
      BY <2>0
    <2>2. a \o <<>> = a
      BY <2>1
    <2> QED BY <1>1, <2>1, <2>2 DEF Spliced, Remaining
  <1>2. none \in Seq(S)
    BY <1>1
  <1>3. new \in Seq(S) /\ IsSpliced(new, lines, p, none, Len(none), q)
    BY <1>1, <1>2, SplicedLines
  <1>4. Len(none) = 0
    BY <1>1
  <1>5. /\ Len(new) = (p - 1) + 0 + (Len(lines) + 1 - q)
        /\ \A i \in 1..(p - 1) : new[i] = lines[i]
        /\ \A i \in q..Len(lines) : new[i + (p - 1) + 0 + 1 - q] = lines[i]
    BY <1>3, <1>4 DEF IsSpliced
  <1>6. /\ Len(new) = Len(lines) - (q - p)
        /\ \A i \in q..Len(lines) : i + (p - 1) + 0 + 1 - q = i - (q - p)
    BY <1>5
  <1> QED BY <1>3, <1>5, <1>6, <1>7 DEF IsRemaining

------------------------------------------------------------------------------
(* The cut of a NO_PROXY value into entries.                               *)

\* The pieces after the i-th and up to the k-th can be one entry.
Reaches(value, i, k) == ValidEntry(SubSeq(value, i + 1, k))

\* Cut there, the first k pieces are entries.
CutAt(value, cuts, k) ==
  \A i, j \in cuts \cup {0, k} : i < j /\ (\A h \in cuts : h <= i \/ h >= j) => Reaches(value, i, j)

CutInto(value, k, m) == \E cuts \in SUBSET (1..(k - 1)) : Cardinality(cuts) < m /\ CutAt(value, cuts, k)

LEMMA MinOfNaturals ==
  ASSUME NEW T \in SUBSET Nat, T # {}
  PROVE  Min(T) \in T /\ \A n \in T : Min(T) <= n
  BY LeastElement DEF Min

LEMMA GreatestCut ==
  ASSUME NEW k \in Nat, NEW cuts \in SUBSET (1..k), cuts # {}
  PROVE  \E h \in cuts : \A i \in cuts : i <= h
  <1> DEFINE T == {k - i : i \in cuts}
  <1>1. T \in SUBSET Nat /\ T # {}
    <2>1. \A i \in cuts : k - i \in Nat
      OBVIOUS
    <2> QED BY <2>1
  <1>2. PICK t \in T : \A m \in T : t <= m
    BY <1>1, LeastElement
  <1>3. PICK h \in cuts : t = k - h
    BY <1>2
  <1>4. ASSUME NEW i \in cuts PROVE i <= h
    <2>1. k - i \in T /\ i \in Nat /\ h \in Nat
      OBVIOUS
    <2>2. k - h <= k - i
      BY <1>2, <1>3, <2>1
    <2> QED BY <2>1, <2>2
  <1> QED BY <1>4

\* The last entry, and those before it.
LEMMA OneEntryMore ==
  ASSUME NEW value, NEW k \in Nat, NEW h \in 1..(k - 1), NEW m \in Nat, CutInto(value, h, m), Reaches(value, h, k)
  PROVE  CutInto(value, k, m + 1)
  <1>1. PICK cuts \in SUBSET (1..(h - 1)) : Cardinality(cuts) < m /\ CutAt(value, cuts, h)
    BY DEF CutInto
  <1>2. IsFiniteSet(cuts) /\ Cardinality(cuts) \in Nat /\ h \notin cuts /\ h \in Nat
    <2>1. IsFiniteSet(1..(h - 1))
      BY FS_Interval
    <2>2. h \notin cuts /\ h \in Nat
      OBVIOUS
    <2> QED BY <2>1, <2>2, FS_Subset, FS_CardinalityType
  <1> DEFINE more == cuts \cup {h}
  <1>3. Cardinality(more) = Cardinality(cuts) + 1
    BY <1>2, FS_AddElement
  <1>4. more \in SUBSET (1..(k - 1)) /\ Cardinality(more) < m + 1
    BY <1>1, <1>2, <1>3
  <1>5. ASSUME NEW i \in more \cup {0, k}, NEW j \in more \cup {0, k}, i < j, \A g \in more : g <= i \/ g >= j
        PROVE  Reaches(value, i, j)
    <2>1. i \in Nat /\ j \in Nat /\ j # 0 /\ i # k /\ \A g \in more : g \in 1..h
      BY <1>1, <1>5
    <2>2. h <= i \/ h >= j
      BY <1>5
    <2>3. CASE h <= i
      <3>1. i = h
        BY <1>5, <2>1, <2>3
      <3>2. j = k
        BY <1>5, <2>1, <3>1
      <3> QED BY <3>1, <3>2
    <2>4. CASE h >= j
      <3>1. i \in cuts \cup {0, h} /\ j \in cuts \cup {0, h} /\ \A g \in cuts : g <= i \/ g >= j
        BY <1>5, <2>1, <2>4
      <3> QED BY <1>1, <1>5, <3>1 DEF CutAt
    <2> QED BY <2>2, <2>3, <2>4
  <1>6. CutAt(value, more, k)
    BY <1>5 DEF CutAt
  <1> QED BY <1>4, <1>6 DEF CutInto

LEMMA LastEntry ==
  ASSUME NEW value, NEW k \in Nat, k # 0, NEW m \in Nat, CutInto(value, k, m)
  PROVE  /\ m # 0
         /\ \/ Reaches(value, 0, k)
            \/ \E h \in 1..(k - 1) : Reaches(value, h, k) /\ CutInto(value, h, m - 1)
  <1>1. PICK cuts \in SUBSET (1..(k - 1)) : Cardinality(cuts) < m /\ CutAt(value, cuts, k)
    BY DEF CutInto
  <1>2. IsFiniteSet(cuts) /\ Cardinality(cuts) \in Nat
    <2>1. IsFiniteSet(1..(k - 1))
      BY FS_Interval
    <2> QED BY <2>1, FS_Subset, FS_CardinalityType
  <1>3. m # 0
    BY <1>1, <1>2
  <1>4. CASE cuts = {}
    BY <1>1, <1>3, <1>4 DEF CutAt
  <1>5. CASE cuts # {}
    <2>1. PICK h \in cuts : \A i \in cuts : i <= h
      <3>1. cuts \in SUBSET (1..(k - 1)) /\ k - 1 \in Nat
        OBVIOUS
      <3> QED BY <1>5, <3>1, GreatestCut
    <2>2. h \in 1..(k - 1) /\ \A i \in cuts : i \in Nat
      BY <2>1
    <2>3. Reaches(value, h, k)
      BY <1>1, <2>1, <2>2 DEF CutAt
    <2> DEFINE less == cuts \ {h}
    <2>4. less \in SUBSET (1..(h - 1))
      <3>1. \A i \in less : i \in 1..(k - 1) /\ i <= h /\ i # h
        BY <2>1
      <3> QED BY <2>2, <3>1
    <2>5. Cardinality(less) < m - 1
      <3>1. Cardinality(less) = Cardinality(cuts) - 1
        BY <1>2, <2>1, FS_RemoveElement
      <3> QED BY <1>1, <1>2, <3>1
    <2>6. CutAt(value, less, h)
      <3> SUFFICES ASSUME NEW i \in less \cup {0, h}, NEW j \in less \cup {0, h}, i < j, \A g \in less : g <= i \/ g >= j
                   PROVE  Reaches(value, i, j)
        BY DEF CutAt
      <3>1. i \in cuts \cup {0, k} /\ j \in cuts \cup {0, k}
        BY <2>1
      <3>2. \A g \in cuts : g <= i \/ g >= j
        BY <2>1, <2>2, <2>4
      <3> QED BY <1>1, <3>1, <3>2 DEF CutAt
    <2> QED BY <1>3, <2>2, <2>3, <2>4, <2>5, <2>6 DEF CutInto
  <1> QED BY <1>3, <1>4, <1>5

LEMMA OneEntry ==
  ASSUME NEW value, NEW k \in Nat, NEW m \in Nat, m # 0, Reaches(value, 0, k)
  PROVE  CutInto(value, k, m)
  <1>1. Cardinality({}) = 0
    BY FS_EmptySet
  <1>2. CutAt(value, {}, k)
    BY DEF CutAt
  <1> QED BY <1>1, <1>2 DEF CutInto

------------------------------------------------------------------------------
(* The fewest entries up to each boundary.                                 *)

\* The body of fewest in GeneratedNoProxy.
Fewest(value, f, k) ==
  IF k = 0 THEN 0
  ELSE Min({MaxEntries + 1} \cup
           {f[i] + 1 : i \in {h \in 0..(k - 1) : f[h] < MaxEntries /\ ValidEntry(SubSeq(value, h + 1, k))}})

IsFewest(f, value, n) == f = [k \in 0..n |-> Fewest(value, f, k)]

LEMMA FewestExists ==
  ASSUME NEW value, Len(value) \in Nat
  PROVE  \E f : IsFewest(f, value, Len(value)) /\ (GeneratedNoProxy(value) <=> f[Len(value)] <= MaxEntries)
  <1> DEFINE n == Len(value)
             T == {k \in 0..n : \E f : IsFewest(f, value, k)}
  <1>1. 0 \in T
    <2> DEFINE g == [i \in 0..0 |-> 0]
    <2>1. IsFewest(g, value, 0)
      BY DEF IsFewest, Fewest
    <2> QED BY <2>1
  <1>2. ASSUME NEW k \in 1..n, k - 1 \in T PROVE k \in T
    <2>1. PICK f : IsFewest(f, value, k - 1)
      BY <1>2
    <2> DEFINE g == [i \in 0..k |-> IF i = k THEN Fewest(value, f, k) ELSE f[i]]
    <2>2. \A i \in 0..(k - 1) : g[i] = f[i]
      OBVIOUS
    <2>3. g[k] = Fewest(value, f, k)
      OBVIOUS
    <2>4. ASSUME NEW i \in 0..k PROVE Fewest(value, g, i) = Fewest(value, f, i)
      <3>1. \A h \in 0..(i - 1) : g[h] = f[h]
        BY <2>2
      <3> HIDE DEF g
      <3>2. {h \in 0..(i - 1) : g[h] < MaxEntries /\ ValidEntry(SubSeq(value, h + 1, i))}
              = {h \in 0..(i - 1) : f[h] < MaxEntries /\ ValidEntry(SubSeq(value, h + 1, i))}
        BY <3>1
      <3>3. {g[j] + 1 : j \in {h \in 0..(i - 1) : g[h] < MaxEntries /\ ValidEntry(SubSeq(value, h + 1, i))}}
              = {f[j] + 1 : j \in {h \in 0..(i - 1) : f[h] < MaxEntries /\ ValidEntry(SubSeq(value, h + 1, i))}}
        BY <3>1, <3>2
      <3> QED BY <3>3 DEF Fewest
    <2>5. \A i \in 0..k : g[i] = Fewest(value, g, i)
      <3>1. \A i \in 0..(k - 1) : f[i] = Fewest(value, f, i)
        BY <2>1 DEF IsFewest
      <3> HIDE DEF g
      <3> QED BY <2>2, <2>3, <2>4, <3>1
    <2>6. g = [i \in 0..k |-> Fewest(value, g, i)]
      <3>1. g = [i \in 0..k |-> g[i]]
        OBVIOUS
      <3> HIDE DEF g
      <3> QED BY <2>5, <3>1
    <2>7. IsFewest(g, value, k)
      BY <2>6 DEF IsFewest
    <2> QED BY <2>7
  <1>3. T = 0..n
    <2> HIDE DEF T
    <2>1. T \in SUBSET (0..n)
      BY DEF T
    <2> QED BY <1>1, <1>2, <2>1, UpTo
  <1>4. PICK h : IsFewest(h, value, n)
    <2>1. n \in T
      BY <1>3
    <2> QED BY <2>1
  <1> DEFINE c == CHOOSE f : f = [k \in 0..Len(value) |->
                    IF k = 0 THEN 0
                    ELSE Min({MaxEntries + 1} \cup
                             {f[i] + 1 : i \in {g \in 0..(k - 1) : f[g] < MaxEntries /\ ValidEntry(SubSeq(value, g + 1, k))}})]
  <1>5. IsFewest(c, value, n)
    BY <1>4 DEF IsFewest, Fewest
  <1>6. GeneratedNoProxy(value) <=> c[n] <= MaxEntries
    BY DEF GeneratedNoProxy
  <1> HIDE DEF c
  <1> QED BY <1>5, <1>6

\* How few entries reach a boundary, from those before it.
LEMMA FewestOfEarlier ==
  ASSUME NEW value, NEW k \in Nat, k # 0, NEW f, \A h \in 0..(k - 1) : f[h] \in Nat
  PROVE  /\ Fewest(value, f, k) \in Nat
         /\ \A m \in 0..MaxEntries :
              Fewest(value, f, k) <= m <=> \E h \in 0..(k - 1) : Reaches(value, h, k) /\ f[h] < m
  <1> DEFINE E == {f[i] + 1 : i \in {h \in 0..(k - 1) : f[h] < MaxEntries /\ Reaches(value, h, k)}}
             T == {MaxEntries + 1} \cup E
  <1>1. MaxEntries \in Nat
    BY ManagedBlockAssumption
  <1>2. T \in SUBSET Nat /\ T # {}
    BY <1>1
  <1>3. Fewest(value, f, k) = Min(T)
    BY DEF Fewest, Reaches
  <1>4. PICK least \in T : least = Fewest(value, f, k) /\ \A n \in T : least <= n
    <2> HIDE DEF T
    <2> QED BY <1>2, <1>3, MinOfNaturals
  <1>5. ASSUME NEW m \in 0..MaxEntries, least <= m
        PROVE  \E h \in 0..(k - 1) : Reaches(value, h, k) /\ f[h] < m
    <2>1. least # MaxEntries + 1 /\ least \in E /\ least \in Nat
      BY <1>1, <1>2, <1>5
    <2>2. PICK h \in 0..(k - 1) : f[h] < MaxEntries /\ Reaches(value, h, k) /\ least = f[h] + 1
      BY <2>1
    <2> QED BY <1>5, <2>1, <2>2
  <1>6. ASSUME NEW m \in 0..MaxEntries, NEW h \in 0..(k - 1), Reaches(value, h, k), f[h] < m
        PROVE  least <= m
    <2>1. f[h] < MaxEntries /\ f[h] \in Nat
      BY <1>1, <1>6
    <2>2. f[h] + 1 \in T
      BY <1>6, <2>1
    <2> HIDE DEF T
    <2>3. least <= f[h] + 1 /\ least \in Nat
      BY <1>2, <1>4, <2>2
    <2> QED BY <1>6, <2>1, <2>3
  <1>7. least \in Nat
    BY <1>2
  <1> QED BY <1>4, <1>5, <1>6, <1>7

\* generated_no_proxy finds exactly the values that some cut makes a list of valid
\* entries.
THEOREM GeneratedIsCut ==
  ASSUME NEW value, Len(value) \in Nat \ {0}
  PROVE  GeneratedNoProxy(value) <=> CutInto(value, Len(value), MaxEntries)
  <1> DEFINE n == Len(value)
  <1>1. PICK f : IsFewest(f, value, n) /\ (GeneratedNoProxy(value) <=> f[n] <= MaxEntries)
    BY FewestExists
  <1>2. (\A k \in 0..n : f[k] = Fewest(value, f, k)) /\ n \in Nat /\ n # 0 /\ MaxEntries \in Nat
    BY <1>1, ManagedBlockAssumption DEF IsFewest
  <1>3. f[0] = 0
    <2>1. 0 \in 0..n
      BY <1>2
    <2> QED BY <1>2, <2>1 DEF Fewest
  <1> DEFINE Good(k) == f[k] \in Nat /\ (k # 0 => \A m \in 0..MaxEntries : f[k] <= m <=> CutInto(value, k, m))
             T == {k \in 0..n : \A j \in 0..k : Good(j)}
  <1>4. 0 \in T
    BY <1>2, <1>3
  <1>5. ASSUME NEW k \in 1..n, k - 1 \in T PROVE k \in T
    <2>1. \A h \in 0..(k - 1) : f[h] \in Nat /\ (h # 0 => \A m \in 0..MaxEntries : f[h] <= m <=> CutInto(value, h, m))
      BY <1>5
    <2>2. /\ f[k] \in Nat
          /\ \A m \in 0..MaxEntries : f[k] <= m <=> \E h \in 0..(k - 1) : Reaches(value, h, k) /\ f[h] < m
      <3>1. k \in Nat /\ k # 0 /\ f[k] = Fewest(value, f, k) /\ \A h \in 0..(k - 1) : f[h] \in Nat
        BY <1>2, <2>1
      <3> QED BY <3>1, FewestOfEarlier
    <2>3. ASSUME NEW m \in 0..MaxEntries, f[k] <= m PROVE CutInto(value, k, m)
      <3>1. PICK h \in 0..(k - 1) : Reaches(value, h, k) /\ f[h] < m
        BY <2>2, <2>3
      <3>2. m # 0 /\ m - 1 \in 0..MaxEntries /\ m \in Nat /\ k \in Nat
        BY <1>2, <2>1, <3>1
      <3>3. CASE h = 0
        BY <3>1, <3>2, <3>3, OneEntry
      <3>4. CASE h # 0
        <4>1. f[h] <= m - 1 /\ h \in 1..(k - 1) /\ m - 1 \in Nat /\ (m - 1) + 1 = m
          BY <2>1, <3>1, <3>2, <3>4
        <4>2. CutInto(value, h, m - 1)
          BY <2>1, <3>1, <3>2, <3>4, <4>1
        <4>3. CutInto(value, k, (m - 1) + 1)
          BY <3>1, <3>2, <4>1, <4>2, OneEntryMore
        <4> QED BY <4>1, <4>3
      <3> QED BY <3>3, <3>4
    <2>4. ASSUME NEW m \in 0..MaxEntries, CutInto(value, k, m) PROVE f[k] <= m
      <3>1. /\ m # 0
            /\ \/ Reaches(value, 0, k)
               \/ \E h \in 1..(k - 1) : Reaches(value, h, k) /\ CutInto(value, h, m - 1)
        BY <1>2, <2>4, LastEntry
      <3>2. m - 1 \in 0..MaxEntries /\ m \in Nat
        BY <1>2, <3>1
      <3>3. \E h \in 0..(k - 1) : Reaches(value, h, k) /\ f[h] < m
        <4>1. CASE Reaches(value, 0, k)
          BY <1>3, <3>1, <3>2, <4>1
        <4>2. ASSUME NEW h \in 1..(k - 1), Reaches(value, h, k), CutInto(value, h, m - 1)
              PROVE  Reaches(value, h, k) /\ f[h] < m
          <5>1. f[h] <= m - 1 /\ f[h] \in Nat
            BY <2>1, <3>2, <4>2
          <5> QED BY <3>2, <4>2, <5>1
        <4> QED BY <3>1, <4>1, <4>2
      <3> QED BY <2>2, <3>3
    <2>5. Good(k)
      BY <2>2, <2>3, <2>4
    <2> HIDE DEF Good
    <2>6. \A j \in 0..k : j \in 0..(k - 1) \/ j = k
      BY <1>2
    <2> QED BY <1>5, <2>5, <2>6
  <1> HIDE DEF Good
  <1>6. T = 0..n
    <2> HIDE DEF T
    <2>1. T \in SUBSET (0..n)
      BY DEF T
    <2> QED BY <1>2, <1>4, <1>5, <2>1, UpTo
  <1>7. Good(n)
    <2>1. n \in T
      BY <1>2, <1>6
    <2> QED BY <1>2, <2>1
  <1> QED BY <1>1, <1>2, <1>7 DEF Good

------------------------------------------------------------------------------
(* The value of a list of exclusions.                                      *)

IsFlatten(f, seqs, n) == f = [i \in 1..n |-> IF i = 1 THEN seqs[i] ELSE f[i - 1] \o seqs[i]]

LEMMA FlattenExists ==
  ASSUME NEW seqs, Len(seqs) \in Nat \ {0}
  PROVE  \E f : /\ FlattenSeq(seqs) = f[Len(seqs)] /\ f[1] = seqs[1]
               /\ \A i \in 1..(Len(seqs) - 1) : f[i + 1] = f[i] \o seqs[i + 1]
  <1> DEFINE n == Len(seqs)
             T == {k \in 0..n : \E f : IsFlatten(f, seqs, k)}
  <1>1. 0 \in T
    <2> DEFINE g == [i \in 1..0 |-> 0]
    <2>1. IsFlatten(g, seqs, 0)
      BY DEF IsFlatten
    <2> QED BY <2>1
  <1>2. ASSUME NEW k \in 1..n, k - 1 \in T PROVE k \in T
    <2>1. PICK f : IsFlatten(f, seqs, k - 1)
      BY <1>2
    <2> DEFINE g == [i \in 1..k |-> IF i = k THEN (IF k = 1 THEN seqs[k] ELSE f[k - 1] \o seqs[k]) ELSE f[i]]
    <2>2. ASSUME NEW i \in 1..k
          PROVE  g[i] = IF i = 1 THEN seqs[i] ELSE g[i - 1] \o seqs[i]
      <3>1. CASE i = k
        <4>1. g[i] = IF k = 1 THEN seqs[k] ELSE f[k - 1] \o seqs[k]
          BY <3>1
        <4>2. k # 1 => g[k - 1] = f[k - 1]
          OBVIOUS
        <4> HIDE DEF g
        <4> QED BY <3>1, <4>1, <4>2
      <3>2. CASE i # k
        <4>1. i \in 1..(k - 1) /\ g[i] = f[i] /\ (i # 1 => g[i - 1] = f[i - 1])
          BY <3>2
        <4>2. f[i] = IF i = 1 THEN seqs[i] ELSE f[i - 1] \o seqs[i]
          BY <2>1, <4>1 DEF IsFlatten
        <4> HIDE DEF g
        <4> QED BY <4>1, <4>2
      <3> QED BY <3>1, <3>2
    <2>3. IsFlatten(g, seqs, k)
      <3>1. g = [i \in 1..k |-> g[i]]
        OBVIOUS
      <3> HIDE DEF g
      <3> QED BY <2>2, <3>1 DEF IsFlatten
    <2> QED BY <2>3
  <1>3. T = 0..n
    <2> HIDE DEF T
    <2>1. T \in SUBSET (0..n)
      BY DEF T
    <2> QED BY <1>1, <1>2, <2>1, UpTo
  <1>4. PICK h : IsFlatten(h, seqs, n)
    <2>1. n \in T
      BY <1>3
    <2> QED BY <2>1
  <1> DEFINE c == CHOOSE f : f = [i \in 1..Len(seqs) |-> IF i = 1 THEN seqs[i] ELSE f[i - 1] \o seqs[i]]
  <1>5. IsFlatten(c, seqs, n)
    BY <1>4 DEF IsFlatten
  <1>6. FlattenSeq(seqs) = c[n]
    BY DEF FlattenSeq
  <1> HIDE DEF c
  <1>7. \A i \in 1..n : c[i] = IF i = 1 THEN seqs[i] ELSE c[i - 1] \o seqs[i]
    BY <1>5 DEF IsFlatten
  <1>8. c[1] = seqs[1]
    BY <1>7
  <1>9. ASSUME NEW i \in 1..(n - 1) PROVE c[i + 1] = c[i] \o seqs[i + 1]
    <2>1. i + 1 \in 1..n /\ i + 1 # 1 /\ (i + 1) - 1 = i
      OBVIOUS
    <2> QED BY <1>7, <2>1
  <1> QED BY <1>6, <1>8, <1>9

\* The value of any list a configuration may name is some pieces.
LEMMA FlattenType ==
  ASSUME NEW P, NEW seqs \in Seq(Seq(P) \ {<<>>}), seqs # <<>>
  PROVE  FlattenSeq(seqs) \in Seq(P) \ {<<>>}
  <1> DEFINE n == Len(seqs)
             S == Seq(P) \ {<<>>}
  <1>1. n \in Nat \ {0} /\ \A i \in 1..n : seqs[i] \in S
    OBVIOUS
  <1>2. PICK f : FlattenSeq(seqs) = f[n] /\ f[1] = seqs[1] /\ \A i \in 1..(n - 1) : f[i + 1] = f[i] \o seqs[i + 1]
    BY <1>1, FlattenExists
  <1> DEFINE T == {k \in 0..(n - 1) : f[k + 1] \in S}
  <1>4. 0 \in T
    BY <1>1, <1>2
  <1>5. ASSUME NEW k \in 1..(n - 1), k - 1 \in T PROVE k \in T
    <2>1. f[k] \in S
      BY <1>5
    <2>2. f[k + 1] = f[k] \o seqs[k + 1] /\ seqs[k + 1] \in S
      <3>1. k + 1 \in 1..n
        BY <1>1
      <3> HIDE DEF S
      <3> QED BY <1>1, <1>2, <3>1
    <2>3. f[k + 1] \in S
      <3>1. PICK a \in Seq(P), b \in Seq(P) : a = f[k] /\ b = seqs[k + 1] /\ a # <<>>
        BY <2>1, <2>2
      <3>2. a \o b \in Seq(P) /\ Len(a \o b) = Len(a) + Len(b) /\ Len(a) # 0
        BY <3>1
      <3>3. Len(a \o b) # 0
        BY <3>2
      <3> QED BY <2>2, <3>1, <3>2, <3>3
    <2> QED BY <2>3
  <1>6. T = 0..(n - 1)
    <2> HIDE DEF T
    <2>1. T \in SUBSET (0..(n - 1)) /\ n - 1 \in Nat
      BY <1>1 DEF T
    <2> QED BY <1>4, <1>5, <2>1, UpTo
  <1>7. f[n] \in S
    <2>1. n - 1 \in 0..(n - 1) /\ (n - 1) + 1 = n
      BY <1>1
    <2>2. f[(n - 1) + 1] \in S
      BY <1>6, <2>1
    <2> QED BY <2>1, <2>2
  <1> QED BY <1>2, <1>7

\* Entries of one piece each, all alike.
LEMMA FlattenAlike ==
  ASSUME NEW x, NEW n \in Nat \ {0}, NEW seqs, Len(seqs) = n, \A i \in 1..n : seqs[i] = <<x>>
  PROVE  FlattenSeq(seqs) = [i \in 1..n |-> x]
  <1>1. PICK f : FlattenSeq(seqs) = f[n] /\ f[1] = seqs[1] /\ \A i \in 1..(n - 1) : f[i + 1] = f[i] \o seqs[i + 1]
    BY FlattenExists
  <1> DEFINE T == {k \in 0..(n - 1) : f[k + 1] = [i \in 1..(k + 1) |-> x]}
  <1>3. 0 \in T
    <2>1. <<x>> = [i \in 1..1 |-> x]
      OBVIOUS
    <2> QED BY <1>1, <2>1
  <1>4. ASSUME NEW k \in 1..(n - 1), k - 1 \in T PROVE k \in T
    <2>1. f[k] = [i \in 1..k |-> x]
      BY <1>4
    <2>2. f[k + 1] = f[k] \o <<x>>
      <3>1. seqs[k + 1] = <<x>>
        OBVIOUS
      <3> QED BY <1>1, <3>1
    <2> DEFINE a == [i \in 1..k |-> x]
               c == [i \in 1..(k + 1) |-> x]
    <2>3. a \in Seq({x}) /\ Len(a) = k /\ <<x>> \in Seq({x}) /\ c \in Seq({x}) /\ Len(c) = k + 1
      OBVIOUS
    <2>4. a \o <<x>> = c
      <3> HIDE DEF a, c
      <3>1. a \o <<x>> \in Seq({x}) /\ Len(a \o <<x>>) = k + 1
        BY <2>3
      <3>2. \A i \in 1..(k + 1) : (a \o <<x>>)[i] = x /\ c[i] = x
        BY <2>3, <3>1
      <3> QED BY <2>3, <3>1, <3>2
    <2>5. f[k + 1] = c
      BY <2>1, <2>2, <2>4
    <2> QED BY <2>5
  <1>5. T = 0..(n - 1)
    <2> HIDE DEF T
    <2>1. T \in SUBSET (0..(n - 1)) /\ n - 1 \in Nat
      BY DEF T
    <2> QED BY <1>3, <1>4, <2>1, UpTo
  <1>6. f[n] = [i \in 1..n |-> x]
    <2>1. n - 1 \in 0..(n - 1) /\ (n - 1) + 1 = n
      OBVIOUS
    <2>2. f[(n - 1) + 1] = [i \in 1..((n - 1) + 1) |-> x]
      BY <1>5, <2>1
    <2> QED BY <2>1, <2>2
  <1> QED BY <1>1, <1>6
==============================================================================
