-------------------------- MODULE Project_proofs ---------------------------
(***************************************************************************)
(* What the page keeps of a project: the table of variables keeps its      *)
(* order and the links their variables (VariableTable), the panel's editor *)
(* shows what it works on (HmiEditor), the drawing is what was drawn and   *)
(* the values follow their variables (ProjectValues).  MCProject's         *)
(* behaviours are behaviours of all three.                                 *)
(***************************************************************************)
EXTENDS MCProject, FiniteSetTheorems, SequenceTheorems, WellFoundedInduction, TLAPS

-----------------------------------------------------------------------------
(* Sequences.                                                              *)

\* The least of a set of numbers.
LEMMA Least ==
  ASSUME NEW T, T \subseteq Nat, T # {}
  PROVE  \E m \in T : \A k \in T : m <= k
<1>1. PICK R : R = OpToRel(<, Nat)
  OBVIOUS
<1>2. IsWellFoundedOn(R, Nat)
  BY <1>1, NatLessThanWellFounded
<1>3. PICK m \in T : \A k \in T : ~(<<k, m>> \in R)
  BY <1>2, WFMin
<1>4. \A k \in Nat : k < m => <<k, m>> \in R
  BY <1>1, <1>3 DEF OpToRel
<1>5. ASSUME NEW k \in T PROVE m <= k
  <2>1. k \in Nat /\ m \in Nat /\ ~(k < m)
    BY <1>3, <1>4
  <2> QED
    BY <2>1
<1> QED
  BY <1>5

\* new is s with e at place m.
Puts(S, s, e, m, new) ==
  /\ new \in Seq(S) /\ Len(new) = Len(s) + 1 /\ m \in 1 .. Len(s) + 1
  /\ \A k \in 1 .. Len(s) + 1 :
       new[k] = IF k < m THEN s[k] ELSE IF k = m THEN e ELSE s[k - 1]

\* A part of a sequence.
LEMMA Part ==
  ASSUME NEW S, NEW s \in Seq(S), NEW a \in Nat, NEW b \in Nat, a >= 1, b <= Len(s), a <= b + 1
  PROVE  /\ SubSeq(s, a, b) \in Seq(S) /\ Len(SubSeq(s, a, b)) = b - a + 1
         /\ \A k \in 1 .. b - a + 1 : SubSeq(s, a, b)[k] = s[a + k - 1]
<1>1. Len(s) \in Nat /\ \A k \in 1 .. Len(s) : s[k] \in S
  BY LenProperties, ElementOfSeq
<1>2. \A k \in a .. b : s[k] \in S
  BY <1>1
<1>3. /\ SubSeq(s, a, b) \in Seq(S)
      /\ Len(SubSeq(s, a, b)) = IF a <= b THEN b - a + 1 ELSE 0
      /\ \A k \in 1 .. b - a + 1 : SubSeq(s, a, b)[k] = s[a + k - 1]
  BY <1>1, <1>2, SubSeqProperties
<1> QED
  BY <1>1, <1>3

\* An element is put before the one at a place, or behind all.
LEMMA PuttingIn ==
  ASSUME NEW S, NEW s \in Seq(S), NEW e \in S, NEW m \in 1 .. Len(s) + 1, NEW new,
         new = InsertAt(s, m, e)
  PROVE  Puts(S, s, e, m, new)
<1>1. PICK a, b, c : a = SubSeq(s, 1, m - 1) /\ b = <<e>> /\ c = SubSeq(s, m, Len(s))
  OBVIOUS
<1>2. new = a \o b \o c
  BY <1>1 DEF InsertAt
<1>3. Len(s) \in Nat /\ m \in Nat /\ m <= Len(s) + 1 /\ m >= 1 /\ m - 1 \in Nat
  BY LenProperties
<1>4. /\ a \in Seq(S) /\ Len(a) = m - 1 - 1 + 1
      /\ \A k \in 1 .. m - 1 - 1 + 1 : a[k] = s[1 + k - 1]
  <2>1. 1 <= m - 1 + 1 /\ m - 1 <= Len(s) /\ 1 >= 1 /\ 1 \in Nat
    BY <1>3
  <2> QED
    BY <1>1, <1>3, <2>1, Part
<1>5. /\ c \in Seq(S) /\ Len(c) = Len(s) - m + 1
      /\ \A k \in 1 .. Len(s) - m + 1 : c[k] = s[m + k - 1]
  BY <1>1, <1>3, Part, SMTT(30)
<1>6. b \in Seq(S) /\ Len(b) = 1 /\ b[1] = e
  BY <1>1
<1>7. PICK d : d = a \o b
  OBVIOUS
<1>8. /\ d \in Seq(S) /\ Len(d) = m
      /\ \A k \in 1 .. m : d[k] = IF k <= m - 1 THEN s[k] ELSE e
  <2>1. /\ d \in Seq(S) /\ Len(d) = Len(a) + Len(b)
        /\ \A k \in 1 .. Len(a) + Len(b) : d[k] = IF k <= Len(a) THEN a[k] ELSE b[k - Len(a)]
    BY <1>4, <1>6, <1>7, ConcatProperties
  <2>2. Len(a) = m - 1 /\ Len(b) = 1 /\ m - 1 + 1 = m
    BY <1>3, <1>4, <1>6
  <2>3. ASSUME NEW k \in 1 .. m PROVE d[k] = IF k <= m - 1 THEN s[k] ELSE e
    <3>1. d[k] = IF k <= m - 1 THEN a[k] ELSE b[k - (m - 1)]
      BY <2>1, <2>2
    <3>2. CASE k <= m - 1
      <4>1. k \in 1 .. m - 1 - 1 + 1 /\ 1 + k - 1 = k
        BY <1>3, <3>2
      <4> QED
        BY <1>4, <3>1, <3>2, <4>1
    <3>3. CASE k = m
      <4>1. k - (m - 1) = 1 /\ ~(k <= m - 1)
        BY <1>3, <3>3
      <4> QED
        BY <1>6, <3>1, <4>1
    <3> QED
      BY <1>3, <3>2, <3>3
  <2> QED
    BY <2>1, <2>2, <2>3
<1>9. /\ new \in Seq(S) /\ Len(new) = Len(d) + Len(c)
      /\ \A k \in 1 .. Len(d) + Len(c) : new[k] = IF k <= Len(d) THEN d[k] ELSE c[k - Len(d)]
  <2>1. d \in Seq(S) /\ c \in Seq(S) /\ new = d \o c
    BY <1>2, <1>5, <1>7, <1>8
  <2> QED
    BY <2>1, ConcatProperties
<1>10. Len(d) + Len(c) = Len(s) + 1
  BY <1>3, <1>5, <1>8
<1>11. ASSUME NEW k \in 1 .. Len(s) + 1
       PROVE  new[k] = IF k < m THEN s[k] ELSE IF k = m THEN e ELSE s[k - 1]
  <2>1. new[k] = IF k <= m THEN d[k] ELSE c[k - m]
    BY <1>8, <1>9, <1>10
  <2>2. CASE k <= m
    <3>1. k \in 1 .. m
      BY <1>3, <2>2
    <3>2. d[k] = IF k <= m - 1 THEN s[k] ELSE e
      BY <1>8, <3>1
    <3> QED
      BY <1>3, <2>1, <2>2, <3>1, <3>2
  <2>3. CASE k > m
    <3>1. k - m \in 1 .. Len(s) - m + 1 /\ m + (k - m) - 1 = k - 1 /\ ~(k <= m)
      BY <1>3, <2>3
    <3> QED
      BY <1>3, <1>5, <2>1, <2>3, <3>1
  <2> QED
    BY <1>3, <2>2, <2>3
<1> QED
  BY <1>3, <1>9, <1>10, <1>11 DEF Puts

\* An element is put behind all.
LEMMA PuttingBehind ==
  ASSUME NEW S, NEW s \in Seq(S), NEW e \in S, NEW new, new = Append(s, e)
  PROVE  Puts(S, s, e, Len(s) + 1, new)
<1>1. /\ new \in Seq(S) /\ Len(new) = Len(s) + 1 /\ Len(s) \in Nat
      /\ \A i \in 1 .. Len(s) : new[i] = s[i]
      /\ new[Len(s) + 1] = e
  BY AppendProperties, LenProperties
<1> QED
  BY <1>1 DEF Puts

\* new is s without the element at place m.
Lacks(S, s, m, new) ==
  /\ new \in Seq(S) /\ Len(new) = Len(s) - 1
  /\ \A k \in 1 .. Len(s) - 1 : new[k] = IF k < m THEN s[k] ELSE s[k + 1]

LEMMA TakingOut ==
  ASSUME NEW S, NEW s \in Seq(S), NEW m \in 1 .. Len(s), NEW new, new = RemoveAt(s, m)
  PROVE  Lacks(S, s, m, new)
<1>1. PICK a, c : a = SubSeq(s, 1, m - 1) /\ c = SubSeq(s, m + 1, Len(s))
  OBVIOUS
<1>2. new = a \o c
  BY <1>1 DEF RemoveAt
<1>3. Len(s) \in Nat /\ m \in Nat /\ m <= Len(s) /\ m >= 1 /\ m - 1 \in Nat /\ m + 1 \in Nat
  BY LenProperties
<1>4. /\ a \in Seq(S) /\ Len(a) = m - 1 - 1 + 1
      /\ \A k \in 1 .. m - 1 - 1 + 1 : a[k] = s[1 + k - 1]
  <2>1. 1 <= m - 1 + 1 /\ m - 1 <= Len(s) /\ 1 >= 1 /\ 1 \in Nat
    BY <1>3
  <2> QED
    BY <1>1, <1>3, <2>1, Part
<1>5. /\ c \in Seq(S) /\ Len(c) = Len(s) - (m + 1) + 1
      /\ \A k \in 1 .. Len(s) - (m + 1) + 1 : c[k] = s[m + 1 + k - 1]
  <2>1. m + 1 >= 1 /\ m + 1 <= Len(s) + 1 /\ Len(s) <= Len(s)
    BY <1>3
  <2> QED
    BY <1>1, <1>3, <2>1, Part
<1>6. /\ new \in Seq(S) /\ Len(new) = Len(a) + Len(c)
      /\ \A k \in 1 .. Len(a) + Len(c) : new[k] = IF k <= Len(a) THEN a[k] ELSE c[k - Len(a)]
  <2>1. a \in Seq(S) /\ c \in Seq(S) /\ new = a \o c
    BY <1>2, <1>4, <1>5
  <2> QED
    BY <2>1, ConcatProperties
<1>7. Len(a) = m - 1 /\ Len(a) + Len(c) = Len(s) - 1
  BY <1>3, <1>4, <1>5
<1>8. ASSUME NEW k \in 1 .. Len(s) - 1 PROVE new[k] = IF k < m THEN s[k] ELSE s[k + 1]
  <2>1. new[k] = IF k <= m - 1 THEN a[k] ELSE c[k - (m - 1)]
    BY <1>6, <1>7
  <2>2. CASE k < m
    <3>1. k \in 1 .. m - 1 - 1 + 1 /\ 1 + k - 1 = k /\ k <= m - 1
      BY <1>3, <2>2
    <3> QED
      BY <1>4, <2>1, <2>2, <3>1
  <2>3. CASE k >= m
    <3>1. /\ k - (m - 1) \in 1 .. Len(s) - (m + 1) + 1 /\ m + 1 + (k - (m - 1)) - 1 = k + 1
          /\ ~(k <= m - 1) /\ ~(k < m)
      BY <1>3, <2>3
    <3> QED
      BY <1>5, <2>1, <3>1
  <2> QED
    BY <1>3, <2>2, <2>3
<1> QED
  BY <1>6, <1>7, <1>8 DEF Lacks

-----------------------------------------------------------------------------
(* Sorting.                                                                *)

\* What can be compared.
Sortable(s) == \A i \in DOMAIN s : s[i].name \in Int /\ s[i].type \in Int

Ascending(s) == \A i, j \in DOMAIN s : i < j => Before(s[i], s[j])

\* The order of two elements says which comes first.
LEMMA OrderTells ==
  ASSUME NEW s, NEW n \in Nat, DOMAIN s = 1 .. n, Sortable(s), Ascending(s),
         NEW i \in 1 .. n, NEW j \in 1 .. n
  PROVE  Before(s[i], s[j]) <=> i < j
<1>1. /\ s[i].name \in Int /\ s[i].type \in Int /\ s[j].name \in Int /\ s[j].type \in Int
  BY DEF Sortable
<1>2. CASE i < j
  BY <1>2 DEF Ascending
<1>3. CASE i = j
  BY <1>1, <1>3 DEF Before
<1>4. CASE j < i
  <2>1. Before(s[j], s[i])
    BY <1>4 DEF Ascending
  <2> QED
    BY <1>1, <1>4, <2>1 DEF Before
<1> QED
  BY <1>2, <1>3, <1>4

\* Each of n places holds what the place w of the other sequence holds.
SameElements(s, t, n, w) ==
  /\ w \in Bijection(1 .. n, 1 .. n)
  /\ DOMAIN s = 1 .. n /\ DOMAIN t = 1 .. n
  /\ \A k \in 1 .. n : s[k] = t[w[k]]

\* There is one way to sort.
LEMMA SortsTo ==
  ASSUME NEW S, NEW s, NEW t \in Seq(S), NEW n \in Nat, NEW w, SameElements(s, t, n, w),
         Sortable(t), Ascending(t)
  PROVE  Sorted(s) = t
<1>1. /\ w \in [1 .. n -> 1 .. n] /\ \A i \in 1 .. n : \E k \in 1 .. n : w[k] = i
      /\ \A j, k \in 1 .. n : w[j] = w[k] => j = k
  BY DEF SameElements, Bijection, Injection, Surjection, IsInjective
<1>2. ASSUME NEW i \in 1 .. n
      PROVE  Cardinality({k \in DOMAIN s : Before(s[k], t[i])}) = i - 1
  <2>1. PICK T : T = {k \in DOMAIN s : Before(s[k], t[i])}
    OBVIOUS
  <2>2. \A k : k \in T <=> k \in 1 .. n /\ w[k] < i
    <3>1. ASSUME NEW k \in 1 .. n PROVE Before(s[k], t[i]) <=> w[k] < i
      <4>1. w[k] \in 1 .. n /\ s[k] = t[w[k]] /\ DOMAIN t = 1 .. n
        BY <1>1 DEF SameElements
      <4> QED
        BY <4>1, OrderTells
    <3> QED
      BY <2>1, <3>1 DEF SameElements
  <2>3. PICK v : v = [k \in T |-> w[k]]
    OBVIOUS
  <2>4. v \in Bijection(T, 1 .. i - 1)
    <3>1. v \in [T -> 1 .. i - 1]
      BY <1>1, <2>2, <2>3, SMTT(30)
    <3>2. \A j, k \in T : v[j] = v[k] => j = k
      BY <1>1, <2>2, <2>3
    <3>3. \A j \in 1 .. i - 1 : \E k \in T : v[k] = j
      <4> SUFFICES ASSUME NEW j \in 1 .. i - 1 PROVE \E k \in T : v[k] = j
        OBVIOUS
      <4>1. j \in 1 .. n /\ j < i
        OBVIOUS
      <4>2. PICK k \in 1 .. n : w[k] = j
        BY <1>1, <4>1
      <4> QED
        BY <2>2, <2>3, <4>1, <4>2
    <3> QED
      BY <3>1, <3>2, <3>3 DEF Bijection, Injection, Surjection, IsInjective
  <2>5. IsFiniteSet(1 .. i - 1) /\ Cardinality(1 .. i - 1) = i - 1
    BY FS_Interval
  <2>6. IsFiniteSet(T)
    <3>1. v \in Injection(T, 1 .. i - 1)
      BY <2>4 DEF Bijection
    <3> QED
      BY <2>5, <3>1, FS_Injection
  <2>7. Cardinality(1 .. i - 1) = Cardinality(T)
    BY <2>4, <2>6, FS_Bijection DEF ExistsBijection
  <2> QED
    BY <2>1, <2>5, <2>7
<1>3. ASSUME NEW i \in 1 .. n
      PROVE  (CHOOSE v \in Range(s) : Cardinality({k \in DOMAIN s : Before(s[k], v)}) = i - 1) = t[i]
  <2>1. t[i] \in Range(s)
    BY <1>1, SMTT(30) DEF SameElements, Range
  <2>2. ASSUME NEW v \in Range(s), Cardinality({k \in DOMAIN s : Before(s[k], v)}) = i - 1
        PROVE  v = t[i]
    <3>1. PICK j \in 1 .. n : v = t[j]
      BY <1>1 DEF SameElements, Range
    <3>2. j - 1 = i - 1
      BY <1>2, <2>2, <3>1
    <3> QED
      BY <3>1, <3>2
  <2> QED
    BY <1>2, <2>1, <2>2
<1>4. Sorted(s) = [i \in 1 .. n |-> t[i]]
  BY <1>3 DEF Sorted, SameElements
<1>5. t = [i \in 1 .. n |-> t[i]]
  BY LenProperties DEF SameElements
<1> QED
  BY <1>4, <1>5

\* Where an ascending table of variables has v, and whether Splice found it.
LEMMA Splicing ==
  ASSUME NEW S, NEW s \in Seq(S), NEW v \in S, Len(s) > 0, Sortable(s), Ascending(s),
         v.name \in Int, v.type \in Int, ~Exists(s, v.name), Before(s[1], v), NEW at,
         at = Splice(s, v)
  PROVE  \/ at = 0 /\ \A i \in 1 .. Len(s) : Before(s[i], v)
         \/ /\ at \in 1 .. Len(s) - 1 /\ Before(v, s[at + 1])
            /\ \A i \in 1 .. at : Before(s[i], v)
            /\ \A i \in at + 1 .. Len(s) : Before(v, s[i])
<1>1. PICK later : later = {i \in 1 .. Len(s) - 1 : Before(v, s[i + 1])}
  OBVIOUS
<1>2. Len(s) \in Nat /\ DOMAIN s = 1 .. Len(s)
  BY LenProperties
<1>3. ASSUME NEW i \in 1 .. Len(s), ~Before(v, s[i]) PROVE Before(s[i], v)
  <2>1. s[i].name \in Int /\ s[i].type \in Int /\ s[i].name # v.name
    BY <1>2 DEF Sortable, Exists
  <2> QED
    BY <1>3, <2>1 DEF Before
<1>4. CASE later = {}
  <2>1. at = 0
    BY <1>1, <1>4 DEF Splice
  <2>2. ASSUME NEW i \in 1 .. Len(s) PROVE Before(s[i], v)
    <3>1. CASE i = 1
      BY <3>1
    <3>2. CASE i > 1
      <4>1. i - 1 \in 1 .. Len(s) - 1 /\ i - 1 + 1 = i
        BY <1>2, <3>2
      <4>2. ~Before(v, s[i])
        BY <1>1, <1>4, <4>1
      <4> QED
        BY <1>3, <4>2
    <3> QED
      BY <1>2, <3>1, <3>2
  <2> QED
    BY <2>1, <2>2
<1>5. CASE later # {}
  <2>1. later \subseteq Nat
    BY <1>1
  <2>2. PICK m \in later : \A k \in later : m <= k
    BY <1>5, <2>1, Least
  <2>3. at = CHOOSE i \in later : \A j \in later : i <= j
    BY <1>1, <1>5 DEF Splice
  <2>4. at \in later /\ \A k \in later : at <= k
    BY <2>2, <2>3
  <2>5. at \in 1 .. Len(s) - 1 /\ Before(v, s[at + 1])
    BY <1>1, <2>4
  <2>6. ASSUME NEW i \in 1 .. at PROVE Before(s[i], v)
    <3>1. i \in 1 .. Len(s)
      BY <1>2, <2>5
    <3>2. CASE i = 1
      BY <3>2
    <3>3. CASE i > 1
      <4>1. i - 1 \in 1 .. Len(s) - 1 /\ i - 1 + 1 = i /\ ~(at <= i - 1)
        BY <1>2, <2>5, <3>3
      <4>2. ~Before(v, s[i])
        BY <1>1, <2>4, <4>1
      <4> QED
        BY <1>3, <3>1, <4>2
    <3> QED
      BY <2>5, <3>2, <3>3
  <2>7. ASSUME NEW i \in at + 1 .. Len(s) PROVE Before(v, s[i])
    <3>1. i \in 1 .. Len(s) /\ at + 1 \in 1 .. Len(s)
      BY <1>2, <2>5
    <3>2. CASE i = at + 1
      BY <2>5, <3>2
    <3>3. CASE i > at + 1
      <4>1. Before(s[at + 1], s[i])
        BY <1>2, <2>5, <3>1, <3>3 DEF Ascending
      <4>2. /\ s[i].name \in Int /\ s[i].type \in Int
            /\ s[at + 1].name \in Int /\ s[at + 1].type \in Int
        BY <1>2, <3>1 DEF Sortable
      <4> QED
        BY <2>5, <4>1, <4>2, SMTT(30) DEF Before
    <3> QED
      BY <2>5, <3>1, <3>2, <3>3
  <2> QED
    BY <2>5, <2>6, <2>7
<1> QED
  BY <1>4, <1>5

\* Wherever a new element is put, sorting puts it behind what it does not
\* come before.
LEMMA SortingIn ==
  ASSUME NEW S, NEW s \in Seq(S), NEW v \in S, NEW m, NEW x, Puts(S, s, v, m, x),
         Sortable(s), Ascending(s), v.name \in Int, v.type \in Int, NEW p \in 1 .. Len(s) + 1,
         \A i \in 1 .. p - 1 : Before(s[i], v), \A i \in p .. Len(s) : Before(v, s[i])
  PROVE  Puts(S, s, v, p, Sorted(x)) /\ Ascending(Sorted(x)) /\ Sortable(Sorted(x))
<1>1. PICK n \in Nat : n = Len(s)
  BY LenProperties
<1>2. DOMAIN s = 1 .. n /\ \A k \in 1 .. n : s[k] \in S
  BY <1>1, LenProperties
<1> DEFINE From(k) == IF k < p THEN s[k] ELSE IF k = p THEN v ELSE s[k - 1]
<1>3. PICK t : t = [k \in 1 .. n + 1 |-> From(k)]
  OBVIOUS
<1>4. \A k \in 1 .. n + 1 : t[k] = IF k < p THEN s[k] ELSE IF k = p THEN v ELSE s[k - 1]
  BY <1>3
<1>5. t \in Seq(S) /\ Len(t) = n + 1 /\ DOMAIN t = 1 .. n + 1
  <2>1. ASSUME NEW k \in 1 .. n + 1 PROVE From(k) \in S
    <3>1. CASE k < p
      BY <1>1, <1>2, <3>1
    <3>2. CASE k = p
      BY <3>2
    <3>3. CASE k > p
      <4>1. k - 1 \in 1 .. n
        BY <1>1, <3>3
      <4> QED
        BY <1>2, <3>3, <4>1
    <3> QED
      BY <1>1, <3>1, <3>2, <3>3
  <2>2. t \in [1 .. n + 1 -> S]
    BY <1>3, <2>1
  <2> QED
    BY <1>1, <2>2, SeqDef
<1> HIDE DEF From
<1>6. Sortable(t)
  <2>1. ASSUME NEW k \in 1 .. n + 1 PROVE t[k].name \in Int /\ t[k].type \in Int
    <3>1. CASE k < p
      BY <1>1, <1>2, <1>4, <3>1 DEF Sortable
    <3>2. CASE k = p
      BY <1>4, <3>2
    <3>3. CASE k > p
      <4>1. k - 1 \in 1 .. n /\ t[k] = s[k - 1]
        BY <1>1, <1>4, <3>3
      <4> QED
        BY <1>2, <4>1 DEF Sortable
    <3> QED
      BY <1>1, <3>1, <3>2, <3>3
  <2> QED
    BY <1>5, <2>1 DEF Sortable
<1>7. Ascending(t)
  <2> SUFFICES ASSUME NEW i \in 1 .. n + 1, NEW j \in 1 .. n + 1, i < j PROVE Before(t[i], t[j])
    BY <1>5 DEF Ascending
  <2>1. p \in Nat
    BY <1>1
  <2>2. CASE j < p
    BY <1>1, <1>2, <1>4, <2>2, SMTT(30) DEF Ascending
  <2>3. CASE j = p
    <3>1. i \in 1 .. p - 1 /\ t[i] = s[i] /\ t[j] = v
      BY <1>4, <2>1, <2>3
    <3> QED
      BY <3>1
  <2>4. CASE i < p /\ p < j
    <3>1. /\ t[i] = s[i] /\ t[j] = s[j - 1] /\ i \in 1 .. n /\ j - 1 \in 1 .. n /\ i < j - 1
      BY <1>1, <1>4, <2>4
    <3> QED
      BY <1>2, <3>1 DEF Ascending
  <2>5. CASE i = p
    <3>1. t[i] = v /\ t[j] = s[j - 1] /\ j - 1 \in p .. Len(s)
      BY <1>1, <1>4, <2>1, <2>5
    <3> QED
      BY <3>1
  <2>6. CASE i > p
    <3>1. /\ t[i] = s[i - 1] /\ t[j] = s[j - 1] /\ i - 1 \in 1 .. n /\ j - 1 \in 1 .. n
          /\ i - 1 < j - 1
      BY <1>4, <2>1, <2>6
    <3> QED
      BY <1>2, <3>1 DEF Ascending
  <2> QED
    BY <2>1, <2>2, <2>3, <2>4, <2>5, <2>6
<1>8. /\ m \in 1 .. n + 1 /\ x \in Seq(S) /\ Len(x) = n + 1 /\ DOMAIN x = 1 .. n + 1
      /\ \A k \in 1 .. n + 1 : x[k] = IF k < m THEN s[k] ELSE IF k = m THEN v ELSE s[k - 1]
  BY <1>1, LenProperties DEF Puts
<1>9. PICK w : w = [k \in 1 .. n + 1 |->
                      IF k = m THEN p
                      ELSE IF k < m THEN IF k < p THEN k ELSE k + 1
                      ELSE IF k - 1 < p THEN k - 1 ELSE k]
  OBVIOUS
<1>10. m \in Nat /\ p \in Nat /\ p \in 1 .. n + 1
  BY <1>1, <1>8
<1>11. SameElements(x, t, n + 1, w)
  <2>1. w \in [1 .. n + 1 -> 1 .. n + 1]
    <3>1. ASSUME NEW k \in 1 .. n + 1
          PROVE  (IF k = m THEN p ELSE IF k < m THEN IF k < p THEN k ELSE k + 1
                  ELSE IF k - 1 < p THEN k - 1 ELSE k) \in 1 .. n + 1
      BY <1>8, <1>10
    <3> QED
      BY <1>9, <3>1
  <2>2. ASSUME NEW j \in 1 .. n + 1, NEW k \in 1 .. n + 1, w[j] = w[k] PROVE j = k
    <3>1. /\ w[j] = IF j = m THEN p ELSE IF j < m THEN IF j < p THEN j ELSE j + 1
                    ELSE IF j - 1 < p THEN j - 1 ELSE j
          /\ w[k] = IF k = m THEN p ELSE IF k < m THEN IF k < p THEN k ELSE k + 1
                    ELSE IF k - 1 < p THEN k - 1 ELSE k
      BY <1>9
    <3>2. PICK a \in 1 .. n + 1 : a = w[j]
      BY <2>1
    <3>3. /\ a = IF j = m THEN p ELSE IF j < m THEN IF j < p THEN j ELSE j + 1
                 ELSE IF j - 1 < p THEN j - 1 ELSE j
          /\ a = IF k = m THEN p ELSE IF k < m THEN IF k < p THEN k ELSE k + 1
                 ELSE IF k - 1 < p THEN k - 1 ELSE k
      BY <2>2, <3>1, <3>2
    <3> HIDE <3>1, <3>2
    <3>4. CASE j = m
      BY <1>10, <3>3, <3>4
    <3>5. CASE j < m
      BY <1>10, <3>3, <3>5
    <3>6. CASE j > m
      BY <1>10, <3>3, <3>6
    <3> QED
      BY <1>10, <3>4, <3>5, <3>6
  <2>3. ASSUME NEW j \in 1 .. n + 1 PROVE \E k \in 1 .. n + 1 : w[k] = j
    <3>1. CASE j = p
      BY <1>8, <1>9, <3>1
    <3>2. CASE j < p /\ j < m
      <4>1. j # m /\ w[j] = j
        BY <1>9, <1>10, <3>2
      <4> QED
        BY <4>1
    <3>3. CASE j < p /\ j >= m
      <4>1. j + 1 \in 1 .. n + 1 /\ j + 1 - 1 = j /\ j + 1 # m /\ ~(j + 1 < m)
        BY <1>10, <3>3
      <4>2. w[j + 1] = j
        BY <1>9, <3>3, <4>1
      <4> QED
        BY <4>1, <4>2
    <3>4. CASE j > p /\ j <= m
      <4>1. /\ j - 1 \in 1 .. n + 1 /\ j - 1 + 1 = j /\ j - 1 # m /\ j - 1 < m
            /\ ~(j - 1 < p)
        BY <1>10, <3>4
      <4>2. w[j - 1] = j
        BY <1>9, <3>4, <4>1
      <4> QED
        BY <4>1, <4>2
    <3>5. CASE j > p /\ j > m
      <4>1. j # m /\ ~(j < m) /\ ~(j - 1 < p)
        BY <1>10, <3>5
      <4>2. w[j] = j
        BY <1>9, <4>1
      <4> QED
        BY <4>2
    <3> QED
      BY <1>10, <3>1, <3>2, <3>3, <3>4, <3>5
  <2>4. ASSUME NEW k \in 1 .. n + 1 PROVE x[k] = t[w[k]]
    <3>1. w[k] \in 1 .. n + 1
      BY <2>1
    <3>2. CASE k = m
      <4>1. w[k] = p /\ x[k] = v
        BY <1>8, <1>9, <3>2
      <4> QED
        BY <1>4, <1>10, <4>1
    <3>3. CASE k < m /\ k < p
      <4>1. w[k] = k /\ x[k] = s[k]
        BY <1>8, <1>9, <1>10, <3>3
      <4> QED
        BY <1>4, <3>3, <4>1
    <3>4. CASE k < m /\ k >= p
      <4>1. w[k] = k + 1 /\ x[k] = s[k] /\ k + 1 > p /\ k + 1 - 1 = k
        BY <1>8, <1>9, <1>10, <3>4
      <4>2. t[w[k]] = s[k + 1 - 1]
        BY <1>4, <1>10, <3>1, <4>1, SMTT(30)
      <4> QED
        BY <4>1, <4>2
    <3>5. CASE k > m /\ k - 1 < p
      <4>1. w[k] = k - 1 /\ x[k] = s[k - 1]
        BY <1>8, <1>9, <1>10, <3>5, SMTT(30)
      <4> QED
        BY <1>4, <3>1, <3>5, <4>1
    <3>6. CASE k > m /\ k - 1 >= p
      <4>1. w[k] = k /\ x[k] = s[k - 1] /\ k > p
        BY <1>8, <1>9, <1>10, <3>6
      <4> QED
        BY <1>4, <1>10, <3>1, <4>1
    <3> QED
      BY <1>10, <3>2, <3>3, <3>4, <3>5, <3>6
  <2> QED
    BY <1>5, <1>8, <2>1, <2>2, <2>3, <2>4
       DEF SameElements, Bijection, Injection, Surjection, IsInjective
<1>12. Sorted(x) = t
  BY <1>5, <1>6, <1>7, <1>11, SortsTo
<1>13. Puts(S, s, v, p, t)
  BY <1>1, <1>4, <1>5 DEF Puts
<1> QED
  BY <1>6, <1>7, <1>12, <1>13


-----------------------------------------------------------------------------
(* The table (VariableTable).                                              *)

Listable == [name : Nat, type : {DIN, DOUT, BIT, TMR}]

TableTypes ==
  /\ variables \in Seq(Listable)
  /\ op1 \in [DOMAIN op1 -> -1 .. Len(variables) - 1]
  /\ DOMAIN meant = DOMAIN op1 /\ DOMAIN compiled = DOMAIN code
  /\ {appended, outdated, begin} \subseteq BOOLEAN

\* The variables of the board are in front, and no others are.
BoardFirst ==
  /\ Len(IO) <= Len(variables)
  /\ \A i \in 1 .. Len(variables) :
       IF i <= Len(IO) THEN variables[i] = IO[i] ELSE variables[i].type \in {BIT, TMR}

TableInv ==
  TableTypes /\ BoardFirst /\ Ascending(variables) /\ LinksFollowInside /\ CodeFitsTable

\* What the types say of the table.
LEMMA TableHas ==
  ASSUME NEW s \in Seq(Listable)
  PROVE  /\ Len(s) \in Nat /\ DOMAIN s = 1 .. Len(s) /\ Sortable(s)
         /\ \A i \in 1 .. Len(s) : s[i] \in Listable /\ s[i].name \in Nat /\ s[i].type \in Nat /\ s[i] # NoEntry
<1>1. Len(s) \in Nat /\ DOMAIN s = 1 .. Len(s) /\ \A i \in 1 .. Len(s) : s[i] \in Listable
  BY LenProperties, ElementOfSeq
<1>2. \A v \in Listable : v.name \in Nat /\ v.type \in Nat /\ v # NoEntry
  BY DEF Listable, NoEntry, Entry, DIN, DOUT, BIT, TMR
<1> QED
  BY <1>1, <1>2 DEF Sortable

LEMMA BoardHas ==
  /\ Len(IO) \in Nat /\ Len(IO) > 0 /\ DOMAIN IO = 1 .. Len(IO) /\ IO \in Seq(Listable)
  /\ \A i \in 1 .. Len(IO) : IO[i].type \in {DIN, DOUT}
<1>1. IO \in Seq([name : Nat \ Names, type : {DIN, DOUT}]) /\ IO # <<>>
  BY NameAssumption
<1>2. /\ Len(IO) \in Nat /\ Len(IO) > 0 /\ DOMAIN IO = 1 .. Len(IO)
      /\ \A i \in 1 .. Len(IO) : IO[i] \in [name : Nat \ Names, type : {DIN, DOUT}]
  <2>1. PICK S : S = [name : Nat \ Names, type : {DIN, DOUT}]
    OBVIOUS
  <2>2. IO \in Seq(S) /\ IO # <<>>
    BY <1>1, <2>1
  <2>3. Len(IO) \in Nat \ {0} /\ DOMAIN IO = 1 .. Len(IO)
    BY <2>2, LenProperties, EmptySeq
  <2>4. \A i \in 1 .. Len(IO) : IO[i] \in S
    BY <2>2, ElementOfSeq
  <2> QED
    BY <2>1, <2>3, <2>4
<1>3. [name : Nat \ Names, type : {DIN, DOUT}] \subseteq Listable
  BY DEF Listable
<1>4. IO \in Seq(Listable)
  BY <1>1, <1>3, SeqMonotonic
<1> QED
  BY <1>2, <1>4

\* An assembly leaves code that fits, or says that it failed.
LEMMA Assembling ==
  ASSUME Assembly(variables', op1', meant'), TableTypes, TableTypes', LinksFollowInside'
  PROVE  CodeFitsTable'
<1>1. CASE begin = FALSE
  BY <1>1 DEF Assembly, CodeFitsTable
<1>2. CASE begin = TRUE
  <2>1. code' = [n \in DOMAIN op1' |-> Offset(variables', op1'[n])] /\ compiled' = meant'
    BY <1>2 DEF Assembly
  <2>2. ASSUME appended' = FALSE, NEW n \in DOMAIN code', compiled'[n] # NoEntry
        PROVE  \E i \in 1 .. Len(variables') :
                 variables'[i] = compiled'[n] /\ code'[n] = Offset(variables', i - 1)
    <3>1. n \in DOMAIN op1' /\ op1'[n] \in -1 .. Len(variables') - 1 /\ Len(variables') \in Nat
      BY <2>1, LenProperties DEF TableTypes
    <3>2. op1'[n] # -1 /\ variables'[op1'[n] + 1] = compiled'[n]
      BY <2>1, <2>2, <3>1 DEF LinksFollowInside, LinksFollow
    <3>3. PICK i \in 1 .. Len(variables') : i = op1'[n] + 1 /\ op1'[n] = i - 1
      BY <3>1, <3>2
    <3>4. variables'[i] = compiled'[n] /\ code'[n] = Offset(variables', i - 1)
      BY <2>1, <3>1, <3>2, <3>3
    <3> QED
      BY <3>4
  <2> QED
    BY <2>2 DEF CodeFitsTable, TableTypes
<1> QED
  BY <1>1, <1>2 DEF TableTypes

LEMMA TableStarts ==
  ASSUME Init
  PROVE  TableInv
<1>1. Loaded \in Seq(Listable) /\ DOMAIN Loaded = 1 .. Len(Loaded)
      /\ Len(Loaded) \in Nat /\ \A i \in 1 .. Len(Loaded) : Loaded[i].type \in {BIT, TMR}
  <2>1. [name : Nat, type : {BIT, TMR}] \subseteq Listable
    BY DEF Listable
  <2>2. Loaded \in Seq([name : Nat, type : {BIT, TMR}])
    BY NameAssumption
  <2>3. PICK S : S = [name : Nat, type : {BIT, TMR}]
    OBVIOUS
  <2>4. /\ Len(Loaded) \in Nat /\ DOMAIN Loaded = 1 .. Len(Loaded)
        /\ \A i \in 1 .. Len(Loaded) : Loaded[i] \in S
    BY <2>2, <2>3, LenProperties, ElementOfSeq
  <2>5. Loaded \in Seq(Listable)
    BY <2>1, <2>2, SeqMonotonic
  <2> QED
    BY <2>3, <2>4, <2>5
<1>2. /\ variables \in Seq(Listable) /\ Len(variables) = Len(IO) + Len(Loaded)
      /\ \A i \in 1 .. Len(IO) + Len(Loaded) :
           variables[i] = IF i <= Len(IO) THEN IO[i] ELSE Loaded[i - Len(IO)]
  BY <1>1, BoardHas, ConcatProperties DEF Init
<1>3. BoardFirst
  <2>1. Len(IO) <= Len(variables)
    BY <1>1, <1>2, BoardHas
  <2>2. ASSUME NEW i \in 1 .. Len(variables), ~(i <= Len(IO)) PROVE variables[i].type \in {BIT, TMR}
    <3>1. i - Len(IO) \in 1 .. Len(Loaded) /\ variables[i] = Loaded[i - Len(IO)]
      BY <1>1, <1>2, <2>2, BoardHas
    <3> QED
      BY <1>1, <3>1
  <2> QED
    BY <1>2, <2>1, <2>2 DEF BoardFirst
<1>4. ASSUME NEW i \in 1 .. Len(variables), NEW j \in 1 .. Len(variables), i < j
      PROVE  Before(variables[i], variables[j])
  <2>1. \A s \in {IO, Loaded} : \A a, b \in DOMAIN s : a < b => Before(s[a], s[b])
    BY NameAssumption
  <2>2. CASE j <= Len(IO)
    BY <1>2, <1>4, <2>1, <2>2, BoardHas
  <2>3. CASE i > Len(IO)
    <3>1. /\ i - Len(IO) \in DOMAIN Loaded /\ j - Len(IO) \in DOMAIN Loaded
          /\ i - Len(IO) < j - Len(IO)
      BY <1>1, <1>2, <1>4, <2>3, BoardHas
    <3>2. variables[i] = Loaded[i - Len(IO)] /\ variables[j] = Loaded[j - Len(IO)]
      BY <1>1, <1>2, <1>4, <2>3, BoardHas
    <3> QED
      BY <2>1, <3>1, <3>2
  <2>4. CASE i <= Len(IO) /\ j > Len(IO)
    <3>1. i \in 1 .. Len(IO) /\ variables[i] = IO[i]
      BY <1>2, <2>4, BoardHas
    <3>2. variables[i].type \in {DIN, DOUT} /\ variables[j].type \in {BIT, TMR}
      BY <1>3, <2>4, <3>1, BoardHas DEF BoardFirst
    <3> QED
      BY <3>2 DEF Before, DIN, DOUT, BIT, TMR
  <2> QED
    BY <1>1, <1>2, <2>2, <2>3, <2>4, BoardHas
<1>5. Ascending(variables)
  BY <1>2, <1>4, TableHas DEF Ascending
<1>6. TableTypes
  BY <1>2 DEF Init, TableTypes
<1>7. ASSUME NEW n \in Nodes
      PROVE  /\ IF op1[n] = -1 THEN meant[n] = NoEntry ELSE variables[op1[n] + 1] = meant[n]
             /\ compiled[n] # NoEntry =>
                  \E i \in 1 .. Len(variables) :
                    variables[i] = compiled[n] /\ code[n] = Offset(variables, i - 1)
  <2>1. /\ meant[n] = (IF op1[n] = -1 THEN NoEntry ELSE variables[op1[n] + 1])
        /\ code[n] = Offset(variables, op1[n]) /\ compiled[n] = meant[n]
        /\ op1[n] \in -1 .. Len(variables) - 1
    BY <1>7 DEF Init
  <2>2. ASSUME compiled[n] # NoEntry
        PROVE  /\ op1[n] + 1 \in 1 .. Len(variables) /\ op1[n] + 1 - 1 = op1[n]
               /\ variables[op1[n] + 1] = compiled[n]
    BY <1>2, <2>1, <2>2, TableHas
  <2>3. compiled[n] # NoEntry => code[n] = Offset(variables, op1[n] + 1 - 1)
    BY <2>1, <2>2
  <2> QED
    BY <2>1, <2>2, <2>3
<1>8. DOMAIN op1 = Nodes /\ DOMAIN code = Nodes
  BY DEF Init
<1> QED
  BY <1>3, <1>5, <1>6, <1>7, <1>8 DEF TableInv, LinksFollowInside, LinksFollow, CodeFitsTable


\* No variable is twice in the table.
LEMMA NoneTwice ==
  ASSUME NEW s \in Seq(Listable), Ascending(s), NEW i \in 1 .. Len(s), NEW j \in 1 .. Len(s), s[i] = s[j]
  PROVE  i = j
<1>1. ~(i < j) /\ ~(j < i)
  <2>1. /\ Len(s) \in Nat /\ DOMAIN s = 1 .. Len(s) /\ s[i].name \in Nat /\ s[i].type \in Nat
    BY TableHas
  <2>2. ~Before(s[i], s[j]) /\ ~Before(s[j], s[i])
    BY <2>1 DEF Before
  <2> QED
    BY <2>1, <2>2 DEF Ascending
<1>2. i \in Nat /\ j \in Nat
  BY TableHas
<1> QED
  BY <1>1, <1>2

\* A new variable has its place in the table, and the links move with theirs,
\* unless it is the last one.
LEMMA VariableAdded ==
  ASSUME TableInv, NEW name \in Names, NEW type \in {BIT, TMR}, AddVariable(Entry(name, type))
  PROVE  TableInv'
<1>1. PICK v \in Listable : v = Entry(name, type) /\ v.type \in {BIT, TMR}
  <2>1. name \in Nat
    BY NameAssumption
  <2>2. Entry(name, type) \in Listable
    BY <2>1 DEF Listable, Entry
  <2>3. Entry(name, type).type \in {BIT, TMR}
    BY DEF Entry
  <2> QED
    BY <2>2, <2>3
<1>2. /\ variables \in Seq(Listable) /\ TableTypes /\ BoardFirst /\ Ascending(variables)
      /\ Len(variables) \in Nat /\ Len(variables) > 0 /\ DOMAIN variables = 1 .. Len(variables)
      /\ Sortable(variables) /\ v.name \in Int /\ v.type \in Int
  <2>1. /\ variables \in Seq(Listable) /\ TableTypes /\ BoardFirst /\ Ascending(variables)
    BY DEF TableInv, TableTypes
  <2>2. /\ Len(variables) \in Nat /\ DOMAIN variables = 1 .. Len(variables) /\ Sortable(variables)
    BY <2>1, TableHas
  <2>3. Len(variables) > 0
    BY <2>1, <2>2, BoardHas DEF BoardFirst
  <2>4. v.name \in Int /\ v.type \in Int
    BY <1>1 DEF Listable, DIN, DOUT, BIT, TMR
  <2> QED
    BY <2>1, <2>2, <2>3, <2>4
<1>3. ~Exists(variables, v.name)
  BY <1>1 DEF AddVariable
<1>4. \A i \in 1 .. Len(IO) : Before(variables[i], v)
  <2> SUFFICES ASSUME NEW i \in 1 .. Len(IO) PROVE Before(variables[i], v)
    OBVIOUS
  <2>1. variables[i].type \in {DIN, DOUT}
    BY <1>2, BoardHas DEF BoardFirst
  <2> QED
    BY <1>1, <2>1 DEF Before, DIN, DOUT, BIT, TMR
<1>5. PICK at : at = Splice(variables, v)
  OBVIOUS
<1>6. \/ at = 0 /\ \A i \in 1 .. Len(variables) : Before(variables[i], v)
      \/ /\ at \in 1 .. Len(variables) - 1 /\ Before(v, variables[at + 1])
         /\ \A i \in 1 .. at : Before(variables[i], v)
         /\ \A i \in at + 1 .. Len(variables) : Before(v, variables[i])
  <2>1. Before(variables[1], v)
    BY <1>4, BoardHas
  <2> QED
    BY <1>2, <1>3, <1>5, <2>1, Splicing
<1>7. PICK p \in 1 .. Len(variables) + 1 :
        /\ \A i \in 1 .. p - 1 : Before(variables[i], v)
        /\ \A i \in p .. Len(variables) : Before(v, variables[i])
        /\ p = at + 1 \/ \A i \in 1 .. Len(variables) : Before(variables[i], v)
  <2>1. CASE at = 0
    <3>1. \A i \in 1 .. Len(variables) : Before(variables[i], v)
      BY <1>6, <2>1
    <3>2. PICK p \in 1 .. Len(variables) + 1 : p = Len(variables) + 1
      BY <1>2
    <3>3. \A i \in 1 .. p - 1 : Before(variables[i], v)
      BY <1>2, <3>1, <3>2
    <3>4. \A i \in p .. Len(variables) : Before(v, variables[i])
      BY <1>2, <3>2
    <3> QED
      BY <3>1, <3>3, <3>4
  <2>2. CASE at # 0
    <3>1. /\ at \in 1 .. Len(variables) - 1
          /\ \A i \in 1 .. at : Before(variables[i], v)
          /\ \A i \in at + 1 .. Len(variables) : Before(v, variables[i])
      BY <1>6, <2>2
    <3>2. PICK p \in 1 .. Len(variables) + 1 : p = at + 1 /\ p - 1 = at
      BY <1>2, <3>1
    <3> QED
      BY <3>1, <3>2
  <2> QED
    BY <2>1, <2>2
<1>8. at + 1 \in 1 .. Len(variables) + 1
  BY <1>2, <1>6
<1>9. PICK x : x = InsertAt(variables, at + 1, v)
  OBVIOUS
<1>10. Puts(Listable, variables, v, at + 1, x)
  BY <1>2, <1>8, <1>9, PuttingIn
<1>11. variables' = Sorted(x)
  BY <1>1, <1>5, <1>9 DEF AddVariable
<1>12. Puts(Listable, variables, v, p, variables') /\ Ascending(variables')
  BY <1>2, <1>7, <1>10, <1>11, SortingIn
<1>13. /\ variables' \in Seq(Listable) /\ Len(variables') = Len(variables) + 1
       /\ \A k \in 1 .. Len(variables) + 1 :
            variables'[k] = IF k < p THEN variables[k] ELSE IF k = p THEN v ELSE variables[k - 1]
  BY <1>12 DEF Puts
<1>14. Len(IO) < p
  <2> SUFFICES ASSUME p <= Len(IO) PROVE FALSE
    BY <1>2, BoardHas
  <2>1. p \in 1 .. Len(IO) /\ p \in p .. Len(variables)
    BY <1>2, BoardHas DEF BoardFirst
  <2>2. Before(variables[p], v) /\ Before(v, variables[p])
    BY <1>4, <1>7, <2>1
  <2>3. variables[p].name \in Nat /\ variables[p].type \in Nat
    BY <1>2, <2>1, TableHas
  <2> QED
    BY <1>2, <2>2, <2>3 DEF Before
<1>15. BoardFirst'
  <2>1. Len(IO) <= Len(variables')
    BY <1>2, <1>13, BoardHas DEF BoardFirst
  <2>2. ASSUME NEW i \in 1 .. Len(variables')
        PROVE  IF i <= Len(IO) THEN variables'[i] = IO[i] ELSE variables'[i].type \in {BIT, TMR}
    <3>1. /\ i \in 1 .. Len(variables) + 1
          /\ variables'[i] = IF i < p THEN variables[i] ELSE IF i = p THEN v ELSE variables[i - 1]
      BY <1>13
    <3>2. CASE i < p
      <4>1. i \in 1 .. Len(variables)
        BY <1>2, <3>2
      <4> QED
        BY <1>2, <3>1, <3>2, <4>1 DEF BoardFirst
    <3>3. CASE i = p
      BY <1>1, <1>14, <3>1, <3>3, BoardHas
    <3>4. CASE i > p
      <4>1. i - 1 \in 1 .. Len(variables) /\ ~(i - 1 <= Len(IO)) /\ ~(i <= Len(IO))
        BY <1>2, <1>14, <3>1, <3>4, BoardHas
      <4> QED
        BY <1>2, <3>1, <3>4, <4>1 DEF BoardFirst
    <3> QED
      BY <3>2, <3>3, <3>4
  <2> QED
    BY <2>1, <2>2 DEF BoardFirst
<1>16. /\ op1' = [n \in DOMAIN op1 |-> MovedUp(op1[n], at)] /\ meant' = meant /\ begin' = begin
       /\ Assembly(variables', op1', meant')
       /\ appended' = (appended \/ \A i \in 1 .. Len(variables) : Before(variables[i], v))
  BY <1>1, <1>5 DEF AddVariable
<1>17. ASSUME NEW n \in DOMAIN op1
       PROVE  /\ op1[n] \in -1 .. Len(variables) - 1 /\ op1'[n] = (IF op1[n] >= at THEN op1[n] + 1 ELSE op1[n])
              /\ op1'[n] \in -1 .. Len(variables') - 1 /\ at \in 0 .. Len(variables) - 1
  <2>1. op1[n] \in -1 .. Len(variables) - 1
    BY <1>2 DEF TableTypes
  <2>2. op1'[n] = IF op1[n] >= at THEN op1[n] + 1 ELSE op1[n]
    BY <1>16 DEF MovedUp
  <2>3. at \in 0 .. Len(variables) - 1
    BY <1>2, <1>6
  <2> QED
    BY <1>2, <1>13, <2>1, <2>2, <2>3, SMTT(30)
<1>18. TableTypes'
  <2>1. op1' \in [DOMAIN op1' -> -1 .. Len(variables') - 1] /\ DOMAIN op1' = DOMAIN op1
    BY <1>16, <1>17
  <2>2. {appended', outdated', begin'} \subseteq BOOLEAN /\ DOMAIN compiled' = DOMAIN code'
    <3>1. appended' \in BOOLEAN /\ begin' \in BOOLEAN
      BY <1>2, <1>16 DEF TableTypes
    <3>2. outdated' \in BOOLEAN /\ DOMAIN compiled' = DOMAIN code'
      BY <1>2, <1>16 DEF TableTypes, Assembly
    <3> QED
      BY <3>1, <3>2
  <2> QED
    BY <1>2, <1>13, <1>16, <2>1, <2>2 DEF TableTypes
<1>19. LinksFollowInside'
  <2>1. ASSUME appended' = FALSE, NEW n \in DOMAIN op1
        PROVE  IF op1'[n] = -1 THEN meant'[n] = NoEntry ELSE variables'[op1'[n] + 1] = meant'[n]
    <3>1. p = at + 1 /\ at # 0 /\ appended = FALSE
      <4>1. appended = FALSE /\ ~\A i \in 1 .. Len(variables) : Before(variables[i], v)
        BY <1>2, <1>16, <2>1 DEF TableTypes
      <4> QED
        BY <1>6, <1>7, <4>1
    <3>2. IF op1[n] = -1 THEN meant[n] = NoEntry ELSE variables[op1[n] + 1] = meant[n]
      BY <2>1, <3>1 DEF TableInv, LinksFollowInside, LinksFollow
    <3>3. CASE op1[n] = -1
      <4>1. op1'[n] = -1
        BY <1>17, <3>1, <3>3
      <4> QED
        BY <1>16, <3>2, <3>3, <4>1
    <3>4. CASE op1[n] # -1 /\ op1[n] < at
      <4>1. op1'[n] = op1[n] /\ op1[n] + 1 \in 1 .. Len(variables) + 1 /\ op1[n] + 1 < p
        BY <1>2, <1>17, <3>1, <3>4, SMTT(30)
      <4> QED
        BY <1>13, <1>16, <3>2, <3>4, <4>1
    <3>5. CASE op1[n] >= at
      <4>1. PICK k : k = op1[n] + 1 + 1
        OBVIOUS
      <4>2. /\ op1'[n] + 1 = k /\ k \in 1 .. Len(variables) + 1 /\ k > p /\ k - 1 = op1[n] + 1
            /\ op1'[n] # -1 /\ op1[n] # -1
        BY <1>2, <1>17, <3>1, <3>5, <4>1, SMTT(30)
      <4>3. variables'[k] = variables[k - 1]
        BY <1>2, <1>7, <1>13, <4>2
      <4> QED
        BY <1>16, <3>2, <4>2, <4>3
    <3> QED
      BY <1>17, <3>3, <3>4, <3>5
  <2>2. DOMAIN op1' = DOMAIN op1 /\ appended' \in BOOLEAN
    BY <1>16, <1>18 DEF TableTypes
  <2> QED
    BY <2>1, <2>2 DEF LinksFollowInside, LinksFollow
<1>20. CodeFitsTable'
  BY <1>2, <1>16, <1>18, <1>19, Assembling
<1> QED
  BY <1>12, <1>15, <1>18, <1>19, <1>20 DEF TableInv


\* Links move with their variables, and those to a removed one are cut.
LEMMA VariableRemoved ==
  ASSUME TableInv, NEW index \in 0 .. Len(variables) - 1, RemoveVariable(index)
  PROVE  TableInv'
<1>1. /\ variables \in Seq(Listable) /\ TableTypes /\ BoardFirst /\ Ascending(variables)
      /\ Len(variables) \in Nat /\ DOMAIN variables = 1 .. Len(variables)
  BY TableHas DEF TableInv, TableTypes
<1>2. PICK m \in 1 .. Len(variables) : m = index + 1
  BY <1>1
<1>3. /\ ~IsIO(variables[m]) /\ variables' = RemoveAt(variables, m)
      /\ op1' = [n \in DOMAIN op1 |-> ClosedUp(op1[n], index)]
      /\ meant' = [n \in DOMAIN op1 |-> IF meant[n] = variables[m] THEN NoEntry ELSE meant[n]]
      /\ Assembly(variables', op1', meant')
      /\ begin' = begin /\ appended' = appended
  BY <1>2 DEF RemoveVariable, Removal
<1>4. /\ variables' \in Seq(Listable) /\ Len(variables') = Len(variables) - 1
      /\ \A k \in 1 .. Len(variables) - 1 :
           variables'[k] = IF k < m THEN variables[k] ELSE variables[k + 1]
  BY <1>1, <1>3, TakingOut, ZenonT(60) DEF Lacks
<1>5. Len(IO) < m
  <2> SUFFICES ASSUME m <= Len(IO) PROVE FALSE
    BY <1>1, BoardHas
  <2>1. m \in 1 .. Len(IO) /\ variables[m] = IO[m]
    BY <1>1, BoardHas DEF BoardFirst
  <2> QED
    BY <1>3, <2>1, BoardHas DEF IsIO
<1>6. BoardFirst'
  <2>1. Len(IO) <= Len(variables')
    BY <1>1, <1>4, <1>5, BoardHas DEF BoardFirst
  <2>2. ASSUME NEW i \in 1 .. Len(variables')
        PROVE  IF i <= Len(IO) THEN variables'[i] = IO[i] ELSE variables'[i].type \in {BIT, TMR}
    <3>1. i \in 1 .. Len(variables) /\ i + 1 \in 1 .. Len(variables)
      BY <1>1, <1>4
    <3>2. CASE i < m
      BY <1>1, <1>4, <3>1, <3>2 DEF BoardFirst
    <3>3. CASE i >= m
      <4>1. variables'[i] = variables[i + 1] /\ ~(i <= Len(IO)) /\ ~(i + 1 <= Len(IO))
        BY <1>1, <1>4, <1>5, <3>3, BoardHas
      <4> QED
        BY <1>1, <3>1, <4>1 DEF BoardFirst
    <3> QED
      BY <3>1, <3>2, <3>3
  <2> QED
    BY <2>1, <2>2 DEF BoardFirst
<1>7. Ascending(variables')
  <2> SUFFICES ASSUME NEW i \in 1 .. Len(variables'), NEW j \in 1 .. Len(variables'), i < j
               PROVE  Before(variables'[i], variables'[j])
    BY <1>4, LenProperties DEF Ascending
  <2>1. /\ i \in 1 .. Len(variables) /\ i + 1 \in 1 .. Len(variables)
        /\ j \in 1 .. Len(variables) /\ j + 1 \in 1 .. Len(variables)
    BY <1>1, <1>4
  <2>2. /\ variables'[i] = IF i < m THEN variables[i] ELSE variables[i + 1]
        /\ variables'[j] = IF j < m THEN variables[j] ELSE variables[j + 1]
    BY <1>4
  <2>3. CASE j < m
    BY <1>1, <2>1, <2>2, <2>3, SMTT(30) DEF Ascending
  <2>4. CASE i < m /\ j >= m
    <3>1. variables'[i] = variables[i] /\ variables'[j] = variables[j + 1] /\ i < j + 1
      BY <2>1, <2>2, <2>4
    <3> QED
      BY <1>1, <2>1, <3>1 DEF Ascending
  <2>5. CASE i >= m
    <3>1. variables'[i] = variables[i + 1] /\ variables'[j] = variables[j + 1] /\ i + 1 < j + 1
      BY <2>1, <2>2, <2>5
    <3> QED
      BY <1>1, <2>1, <3>1 DEF Ascending
  <2> QED
    BY <2>1, <2>3, <2>4, <2>5
<1>8. ASSUME NEW n \in DOMAIN op1
      PROVE  /\ op1[n] \in -1 .. Len(variables) - 1 /\ index \in 0 .. Len(variables) - 1
             /\ op1[n] = index => op1'[n] = -1
             /\ op1[n] > index => op1'[n] = op1[n] - 1
             /\ op1[n] < index => op1'[n] = op1[n]
             /\ op1'[n] \in -1 .. Len(variables') - 1
  <2>1. op1[n] \in -1 .. Len(variables) - 1
    BY <1>1 DEF TableTypes
  <2>2. /\ op1[n] = index => op1'[n] = -1
        /\ op1[n] > index => op1'[n] = op1[n] - 1
        /\ op1[n] < index => op1'[n] = op1[n]
    BY <1>3, <2>1 DEF ClosedUp
  <2> QED
    BY <1>1, <1>4, <2>1, <2>2, SMTT(30)
<1>9. TableTypes'
  <2>1. op1' \in [DOMAIN op1' -> -1 .. Len(variables') - 1] /\ DOMAIN meant' = DOMAIN op1'
    BY <1>3, <1>8
  <2>2. {appended', outdated', begin'} \subseteq BOOLEAN /\ DOMAIN compiled' = DOMAIN code'
    <3>1. appended' \in BOOLEAN /\ begin' \in BOOLEAN
      BY <1>1, <1>3 DEF TableTypes
    <3>2. outdated' \in BOOLEAN /\ DOMAIN compiled' = DOMAIN code'
      BY <1>1, <1>3, <2>1 DEF TableTypes, Assembly
    <3> QED
      BY <3>1, <3>2
  <2> QED
    BY <1>4, <2>1, <2>2 DEF TableTypes
<1>10. LinksFollowInside'
  <2>1. ASSUME appended' = FALSE, NEW n \in DOMAIN op1
        PROVE  IF op1'[n] = -1 THEN meant'[n] = NoEntry ELSE variables'[op1'[n] + 1] = meant'[n]
    <3>1. IF op1[n] = -1 THEN meant[n] = NoEntry ELSE variables[op1[n] + 1] = meant[n]
      BY <1>3, <2>1 DEF TableInv, LinksFollowInside, LinksFollow
    <3>2. meant'[n] = IF meant[n] = variables[m] THEN NoEntry ELSE meant[n]
      BY <1>3
    <3>3. CASE op1[n] = -1
      <4>1. op1'[n] = -1
        BY <1>8, <3>3
      <4> QED
        BY <3>1, <3>2, <3>3, <4>1
    <3>4. CASE op1[n] = index
      <4>1. op1'[n] = -1 /\ op1[n] # -1 /\ meant[n] = variables[m]
        BY <1>2, <1>8, <3>1, <3>4
      <4> QED
        BY <3>2, <4>1
    <3>5. CASE op1[n] # -1 /\ op1[n] # index
      <4>1. PICK k \in 1 .. Len(variables) : k = op1[n] + 1 /\ k # m
        BY <1>1, <1>2, <1>8, <3>5
      <4>2. meant[n] = variables[k] /\ variables[k] # variables[m]
        BY <1>1, <3>1, <3>5, <4>1, NoneTwice
      <4>3. meant'[n] = variables[k]
        BY <3>2, <4>2
      <4>4. CASE op1[n] < index
        <5>1. op1'[n] = op1[n] /\ k \in 1 .. Len(variables) - 1 /\ k < m
          BY <1>1, <1>2, <1>8, <4>1, <4>4
        <5> QED
          BY <1>4, <3>5, <4>1, <4>3, <5>1
      <4>5. CASE op1[n] > index
        <5>1. PICK j : j = k - 1
          OBVIOUS
        <5>2. /\ op1'[n] = op1[n] - 1 /\ op1'[n] + 1 = j /\ j \in 1 .. Len(variables) - 1 /\ ~(j < m)
              /\ j + 1 = k /\ op1'[n] # -1
          BY <1>1, <1>2, <1>8, <4>1, <4>5, <5>1, SMTT(30)
        <5> QED
          BY <1>4, <4>3, <5>2
      <4> QED
        BY <1>8, <3>5, <4>4, <4>5
    <3> QED
      BY <1>8, <3>3, <3>4, <3>5
  <2>2. DOMAIN op1' = DOMAIN op1 /\ appended' \in BOOLEAN
    BY <1>3, <1>9 DEF TableTypes
  <2> QED
    BY <2>1, <2>2 DEF LinksFollowInside, LinksFollow
<1>11. CodeFitsTable'
  BY <1>1, <1>3, <1>9, <1>10, Assembling
<1> QED
  BY <1>6, <1>7, <1>9, <1>10, <1>11 DEF TableInv

\* What leaves the table and the code alone has only the links to keep.
LEMMA TableLeft ==
  ASSUME TableInv, UNCHANGED <<variables, code, compiled, appended, outdated>>,
         begin' \in BOOLEAN, op1' \in [DOMAIN op1' -> -1 .. Len(variables) - 1],
         DOMAIN meant' = DOMAIN op1',
         LinksFollow => LinksFollow'
  PROVE  TableInv'
<1>1. TableTypes' /\ BoardFirst' /\ Ascending(variables')
  BY DEF TableInv, TableTypes, BoardFirst
<1>2. LinksFollowInside'
  BY DEF TableInv, LinksFollowInside
<1>3. CodeFitsTable'
  BY DEF TableInv, CodeFitsTable
<1> QED
  BY <1>1, <1>2, <1>3 DEF TableInv

LEMMA TableSteps ==
  ASSUME TableInv, [Next]_vars
  PROVE  TableInv'
<1>1. /\ TableTypes /\ Len(variables) \in Nat /\ Len(variables) > 0
  BY TableHas, BoardHas DEF TableInv, TableTypes, BoardFirst
<1>2. CASE UNCHANGED vars
  BY <1>1, <1>2, TableLeft DEF vars, drawing, bytecode, TableTypes, LinksFollow
<1>3. ASSUME NEW name \in Names, NEW type \in {BIT, TMR}, AddVariable(Entry(name, type))
      PROVE  TableInv'
  BY <1>3, VariableAdded
<1>4. ASSUME NEW index \in 0 .. Len(variables) - 1, RemoveVariable(index)
      PROVE  TableInv'
  BY <1>4, VariableRemoved
<1>5. ASSUME NEW index \in 0 .. Len(variables) - 1, NEW n \in Nodes, LinkNode(n, index)
      PROVE  TableInv'
  <2>1. /\ UNCHANGED <<variables, code, compiled, appended, outdated, begin>> /\ n \in DOMAIN op1
        /\ op1' = [op1 EXCEPT ![n] = index] /\ meant' = [meant EXCEPT ![n] = variables[index + 1]]
    BY <1>5 DEF LinkNode, bytecode
  <2>2. op1' \in [DOMAIN op1' -> -1 .. Len(variables) - 1] /\ DOMAIN meant' = DOMAIN op1' /\ begin' \in BOOLEAN
    BY <1>1, <2>1 DEF TableTypes
  <2>3. index # -1
    BY <1>1
  <2>4. LinksFollow => LinksFollow'
    BY <1>1, <2>1, <2>3 DEF LinksFollow, TableTypes
  <2> QED
    BY <2>1, <2>2, <2>4, TableLeft
<1>6. ASSUME NEW index \in 0 .. Len(variables) - 1, NEW d \in Displays, LinkTag(d, index)
      PROVE  TableInv'
  BY <1>1, <1>6, TableLeft DEF LinkTag, drawing, bytecode, TableTypes, LinksFollow
<1>7. ASSUME NEW n \in Nodes, DrawNode(n)
      PROVE  TableInv'
  <2>1. /\ UNCHANGED <<variables, code, compiled, appended, outdated, begin>>
        /\ op1' = [m \in DOMAIN op1 \cup {n} |-> IF m = n THEN 0 ELSE op1[m]]
        /\ meant' = [m \in DOMAIN op1 \cup {n} |-> IF m = n THEN variables[1] ELSE meant[m]]
    BY <1>7 DEF DrawNode, bytecode
  <2>2. op1' \in [DOMAIN op1' -> -1 .. Len(variables) - 1] /\ DOMAIN meant' = DOMAIN op1' /\ begin' \in BOOLEAN
    BY <1>1, <2>1 DEF TableTypes
  <2>3. LinksFollow => LinksFollow'
    BY <2>1 DEF LinksFollow
  <2> QED
    BY <2>1, <2>2, <2>3, TableLeft
<1>8. ASSUME NEW n \in Nodes, EraseNode(n)
      PROVE  TableInv'
  <2>1. /\ UNCHANGED <<variables, code, compiled, appended, outdated, begin>>
        /\ op1' = [m \in DOMAIN op1 \ {n} |-> op1[m]] /\ meant' = [m \in DOMAIN op1 \ {n} |-> meant[m]]
    BY <1>8 DEF EraseNode, bytecode
  <2>2. op1' \in [DOMAIN op1' -> -1 .. Len(variables) - 1] /\ DOMAIN meant' = DOMAIN op1' /\ begin' \in BOOLEAN
    BY <1>1, <2>1 DEF TableTypes
  <2>3. LinksFollow => LinksFollow'
    BY <2>1 DEF LinksFollow
  <2> QED
    BY <2>1, <2>2, <2>3, TableLeft
<1>9. ASSUME NEW b \in BOOLEAN, SetBegin(b)
      PROVE  TableInv'
  BY <1>1, <1>9, TableLeft DEF SetBegin, bytecode, TableTypes, LinksFollow
<1>10. CASE Assemble
  <2>1. /\ UNCHANGED <<variables, op1, meant, begin, appended>> /\ Assembly(variables', op1', meant')
    BY <1>10 DEF Assemble, drawing
  <2>2. BoardFirst' /\ Ascending(variables') /\ LinksFollowInside'
    BY <2>1 DEF TableInv, BoardFirst, LinksFollowInside, LinksFollow
  <2>3. TableTypes'
    <3>1. outdated' \in BOOLEAN /\ DOMAIN compiled' = DOMAIN code'
      BY <1>1, <2>1 DEF TableTypes, Assembly
    <3> QED
      BY <1>1, <2>1, <3>1 DEF TableTypes
  <2>4. CodeFitsTable'
    BY <1>1, <2>1, <2>2, <2>3, Assembling
  <2> QED
    BY <2>2, <2>3, <2>4 DEF TableInv
<1> QED
  BY <1>2, <1>3, <1>4, <1>5, <1>6, <1>7, <1>8, <1>9, <1>10 DEF Next

\* Whatever is added, removed, linked and drawn, in whichever order: the
\* board's variables keep the first cells, a node refers to the variable it was
\* linked to and its code to that one's cell, as far as TableHolds promises.
THEOREM TableIsKept == Spec => []TableHolds
<1>1. Init => TableInv
  BY TableStarts
<1>2. TableInv /\ [Next]_vars => TableInv'
  BY TableSteps
<1>3. TableInv => TableHolds
  <2> SUFFICES ASSUME TableInv PROVE IoKeepsCells
    BY DEF TableInv, TableHolds
  <2>1. /\ variables \in Seq(Listable) /\ BoardFirst /\ Len(variables) \in Nat
    BY TableHas DEF TableInv, TableTypes
  <2>2. PICK t : t = SubSeq(variables, 1, Len(IO))
    OBVIOUS
  <2>3. 1 \in Nat /\ 1 >= 1 /\ Len(IO) \in Nat /\ Len(IO) <= Len(variables) /\ 1 <= Len(IO) + 1
    BY <2>1, BoardHas DEF BoardFirst
  <2>4. /\ t \in Seq(Listable) /\ Len(t) = Len(IO) - 1 + 1
        /\ \A k \in 1 .. Len(IO) - 1 + 1 : t[k] = variables[1 + k - 1]
    BY <2>1, <2>2, <2>3, Part
  <2>5. ASSUME NEW k \in 1 .. Len(IO) PROVE t[k] = IO[k]
    <3>1. k \in 1 .. Len(IO) - 1 + 1 /\ 1 + k - 1 = k /\ k \in 1 .. Len(variables) /\ k <= Len(IO)
      BY <2>1, <2>3
    <3> QED
      BY <2>1, <2>4, <3>1 DEF BoardFirst
  <2>6. Len(t) = Len(IO)
    BY <2>3, <2>4
  <2>7. t = IO
    BY <2>4, <2>5, <2>6, BoardHas, SeqEqual
  <2> QED
    BY <2>2, <2>7 DEF IoKeepsCells
<1> QED
  BY <1>1, <1>2, <1>3, PTL DEF Spec


-----------------------------------------------------------------------------
(* The list of the editor's objects.                                       *)

\* Lower layers are in front.
Ordered(os) == \A i, j \in 1 .. Len(os) : i < j => os[i].layer <= os[j].layer

\* The same objects on the same layers.
Kept(os, new) ==
  /\ new \in Seq(HmiObjects) /\ Len(new) = Len(os)
  /\ \A k \in 1 .. Len(os) : new[k].layer = os[k].layer /\ new[k].name = os[k].name

\* Objects that keep their places keep their order.
LEMMA KeptInOrder ==
  ASSUME NEW os, NEW new, Kept(os, new), Ordered(os)
  PROVE  Ordered(new)
BY DEF Kept, Ordered

\* What the list holds.
LEMMA Listed ==
  ASSUME NEW os \in Seq(HmiObjects)
  PROVE  /\ Len(os) \in Nat /\ DOMAIN os = 1 .. Len(os)
         /\ \A k \in 1 .. Len(os) :
              /\ os[k] \in HmiObjects /\ os[k].layer \in Layers /\ os[k].layer \in Int
              /\ os[k].x \in Points /\ os[k].x \in Int /\ os[k].x_start \in Int
              /\ os[k].locked \in BOOLEAN /\ os[k].selected \in BOOLEAN
<1>1. Len(os) \in Nat /\ DOMAIN os = 1 .. Len(os)
  BY LenProperties
<1>2. ASSUME NEW k \in 1 .. Len(os) PROVE os[k] \in HmiObjects
  BY ElementOfSeq
<1> QED
  BY <1>1, <1>2, HmiAssumption DEF HmiObjects

\* A list made object by object.
LEMMA Made ==
  ASSUME NEW os \in Seq(HmiObjects), NEW new, new \in [1 .. Len(os) -> HmiObjects],
         \A k \in 1 .. Len(os) : new[k].layer = os[k].layer /\ new[k].name = os[k].name
  PROVE  Kept(os, new)
<1>1. new \in Seq(HmiObjects) /\ Len(new) = Len(os)
  BY Listed, SeqDef
<1> QED
  BY <1>1 DEF Kept

\* Nothing is marked any more.
LEMMA Unflagging ==
  ASSUME NEW os \in Seq(HmiObjects), NEW new, new = Unflagged(os)
  PROVE  /\ Kept(os, new)
         /\ \A k \in 1 .. Len(os) :
              /\ new[k].selected = FALSE /\ new[k].x = os[k].x
              /\ new[k].x_start = os[k].x_start /\ new[k].locked = os[k].locked
<1>1. new = [k \in DOMAIN os |-> IF k - 1 \in 0 .. Len(os) - 1
                                 THEN [os[k] EXCEPT !.selected = FALSE] ELSE os[k]]
  BY DEF Unflagged, With
<1>2. ASSUME NEW k \in 1 .. Len(os)
      PROVE  new[k] = [os[k] EXCEPT !.selected = FALSE] /\ os[k] \in HmiObjects
  <2>1. k - 1 \in 0 .. Len(os) - 1 /\ k \in DOMAIN os /\ os[k] \in HmiObjects
    BY Listed
  <2> QED
    BY <1>1, <2>1
<1>3. ASSUME NEW k \in 1 .. Len(os)
      PROVE  /\ new[k] \in HmiObjects /\ new[k].layer = os[k].layer /\ new[k].name = os[k].name
             /\ new[k].selected = FALSE /\ new[k].x = os[k].x
             /\ new[k].x_start = os[k].x_start /\ new[k].locked = os[k].locked
  <2>1. PICK o \in HmiObjects : o = os[k]
    BY <1>2
  <2>2. [o EXCEPT !.selected = FALSE] \in HmiObjects
    BY DEF HmiObjects
  <2>3. new[k] = [o EXCEPT !.selected = FALSE]
    BY <1>2, <2>1
  <2> QED
    BY <2>1, <2>2, <2>3 DEF HmiObjects
<1>4. new \in [1 .. Len(os) -> HmiObjects]
  BY <1>1, <1>3, Listed
<1>6. \A k \in 1 .. Len(os) : new[k].layer = os[k].layer /\ new[k].name = os[k].name
  BY <1>3
<1>5. Kept(os, new)
  BY <1>4, <1>6, Made
<1> QED
  BY <1>3, <1>5

\* The objects of a set note where they are.
LEMMA Starting ==
  ASSUME NEW os \in Seq(HmiObjects), NEW is, NEW new, new = Started(os, is)
  PROVE  /\ Kept(os, new)
         /\ \A k \in 1 .. Len(os) :
              /\ new[k].selected = os[k].selected /\ new[k].x = os[k].x
              /\ new[k].x_start = (IF k - 1 \in is THEN os[k].x ELSE os[k].x_start)
              /\ new[k].locked = os[k].locked
<1>1. new = [k \in DOMAIN os |-> IF k - 1 \in is THEN [os[k] EXCEPT !.x_start = os[k].x] ELSE os[k]]
  BY DEF Started, With
<1>2. ASSUME NEW k \in 1 .. Len(os)
      PROVE  /\ new[k] = IF k - 1 \in is THEN [os[k] EXCEPT !.x_start = os[k].x] ELSE os[k]
             /\ os[k] \in HmiObjects /\ os[k].x \in Int
  BY <1>1, Listed
<1>3. \A k \in 1 .. Len(os) : /\ new[k] \in HmiObjects /\ new[k].layer = os[k].layer
                              /\ new[k].name = os[k].name
                              /\ new[k].selected = os[k].selected /\ new[k].x = os[k].x
                              /\ new[k].x_start = (IF k - 1 \in is THEN os[k].x ELSE os[k].x_start)
                              /\ new[k].locked = os[k].locked
  BY <1>2, ZenonT(60) DEF HmiObjects
<1>4. new \in [1 .. Len(os) -> HmiObjects]
  BY <1>1, <1>3, Listed
<1>5. Kept(os, new)
  BY <1>3, <1>4, Made, SMTT(30)
<1> QED
  BY <1>3, <1>5

\* What becomes of some objects of a list.
MarkedAs(os, is, on) == With(os, is, LAMBDA o : [o EXCEPT !.selected = on])
LockedAs(os, is, l) == With(os, is, LAMBDA o : [o EXCEPT !.locked = l])
SavedAs(os, is, x, l) == With(os, is, LAMBDA o : [o EXCEPT !.x = x, !.layer = l])
DraggedBy(os, is, p, q) == With(os, is, LAMBDA o : [o EXCEPT !.x = o.x_start + p - q])

\* The flags of some objects are set or cleared.
LEMMA Flagging ==
  ASSUME NEW os \in Seq(HmiObjects), NEW is, NEW on \in BOOLEAN, NEW new,
         new = MarkedAs(os, is, on)
  PROVE  /\ Kept(os, new)
         /\ \A k \in 1 .. Len(os) :
              /\ new[k].selected = (IF k - 1 \in is THEN on ELSE os[k].selected)
              /\ new[k].x = os[k].x /\ new[k].x_start = os[k].x_start
              /\ new[k].locked = os[k].locked
<1>1. new = [k \in DOMAIN os |-> IF k - 1 \in is THEN [os[k] EXCEPT !.selected = on] ELSE os[k]]
  BY DEF With, MarkedAs
<1>2. ASSUME NEW k \in 1 .. Len(os)
      PROVE  /\ new[k] = IF k - 1 \in is THEN [os[k] EXCEPT !.selected = on] ELSE os[k]
             /\ os[k] \in HmiObjects
  BY <1>1, Listed
<1>3. \A k \in 1 .. Len(os) : /\ new[k] \in HmiObjects /\ new[k].layer = os[k].layer
                              /\ new[k].name = os[k].name
                              /\ new[k].selected = (IF k - 1 \in is THEN on ELSE os[k].selected)
                              /\ new[k].x = os[k].x /\ new[k].x_start = os[k].x_start
                              /\ new[k].locked = os[k].locked
  BY <1>2, ZenonT(60) DEF HmiObjects
<1>4. new \in [1 .. Len(os) -> HmiObjects]
  BY <1>1, <1>3, Listed
<1>5. Kept(os, new)
  BY <1>3, <1>4, Made
<1> QED
  BY <1>3, <1>5

\* What is typed into the box goes to some objects.
LEMMA Saving ==
  ASSUME NEW os \in Seq(HmiObjects), NEW is, NEW x \in Points, NEW l \in Layers, NEW new,
         new = SavedAs(os, is, x, l)
  PROVE  new \in Seq(HmiObjects) /\ Len(new) = Len(os)
<1>1. new = [k \in DOMAIN os |-> IF k - 1 \in is THEN [os[k] EXCEPT !.x = x, !.layer = l] ELSE os[k]]
  BY DEF With, SavedAs
<1>2. ASSUME NEW k \in 1 .. Len(os) PROVE new[k] \in HmiObjects
  <2>1. /\ new[k] = IF k - 1 \in is THEN [os[k] EXCEPT !.x = x, !.layer = l] ELSE os[k]
        /\ os[k] \in HmiObjects
    BY <1>1, Listed
  <2> QED
    BY <2>1, ZenonT(60) DEF HmiObjects
<1>3. new \in [1 .. Len(os) -> HmiObjects]
  BY <1>1, <1>2, Listed
<1> QED
  BY <1>3, SeqDef, Listed, SMTT(30)

\* Objects are locked or unlocked.
LEMMA Locking ==
  ASSUME NEW os \in Seq(HmiObjects), NEW is, NEW l \in BOOLEAN, NEW new,
         new = LockedAs(os, is, l)
  PROVE  /\ Kept(os, new)
         /\ \A k \in 1 .. Len(os) : new[k].x = os[k].x /\ new[k].x_start = os[k].x_start
<1>1. new = [k \in DOMAIN os |-> IF k - 1 \in is THEN [os[k] EXCEPT !.locked = l] ELSE os[k]]
  BY DEF With, LockedAs
<1>2. ASSUME NEW k \in 1 .. Len(os)
      PROVE  /\ new[k] = IF k - 1 \in is THEN [os[k] EXCEPT !.locked = l] ELSE os[k]
             /\ os[k] \in HmiObjects
  BY <1>1, Listed
<1>3. \A k \in 1 .. Len(os) : /\ new[k] \in HmiObjects /\ new[k].layer = os[k].layer
                              /\ new[k].name = os[k].name
                              /\ new[k].x = os[k].x /\ new[k].x_start = os[k].x_start
  BY <1>2, ZenonT(60) DEF HmiObjects
<1>4. new \in [1 .. Len(os) -> HmiObjects]
  BY <1>1, <1>3, Listed
<1>5. \A k \in 1 .. Len(os) : new[k].layer = os[k].layer /\ new[k].name = os[k].name
  BY <1>3
<1>6. Kept(os, new)
  BY <1>4, <1>5, Made
<1> QED
  BY <1>3, <1>6

\* Some objects are moved from where they started.
LEMMA Dragging ==
  ASSUME NEW os \in Seq(HmiObjects), NEW is, NEW p \in Int, NEW q \in Int, NEW new,
         new = DraggedBy(os, is, p, q),
         \A k \in 1 .. Len(os) : new[k].x \in Points
  PROVE  /\ Kept(os, new)
         /\ \A k \in 1 .. Len(os) :
              /\ new[k].selected = os[k].selected /\ new[k].x_start = os[k].x_start
              /\ new[k].x = (IF k - 1 \in is THEN os[k].x_start + p - q ELSE os[k].x)
              /\ new[k].locked = os[k].locked
<1>1. new = [k \in DOMAIN os |-> IF k - 1 \in is THEN [os[k] EXCEPT !.x = os[k].x_start + p - q]
                                                  ELSE os[k]]
  BY DEF With, DraggedBy
<1>2. ASSUME NEW k \in 1 .. Len(os)
      PROVE  /\ new[k] = IF k - 1 \in is THEN [os[k] EXCEPT !.x = os[k].x_start + p - q] ELSE os[k]
             /\ os[k] \in HmiObjects /\ os[k].x_start \in Int
  BY <1>1, Listed
<1>3. \A k \in 1 .. Len(os) :
        /\ new[k].layer = os[k].layer
        /\ new[k].name = os[k].name /\ new[k].type = os[k].type
        /\ new[k].selected = os[k].selected /\ new[k].x_start = os[k].x_start
        /\ new[k].x = (IF k - 1 \in is THEN os[k].x_start + p - q ELSE os[k].x)
        /\ new[k].locked = os[k].locked
  BY <1>2 DEF HmiObjects
<1>4. ASSUME NEW k \in 1 .. Len(os) PROVE new[k] \in HmiObjects
  <2>1. PICK y : y = os[k].x_start + p - q
    OBVIOUS
  <2>2. new[k] = (IF k - 1 \in is THEN [os[k] EXCEPT !.x = y] ELSE os[k]) /\ os[k] \in HmiObjects
    BY <1>2, <2>1
  <2>3. k - 1 \in is => y \in Points
    BY <1>3, <2>1
  <2> QED
    BY <2>2, <2>3 DEF HmiObjects
<1>5. new \in [1 .. Len(os) -> HmiObjects]
  BY <1>1, <1>4, Listed
<1>6. Kept(os, new)
  BY <1>3, <1>5, Made
<1> QED
  BY <1>3, <1>6

-----------------------------------------------------------------------------
(* Where an object is put.                                                 *)

\* new is os with o at place m.
Has(os, o, m, new) == Puts(HmiObjects, os, o, m, new)

\* An object is put before the one at a place.
LEMMA Inserting ==
  ASSUME NEW os \in Seq(HmiObjects), NEW o \in HmiObjects, NEW m \in 1 .. Len(os), NEW new,
         new = InsertAt(os, m, o)
  PROVE  Has(os, o, m, new)
<1>1. m \in 1 .. Len(os) + 1
  BY LenProperties
<1> QED
  BY <1>1, PuttingIn, SMTT(30) DEF Has, Puts

\* An object is put behind all.
LEMMA Appending ==
  ASSUME NEW os \in Seq(HmiObjects), NEW o \in HmiObjects, NEW new, new = Append(os, o)
  PROVE  Has(os, o, Len(os) + 1, new)
BY PuttingBehind DEF Has

\* object_add keeps the list in order.
LEMMA Placing ==
  ASSUME NEW os \in Seq(HmiObjects), NEW o \in HmiObjects, NEW new, new = Placed(o, os)
  PROVE  \E m \in 1 .. Len(os) + 1 :
           Has(os, o, m, new) /\ (Ordered(os) => Ordered(new))
<1>1. Len(os) \in Nat /\ DOMAIN os = 1 .. Len(os) /\ o.layer \in Int
      /\ \A k \in 1 .. Len(os) : os[k].layer \in Int
  BY Listed, HmiAssumption DEF HmiObjects
<1>2. PICK above : above = {i \in DOMAIN os : o.layer <= os[i].layer}
  OBVIOUS
<1>3. PICK m \in 1 .. Len(os) + 1 :
        /\ Has(os, o, m, new)
        /\ \A k \in 1 .. Len(os) : k < m => os[k].layer <= o.layer
        /\ m <= Len(os) => o.layer <= os[m].layer
  <2>1. CASE above = {}
    <3>1. new = Append(os, o)
      BY <1>2, <2>1 DEF Placed
    <3>2. Has(os, o, Len(os) + 1, new)
      BY <3>1, Appending
    <3>3. \A k \in 1 .. Len(os) : os[k].layer <= o.layer
      BY <1>1, <1>2, <2>1
    <3>4. Len(os) + 1 \in 1 .. Len(os) + 1 /\ ~(Len(os) + 1 <= Len(os))
      BY <1>1
    <3> QED
      BY <3>2, <3>3, <3>4
  <2>2. CASE above # {}
    <3>1. above \subseteq Nat
      BY <1>1, <1>2
    <3>2. \E m \in above : \A k \in above : m <= k
      BY <2>2, <3>1, Least
    <3>3. PICK m \in above : m = Min(above) /\ \A k \in above : m <= k
      BY <3>2 DEF Min
    <3>4. new = InsertAt(os, m, o)
      BY <1>2, <2>2, <3>3 DEF Placed
    <3>5. m \in 1 .. Len(os) /\ o.layer <= os[m].layer
      BY <1>1, <1>2
    <3>6. Has(os, o, m, new)
      BY <3>4, <3>5, Inserting
    <3>7. ASSUME NEW k \in 1 .. Len(os), k < m PROVE os[k].layer <= o.layer
      <4>1. k \notin above
        BY <3>1, <3>3, <3>5, <3>7
      <4> QED
        BY <1>1, <1>2, <4>1
    <3>8. m \in 1 .. Len(os) + 1
      BY <1>1, <3>5
    <3> QED
      BY <3>5, <3>6, <3>7, <3>8
  <2> QED
    BY <2>1, <2>2
<1>4. ASSUME Ordered(os), NEW i \in 1 .. Len(new), NEW j \in 1 .. Len(new), i < j
      PROVE  new[i].layer <= new[j].layer
  <2>1. /\ i \in 1 .. Len(os) + 1 /\ j \in 1 .. Len(os) + 1 /\ m \in Nat
        /\ \A k \in 1 .. Len(os) + 1 :
             new[k] = IF k < m THEN os[k] ELSE IF k = m THEN o ELSE os[k - 1]
    BY <1>1, <1>3 DEF Has, Puts
  <2>2. \A k \in 1 .. Len(os) : m <= k => o.layer <= os[k].layer
    BY <1>1, <1>3, <1>4, <2>1, SMTT(30) DEF Ordered
  <2>3. CASE j < m
    BY <1>1, <1>4, <2>1, <2>3 DEF Ordered
  <2>4. CASE j = m
    BY <1>1, <1>3, <1>4, <2>1, <2>4
  <2>5. CASE j > m /\ i < m
    <3>1. new[i] = os[i] /\ new[j] = os[j - 1] /\ i \in 1 .. Len(os) /\ j - 1 \in 1 .. Len(os)
      BY <1>1, <2>1, <2>5
    <3>2. os[i].layer <= o.layer /\ o.layer <= os[j - 1].layer
      BY <1>1, <1>3, <2>1, <2>2, <2>5, <3>1
    <3> QED
      BY <1>1, <3>1, <3>2, SMTT(30)
  <2>6. CASE i = m
    <3>1. new[i] = o /\ new[j] = os[j - 1] /\ j - 1 \in 1 .. Len(os) /\ m <= j - 1
      BY <1>1, <1>4, <2>1, <2>6
    <3> QED
      BY <2>2, <3>1
  <2>7. CASE i > m
    <3>1. /\ new[i] = os[i - 1] /\ new[j] = os[j - 1] /\ i - 1 \in 1 .. Len(os)
          /\ j - 1 \in 1 .. Len(os) /\ i - 1 < j - 1
      BY <1>1, <1>4, <2>1, <2>7
    <3> QED
      BY <1>4, <3>1 DEF Ordered
  <2> QED
    BY <1>4, <2>1, <2>3, <2>4, <2>5, <2>6, <2>7
<1> QED
  BY <1>3, <1>4 DEF Ordered

\* Loading up to the n-th object.
LoadsTo(n, f) ==
  f = [k \in 0 .. n |-> IF k = 0 THEN <<>> ELSE Placed(HmiLoaded[k], f[k - 1])]

\* The list is loaded object by object.
LEMMA LoadsToAny ==
  ASSUME NEW n \in Nat
  PROVE  \E f : LoadsTo(n, f)
<1> SUFFICES ASSUME ~\E f : LoadsTo(n, f) PROVE FALSE
  OBVIOUS
<1>1. PICK missing : missing = {m \in Nat : ~\E f : LoadsTo(m, f)}
  OBVIOUS
<1>2. n \in missing /\ missing \subseteq Nat
  BY <1>1
<1>3. PICK m \in missing : \A k \in missing : m <= k
  <2>1. missing # {}
    BY <1>2
  <2>2. \E m \in missing : \A k \in missing : m <= k
    BY <1>2, <2>1, Least
  <2> QED
    BY <2>2
<1>4. m \in Nat /\ ~\E f : LoadsTo(m, f)
  BY <1>1
<1>5. m # 0
  <2>1. PICK none : none = [k \in 0 .. 0 |-> <<>>]
    OBVIOUS
  <2>2. none = [k \in 0 .. 0 |-> IF k = 0 THEN <<>> ELSE Placed(HmiLoaded[k], none[k - 1])]
    BY <2>1
  <2>3. LoadsTo(0, none)
    BY <2>2 DEF LoadsTo
  <2> QED
    BY <1>4, <2>3
<1>6. m - 1 \in Nat /\ m - 1 \notin missing
  BY <1>3, <1>4, <1>5
<1>7. PICK g : LoadsTo(m - 1, g)
  BY <1>1, <1>6
<1>8. PICK last : last = Placed(HmiLoaded[m], g[m - 1])
  OBVIOUS
<1>9. PICK f : f = [k \in 0 .. m |-> IF k = m THEN last ELSE g[k]]
  OBVIOUS
<1>10. ASSUME NEW k \in 0 .. m
       PROVE  f[k] = IF k = 0 THEN <<>> ELSE Placed(HmiLoaded[k], f[k - 1])
  <2>1. CASE k = m
    <3>1. m - 1 \in 0 .. m /\ m - 1 # m /\ m \in 0 .. m
      BY <1>4, <1>6
    <3>2. f[m] = last /\ f[m - 1] = g[m - 1]
      BY <1>9, <3>1
    <3> QED
      BY <1>5, <1>8, <2>1, <3>2
  <2>2. CASE k # m
    <3>1. k \in 0 .. m - 1 /\ (k # 0 => k - 1 \in 0 .. m /\ k - 1 # m)
      BY <1>4, <2>2
    <3>2. f[k] = g[k] /\ (k # 0 => f[k - 1] = g[k - 1])
      BY <1>9, <2>2, <3>1
    <3>3. g[k] = IF k = 0 THEN <<>> ELSE Placed(HmiLoaded[k], g[k - 1])
      BY <1>7, <3>1 DEF LoadsTo
    <3> QED
      BY <3>2, <3>3
  <2> QED
    BY <2>1, <2>2
<1>11. LoadsTo(m, f)
  <2>1. f = [k \in 0 .. m |-> f[k]]
    BY <1>9
  <2> QED
    BY <1>10, <2>1 DEF LoadsTo
<1> QED
  BY <1>4, <1>11

\* What is loaded is in order.
LEMMA LoadedInOrder ==
  Loading[Len(HmiLoaded)] \in Seq(HmiObjects) /\ Ordered(Loading[Len(HmiLoaded)])
<1>1. PICK n \in Nat : n = Len(HmiLoaded)
  BY LenProperties, HmiAssumption
<1>2. PICK f : f = Loading
  OBVIOUS
<1>3. LoadsTo(n, f)
  <2>1. \E g : LoadsTo(n, g)
    BY LoadsToAny
  <2> QED
    BY <1>1, <1>2, <2>1 DEF Loading, LoadsTo
<1>4. PICK bad : bad = {k \in 0 .. n : ~(f[k] \in Seq(HmiObjects) /\ Ordered(f[k]))}
  OBVIOUS
<1>5. bad = {}
  <2> SUFFICES ASSUME bad # {} PROVE FALSE
    OBVIOUS
  <2>1. bad \subseteq Nat
    BY <1>4
  <2>2. \E k \in bad : \A j \in bad : k <= j
    BY <2>1, Least
  <2>3. PICK k \in bad : \A j \in bad : k <= j
    BY <2>2
  <2>4. k \in 0 .. n /\ ~(f[k] \in Seq(HmiObjects) /\ Ordered(f[k]))
    BY <1>4
  <2>5. f[k] = IF k = 0 THEN <<>> ELSE Placed(HmiLoaded[k], f[k - 1])
    BY <1>3, <2>4 DEF LoadsTo
  <2>6. k # 0
    <3>1. <<>> \in Seq(HmiObjects) /\ Len(<<>>) = 0
      BY EmptySeq
    <3>2. Ordered(<<>>)
      BY <3>1 DEF Ordered
    <3> QED
      BY <2>4, <2>5, <3>1, <3>2
  <2>7. k - 1 \in 0 .. n /\ k - 1 \notin bad /\ k \in 1 .. n
    BY <1>1, <2>3, <2>4, <2>6
  <2>8. PICK os : os = f[k - 1]
    OBVIOUS
  <2>9. os \in Seq(HmiObjects) /\ Ordered(os)
    BY <1>4, <2>7, <2>8
  <2>10. PICK o \in HmiObjects : o = HmiLoaded[k]
    BY <1>1, <2>7, ElementOfSeq, HmiAssumption
  <2>11. f[k] = Placed(o, os)
    BY <2>5, <2>6, <2>8, <2>10
  <2>12. PICK m \in 1 .. Len(os) + 1 : Has(os, o, m, f[k]) /\ (Ordered(os) => Ordered(f[k]))
    BY <2>9, <2>11, Placing
  <2> QED
    BY <2>4, <2>9, <2>12 DEF Has, Puts
<1>6. n \in 0 .. n
  BY <1>1
<1> QED
  BY <1>1, <1>2, <1>4, <1>5, <1>6

-----------------------------------------------------------------------------
(* What a click finds.                                                     *)

\* In a list in order the object found is the last one at the place.
LEMMA HitsTop ==
  ASSUME disp_objects \in Seq(HmiObjects), Ordered(disp_objects), NEW i \in Indices
  PROVE  FindIndex(Obj(i).x) = Max({j \in Indices : Obj(j).x = Obj(i).x})
<1> DEFINE at == {j \in Indices : Obj(j).x = Obj(i).x}
           best == {k \in at : \A j \in at : \/ Obj(j).layer < Obj(k).layer
                                             \/ Obj(j).layer = Obj(k).layer /\ j <= k}
<1>1. \A j : j \in at <=> j \in Indices /\ Obj(j).x = Obj(i).x
  OBVIOUS
<1>5. \A k : k \in best <=> /\ k \in at
                            /\ \A j \in at : \/ Obj(j).layer < Obj(k).layer
                                             \/ Obj(j).layer = Obj(k).layer /\ j <= k
  OBVIOUS
<1>9. FindIndex(Obj(i).x) = IF at = {} THEN NoObject ELSE CHOOSE k \in best : TRUE
  BY DEF FindIndex
<1>10. Max({j \in Indices : Obj(j).x = Obj(i).x}) = Max(at)
  OBVIOUS
<1> HIDE DEF at, best
<1>2. /\ i \in at /\ at \subseteq Nat /\ Len(disp_objects) \in Nat
      /\ \A j \in at : j \in Indices /\ j <= Len(disp_objects) /\ j + 1 \in 1 .. Len(disp_objects)
  BY <1>1, Listed, SMTT(30) DEF Indices
<1>3. PICK top \in at : \A j \in at : j <= top
  <2>1. PICK above : above = {k \in Nat : \A j \in at : j <= k}
    OBVIOUS
  <2>2. Len(disp_objects) \in above /\ above \subseteq Nat
    BY <1>2, <2>1
  <2>3. above # {}
    BY <2>2
  <2>4. \E k \in above : \A l \in above : k <= l
    BY <2>2, <2>3, Least
  <2>5. PICK k \in above : \A l \in above : k <= l
    BY <2>4
  <2>6. k \in Nat /\ \A j \in at : j <= k
    BY <2>1
  <2>7. k \in at
    <3> SUFFICES ASSUME k \notin at PROVE FALSE
      OBVIOUS
    <3>1. \A j \in at : j <= k - 1
      BY <1>2, <2>6
    <3>2. k - 1 \in Nat
      BY <1>2, <2>6, <3>1
    <3>3. k - 1 \in above
      BY <2>1, <3>1, <3>2
    <3> QED
      BY <2>5, <2>6, <3>3
  <2> QED
    BY <2>6, <2>7
<1>4. Max(at) = top
  <2>1. \A j \in at : top >= j
    BY <1>2, <1>3
  <2>2. ASSUME NEW m \in at, \A j \in at : m >= j PROVE m = top
    BY <1>2, <1>3, <2>2
  <2> QED
    BY <1>3, <2>1, <2>2 DEF Max
<1>6. \A j \in at : Obj(j).layer \in Int
  BY <1>2, Listed DEF Obj
<1>7. \A j \in at : Obj(j).layer <= Obj(top).layer
  <2>1. ASSUME NEW j \in at PROVE Obj(j).layer <= Obj(top).layer
    <3>1. /\ j + 1 \in 1 .. Len(disp_objects) /\ top + 1 \in 1 .. Len(disp_objects)
          /\ j \in Nat /\ top \in Nat /\ j <= top
      BY <1>2, <1>3
    <3>2. CASE j = top
      BY <1>6, <3>2
    <3>3. CASE j < top
      <4>1. j + 1 < top + 1
        BY <3>1, <3>3
      <4> QED
        BY <3>1, <4>1 DEF Ordered, Obj
    <3> QED
      BY <3>1, <3>2, <3>3
  <2> QED
    BY <2>1
<1>8. best = {top}
  <2>1. top \in best
    BY <1>3, <1>5, <1>6, <1>7
  <2>2. ASSUME NEW k \in best PROVE k = top
    <3>1. /\ k \in at
          /\ Obj(top).layer < Obj(k).layer \/ (Obj(top).layer = Obj(k).layer /\ top <= k)
      BY <1>5
    <3>2. Obj(k).layer <= Obj(top).layer /\ Obj(k).layer \in Int /\ Obj(top).layer \in Int
      BY <1>6, <1>7, <3>1
    <3>3. top <= k
      BY <3>1, <3>2
    <3> QED
      BY <1>2, <1>3, <3>1, <3>3
  <2> QED
    BY <2>1, <2>2
<1>11. FindIndex(Obj(i).x) = top
  BY <1>2, <1>8, <1>9
<1> QED
  BY <1>4, <1>10, <1>11

-----------------------------------------------------------------------------
(* The invariant.                                                          *)

EditTypes ==
  /\ disp_objects \in Seq(HmiObjects) /\ selected_objects \subseteq Indices
  /\ object_selected \in Indices \cup {NoObject} /\ click_index \in Indices \cup {NoObject}
  /\ mouse \in [down : BOOLEAN, start : Int] /\ view_mode \in {"edit", "run"}
  /\ object_moved \in BOOLEAN /\ selecting \in BOOLEAN
  /\ stale \in BOOLEAN /\ relayered \in BOOLEAN

NothingPressed == mouse.down = FALSE => click_index = NoObject
OneInBox == shown # Closed => Cardinality(selected_objects) = 1
InOrder == relayered = FALSE => Ordered(disp_objects)

\* The button is down on no object: a rectangle may come of it, and then
\* nothing is selected.
Drawing ==
  /\ mouse.down = TRUE /\ view_mode = "edit" /\ selecting = TRUE
  /\ ui_mode # "resize" /\ ui_mode # "move" /\ (click_index = NoObject \/ object_moved = TRUE)
NothingHeld == Drawing => selected_objects = {} /\ object_selected = NoObject

Marked ==
  /\ \A i \in Indices : i \in selected_objects <=> Obj(i).selected = TRUE
  /\ shown # Closed => \A i \in selected_objects : Obj(i).name = shown
\* In run mode a rectangle was pressed, which clears the flags alone.
RectPressed == mouse.down = TRUE /\ view_mode = "run" /\ click_index = NoObject

\* How far the selected objects are from where their move starts.
MoveGoesOn == mouse.down = TRUE /\ object_moved = TRUE /\ ui_mode = "move"
Away(d) == \A i \in selected_objects : Obj(i).locked = FALSE => Obj(i).x = Obj(i).x_start + d
Still(i) == i # NoObject => Obj(i).x = Obj(i).x_start
Together ==
  /\ MoveGoesOn \/ (Away(0) /\ Still(object_selected))
  /\ object_moved = TRUE \/ Still(click_index)
  /\ \E d \in Int : Away(d)

EditInv ==
  /\ EditTypes /\ NothingPressed /\ OneInBox /\ InOrder /\ NothingHeld
  /\ stale = FALSE => (Marked \/ RectPressed) /\ Together

-----------------------------------------------------------------------------
(* The steps.                                                              *)

\* Nothing is no object.
LEMMA EmptyHasNone == Cardinality({}) = 0
BY FS_EmptySet

\* An index and its place in the list.
LEMMA TwoPlaces ==
  ASSUME EditTypes
  PROVE  /\ Len(disp_objects) \in Nat /\ Indices \subseteq Nat /\ -1 \notin Indices
         /\ \A i \in Indices : i + 1 \in 1 .. Len(disp_objects) /\ Obj(i) = disp_objects[i + 1]
         /\ \A k \in 1 .. Len(disp_objects) : k - 1 \in Indices /\ disp_objects[k] = Obj(k - 1)
         /\ \A i \in Indices :
              /\ Obj(i).x \in Int /\ Obj(i).x_start \in Int
              /\ Obj(i).selected \in BOOLEAN /\ Obj(i).locked \in BOOLEAN
<1>1. /\ Len(disp_objects) \in Nat
      /\ \A k \in 1 .. Len(disp_objects) :
           /\ disp_objects[k].x \in Int /\ disp_objects[k].x_start \in Int
           /\ disp_objects[k].selected \in BOOLEAN /\ disp_objects[k].locked \in BOOLEAN
  BY Listed DEF EditTypes
<1>2. /\ Indices \subseteq Nat /\ -1 \notin Indices
      /\ \A i \in Indices : i + 1 \in 1 .. Len(disp_objects) /\ Obj(i) = disp_objects[i + 1]
  BY <1>1 DEF Indices, Obj
<1>3. ASSUME NEW k \in 1 .. Len(disp_objects)
      PROVE  k - 1 \in Indices /\ disp_objects[k] = Obj(k - 1)
  <2>1. k \in Nat /\ k - 1 \in 0 .. Len(disp_objects) - 1 /\ (k - 1) + 1 = k
    BY <1>1
  <2> QED
    BY <2>1 DEF Indices, Obj
<1> QED
  BY <1>1, <1>2, <1>3

\* What a list with the same places keeps.
LEMMA SamePlaces ==
  ASSUME EditTypes, Kept(disp_objects, disp_objects')
  PROVE  /\ Indices' = Indices /\ disp_objects' \in Seq(HmiObjects)
         /\ \A i \in Indices : Obj(i)' = disp_objects'[i + 1] /\ Obj(i)'.name = Obj(i).name
         /\ (InOrder /\ relayered' = relayered => InOrder')
<1>1. disp_objects' \in Seq(HmiObjects) /\ Len(disp_objects') = Len(disp_objects)
  BY DEF Kept
<1>2. Indices' = Indices
  BY <1>1 DEF Indices
<1>3. \A i \in Indices : Obj(i)' = disp_objects'[i + 1] /\ Obj(i)'.name = Obj(i).name
  BY TwoPlaces DEF Kept, Obj
<1>4. InOrder /\ relayered' = relayered => InOrder'
  BY KeptInOrder DEF InOrder
<1> QED
  BY <1>1, <1>2, <1>3, <1>4

\* After everything is deselected.
LEMMA AllClear ==
  ASSUME NEW objects \in Seq(HmiObjects), disp_objects' = Unflagged(objects),
         relayered' = FALSE => Ordered(objects),
         selected_objects' = {}, object_selected' = NoObject, shown' = Closed,
         click_index' = NoObject \/ (EditInv /\ click_index' = click_index /\ Len(objects) = Len(disp_objects)),
         mouse' \in [down : BOOLEAN, start : Int], view_mode' \in {"edit", "run"},
         object_moved' \in BOOLEAN, selecting' \in BOOLEAN, stale' \in BOOLEAN,
         relayered' \in BOOLEAN,
         NothingPressed',
         stale' = FALSE /\ object_moved' = FALSE /\ click_index' # NoObject =>
           objects[click_index' + 1].x = objects[click_index' + 1].x_start
  PROVE  EditInv'
<1>1. /\ Kept(objects, disp_objects')
      /\ \A k \in 1 .. Len(objects) :
           /\ disp_objects'[k].selected = FALSE /\ disp_objects'[k].x = objects[k].x
           /\ disp_objects'[k].x_start = objects[k].x_start
  BY Unflagging, ZenonT(60)
<1>2. /\ disp_objects' \in Seq(HmiObjects) /\ Len(disp_objects') = Len(objects) /\ Len(objects) \in Nat
      /\ Indices' = 0 .. Len(objects) - 1
  BY <1>1, Listed DEF Kept, Indices
<1>3. click_index' \in Indices' \cup {NoObject}
  BY <1>2 DEF EditInv, EditTypes, Indices
<1>4. EditTypes'
  BY <1>2, <1>3 DEF EditTypes
<1>5. OneInBox' /\ NothingHeld'
  BY DEF OneInBox, NothingHeld
<1>6. InOrder'
  BY <1>1, KeptInOrder DEF InOrder
<1>7. Marked'
  <2>1. \A i \in Indices' : Obj(i)'.selected = FALSE
    BY <1>1, <1>2 DEF Obj
  <2> QED
    BY <2>1 DEF Marked
<1>8. ASSUME stale' = FALSE PROVE Together'
  <2>1. \A d : Away(d)'
    BY DEF Away
  <2>2. Still(object_selected)'
    BY DEF Still
  <2>3. ASSUME object_moved' = FALSE, click_index' # NoObject
        PROVE  Obj(click_index)'.x = Obj(click_index)'.x_start
    <3>4. click_index' \in Indices'
      BY <1>3, <2>3
    <3>2. click_index' \in 0 .. Len(objects) - 1
      BY <1>2, <3>4
    <3>3. \A n \in Nat : \A c \in 0 .. n - 1 : c + 1 \in 1 .. n
      OBVIOUS
    <3>1. click_index' + 1 \in 1 .. Len(objects)
      BY <1>2, <3>2, <3>3
    <3> QED
      BY <1>1, <1>8, <2>3, <3>1 DEF Obj
  <2>4. object_moved' = TRUE \/ Still(click_index)'
    BY <2>3 DEF Still
  <2> QED
    BY <2>1, <2>2, <2>4 DEF Together
<1> QED
  BY <1>4, <1>5, <1>6, <1>7, <1>8 DEF EditInv

\* The list may be out of order; something is found all the same.
LEMMA FindsSome ==
  ASSUME EditTypes, NEW p
  PROVE  FindIndex(p) \in Indices \cup {NoObject}
<1> DEFINE at == {i \in Indices : Obj(i).x = p}
           best == {i \in at : \A j \in at : \/ Obj(j).layer < Obj(i).layer
                                             \/ Obj(j).layer = Obj(i).layer /\ j <= i}
<1>1. FindIndex(p) = IF at = {} THEN NoObject ELSE CHOOSE k \in best : TRUE
  BY DEF FindIndex
<1>2. at \subseteq Indices
  OBVIOUS
<1>3. \A i : i \in best <=> /\ i \in at
                            /\ \A j \in at : \/ Obj(j).layer < Obj(i).layer
                                             \/ Obj(j).layer = Obj(i).layer /\ j <= i
  OBVIOUS
<1> HIDE DEF at, best
<1>4. PICK highest \in Layers : \A l \in Layers : l <= highest
  BY HmiAssumption
<1>5. /\ Len(disp_objects) \in Nat /\ Layers \subseteq Int /\ highest \in Int
      /\ \A i \in at : /\ i \in Nat /\ i <= Len(disp_objects)
                       /\ Obj(i).layer \in Layers /\ Obj(i).layer \in Int
  <2>1. \A i \in at : i + 1 \in 1 .. Len(disp_objects) /\ Obj(i) = disp_objects[i + 1] /\ i \in Nat
    BY <1>2, TwoPlaces
  <2>2. Len(disp_objects) \in Nat
    BY TwoPlaces
  <2>3. \A i \in at : i <= Len(disp_objects)
    BY <2>1, <2>2
  <2>4. \A i \in at : Obj(i).layer \in Layers
    BY <2>1, Listed DEF EditTypes
  <2> QED
    BY <1>4, <2>1, <2>2, <2>3, <2>4, HmiAssumption
<1>6. ASSUME at # {} PROVE best # {}
  <2> DEFINE below == {n \in Nat : \E i \in at : n = highest - Obj(i).layer}
  <2>1. below \subseteq Nat
    OBVIOUS
  <2>2. \A i \in at : highest - Obj(i).layer \in below
    BY <1>4, <1>5
  <2>3. \A n \in below : \E i \in at : n = highest - Obj(i).layer
    OBVIOUS
  <2>4. below # {}
    BY <1>6, <2>2
  <2> HIDE DEF below
  <2>5. PICK n \in below : \A m \in below : n <= m
    BY <2>1, <2>4, Least
  <2>6. PICK h \in at : n = highest - Obj(h).layer
    BY <2>3
  <2>7. ASSUME NEW i \in at PROVE Obj(i).layer <= Obj(h).layer
    <3>1. n <= highest - Obj(i).layer
      BY <2>2, <2>5
    <3> QED
      BY <1>5, <2>6, <3>1
  <2> DEFINE front == {i \in at : Obj(i).layer = Obj(h).layer}
             behind == {m \in Nat : \E i \in front : m = Len(disp_objects) - i}
  <2>8. behind \subseteq Nat
    OBVIOUS
  <2>9. \A i \in front : Len(disp_objects) - i \in behind
    BY <1>5
  <2>10. \A m \in behind : \E i \in front : m = Len(disp_objects) - i
    OBVIOUS
  <2>11. behind # {}
    BY <2>9
  <2> HIDE DEF behind
  <2>12. PICK m \in behind : \A k \in behind : m <= k
    BY <2>8, <2>11, Least
  <2>13. PICK i \in front : m = Len(disp_objects) - i
    BY <2>10
  <2>14. ASSUME NEW j \in front PROVE j <= i
    <3>1. m <= Len(disp_objects) - j
      BY <2>9, <2>12
    <3> QED
      BY <1>5, <2>13, <3>1
  <2>15. ASSUME NEW j \in at
         PROVE  Obj(j).layer < Obj(i).layer \/ (Obj(j).layer = Obj(i).layer /\ j <= i)
    <3>1. Obj(i).layer = Obj(h).layer /\ Obj(j).layer <= Obj(h).layer
      BY <2>7, <2>13
    <3>2. CASE Obj(j).layer = Obj(h).layer
      BY <2>14, <3>1, <3>2
    <3>3. CASE Obj(j).layer # Obj(h).layer
      BY <1>5, <3>1, <3>3
    <3> QED
      BY <3>2, <3>3
  <2>16. i \in best
    BY <1>3, <2>15
  <2> QED
    BY <2>16
<1>7. best \subseteq at
  BY <1>3
<1>8. CASE at = {}
  BY <1>1, <1>8
<1>9. CASE at # {}
  <2>1. (CHOOSE k \in best : TRUE) \in best
    BY <1>6, <1>9
  <2> QED
    BY <1>1, <1>2, <1>7, <1>9, <2>1
<1> QED
  BY <1>8, <1>9

\* Everything is deselected, whatever else became of the objects.
LEMMA Clearing ==
  ASSUME EditInv, NEW objects \in Seq(HmiObjects), Clear(objects),
         Len(objects) = Len(disp_objects), relayered = FALSE => Ordered(objects),
         \A k \in 1 .. Len(objects) :
           objects[k].x = disp_objects[k].x /\ objects[k].x_start = disp_objects[k].x_start,
         UNCHANGED <<view_mode, relayered>>,
         \/ UNCHANGED <<click_index, mouse, object_moved>>
         \/ Released
  PROVE  EditInv'
<1>1. /\ disp_objects' = Unflagged(objects) /\ selected_objects' = {} /\ object_selected' = NoObject
      /\ selecting' \in BOOLEAN /\ relayered' \in BOOLEAN /\ view_mode' \in {"edit", "run"}
      /\ relayered' = FALSE => Ordered(objects)
  BY DEF Clear, EditInv, EditTypes
<1>2. stale' \in BOOLEAN /\ (stale' = FALSE => stale = FALSE \/ mouse.down = FALSE)
  BY DEF Clear, EditInv, EditTypes
<1>3. shown' = Closed
  <2>1. CASE Cardinality(selected_objects) > 1
    BY <2>1 DEF Clear, EditInv, OneInBox
  <2>2. CASE ~(Cardinality(selected_objects) > 1)
    BY <2>2 DEF Clear
  <2> QED
    BY <2>1, <2>2
<1>4. CASE UNCHANGED <<click_index, mouse, object_moved>>
  <2>1. /\ mouse' \in [down : BOOLEAN, start : Int] /\ object_moved' \in BOOLEAN
        /\ NothingPressed'
    BY <1>4 DEF EditInv, EditTypes, NothingPressed
  <2>2. ASSUME stale' = FALSE, object_moved' = FALSE, click_index' # NoObject
        PROVE  objects[click_index' + 1].x = objects[click_index' + 1].x_start
    <3>1. click_index \in Indices /\ click_index # NoObject /\ click_index' = click_index
      BY <1>4, <2>2 DEF EditInv, EditTypes
    <3>2. stale = FALSE
      BY <1>2, <2>2, <3>1 DEF EditInv, NothingPressed
    <3>3. Still(click_index)
      BY <1>4, <2>2, <3>2 DEF EditInv, EditTypes, Together
    <3>4. /\ click_index + 1 \in 1 .. Len(disp_objects)
          /\ disp_objects[click_index + 1].x = disp_objects[click_index + 1].x_start
      BY <3>1, <3>3, TwoPlaces DEF Still, EditInv
    <3> QED
      BY <3>1, <3>4
  <2> QED
    BY <1>1, <1>2, <1>3, <1>4, <2>1, <2>2, AllClear
<1>5. CASE Released
  <2>1. /\ mouse' \in [down : BOOLEAN, start : Int] /\ object_moved' \in BOOLEAN
        /\ click_index' = NoObject /\ NothingPressed'
    <3>1. mouse' = [down |-> FALSE, start |-> 0] /\ click_index' = NoObject /\ object_moved' = FALSE
      BY <1>5 DEF Released
    <3>3. [down |-> FALSE, start |-> 0] \in [down : BOOLEAN, start : Int]
      OBVIOUS
    <3>2. mouse' \in [down : BOOLEAN, start : Int] /\ object_moved' \in BOOLEAN
      BY <3>1, <3>3
    <3> QED
      BY <3>1, <3>2 DEF NothingPressed
  <2> QED
    BY <1>1, <1>2, <1>3, <2>1, AllClear
<1> QED
  BY <1>4, <1>5

\* The key deselects.
LEMMA Escaping ==
  ASSUME EditInv, Escape
  PROVE  EditInv'
<1>1. disp_objects \in Seq(HmiObjects) /\ (relayered = FALSE => Ordered(disp_objects))
  BY DEF EditInv, EditTypes, InOrder
<1>2. Clear(disp_objects) /\ UNCHANGED <<view_mode, relayered>>
      /\ UNCHANGED <<click_index, mouse, object_moved>>
  BY DEF Escape
<1> QED
  BY <1>1, <1>2, Clearing

\* A lock is set and everything deselected.
LEMMA LockIsSet ==
  ASSUME EditInv, NEW l \in BOOLEAN, SetLock(l)
  PROVE  EditInv'
<1>1. PICK objects : objects = LockedAs(disp_objects, selected_objects, l)
  OBVIOUS
<1>2. disp_objects \in Seq(HmiObjects) /\ (relayered = FALSE => Ordered(disp_objects))
  BY DEF EditInv, EditTypes, InOrder
<1>3. /\ Kept(disp_objects, objects)
      /\ \A k \in 1 .. Len(disp_objects) :
           objects[k].x = disp_objects[k].x /\ objects[k].x_start = disp_objects[k].x_start
  <2>1. disp_objects \in Seq(HmiObjects)
    BY <1>2
  <2> QED
    BY <1>1, <2>1, Locking
<1>4. /\ objects \in Seq(HmiObjects) /\ Len(objects) = Len(disp_objects)
      /\ relayered = FALSE => Ordered(objects)
  BY <1>2, <1>3, KeptInOrder DEF Kept
<1>5. Clear(objects) /\ UNCHANGED <<view_mode, relayered>>
      /\ UNCHANGED <<click_index, mouse, object_moved>>
  BY <1>1 DEF SetLock, LockedAs
<1> QED
  BY <1>3, <1>4, <1>5, Clearing

\* The mode changes with the button up.
LEMMA ModeIsSet ==
  ASSUME EditInv, NEW m \in {"edit", "run"}, SetMode(m)
  PROVE  EditInv'
<1>1. /\ mouse.down = FALSE /\ view_mode' = m
      /\ UNCHANGED <<disp_objects, ui_mode, selected_objects, object_selected, click_index, mouse>>
      /\ UNCHANGED <<object_moved, selecting, shown, stale, relayered>>
  BY DEF SetMode, EditInv, EditTypes, pressVars
<1>2. EditTypes'
  BY <1>1 DEF EditInv, EditTypes, Indices
<1>3. NothingPressed' /\ OneInBox' /\ InOrder' /\ NothingHeld'
  BY <1>1 DEF EditInv, NothingPressed, OneInBox, InOrder, NothingHeld, Drawing
<1>4. ASSUME stale' = FALSE PROVE Marked' /\ Together'
  <2>1. Marked /\ Together
    BY <1>1, <1>4 DEF EditInv, RectPressed
  <2>2. Marked'
    BY <1>1, <2>1 DEF Marked, Indices, Obj
  <2>3. Together'
    BY <1>1, <2>1 DEF Together, MoveGoesOn, Away, Still, Obj
  <2> QED
    BY <2>2, <2>3
<1> QED
  BY <1>2, <1>3, <1>4 DEF EditInv

\* The button goes down where no object is.
LEMMA PressedOpen ==
  ASSUME EditInv, NEW p \in Points, PressOpen(p)
  PROVE  EditInv'
<1>1. /\ disp_objects \in Seq(HmiObjects) /\ (relayered = FALSE => Ordered(disp_objects))
      /\ relayered \in BOOLEAN /\ stale \in BOOLEAN /\ view_mode \in {"edit", "run"}
  BY DEF EditInv, EditTypes, InOrder
<1>2. PICK x \in Points, l \in Layers :
        LET held == Cardinality(selected_objects) = 1 /\ view_mode = "edit" /\ shown # Closed
            edited == IF held THEN SavedInto(selected_objects, x, l) ELSE disp_objects
        IN  /\ disp_objects' = Unflagged(edited)
            /\ relayered' = (relayered \/ \E k \in DOMAIN edited : edited[k].layer # disp_objects[k].layer)
  BY DEF PressOpen
<1>3. PICK held : held = SavedAs(disp_objects, selected_objects, x, l)
  OBVIOUS
<1>4. held = SavedInto(selected_objects, x, l)
  BY <1>3 DEF SavedAs, SavedInto
<1>5. held \in Seq(HmiObjects) /\ Len(held) = Len(disp_objects)
  <2>1. disp_objects \in Seq(HmiObjects)
    BY <1>1
  <2> QED
    BY <1>3, <2>1, Saving
<1>6. \E edited \in {held, disp_objects} :
        /\ disp_objects' = Unflagged(edited)
        /\ relayered' = (relayered \/ \E k \in DOMAIN edited : edited[k].layer # disp_objects[k].layer)
  BY <1>2, <1>4
<1>7. PICK edited \in {held, disp_objects} :
        /\ disp_objects' = Unflagged(edited)
        /\ relayered' = (relayered \/ \E k \in DOMAIN edited : edited[k].layer # disp_objects[k].layer)
  BY <1>6
<1>8. edited \in Seq(HmiObjects) /\ Len(edited) = Len(disp_objects)
  BY <1>1, <1>5
<1>9. relayered' = FALSE => Ordered(edited)
  <2>1. DOMAIN edited = 1 .. Len(disp_objects)
    BY <1>8, Listed
  <2>2. ASSUME relayered' = FALSE
        PROVE  \A k \in 1 .. Len(disp_objects) : edited[k].layer = disp_objects[k].layer
    BY <1>7, <2>1, <2>2
  <2>3. relayered' = FALSE => relayered = FALSE
    BY <1>1, <1>7
  <2>4. ASSUME relayered' = FALSE PROVE Ordered(edited)
    <3>1. Ordered(disp_objects) /\ Len(edited) = Len(disp_objects)
      BY <1>1, <1>8, <2>3, <2>4
    <3>2. \A k \in 1 .. Len(disp_objects) : edited[k].layer = disp_objects[k].layer
      BY <2>2, <2>4
    <3> QED
      BY <3>1, <3>2 DEF Ordered
  <2> QED
    BY <2>4
<1>10. /\ selected_objects' = {} /\ object_selected' = NoObject /\ click_index' = NoObject
       /\ mouse' = [down |-> TRUE, start |-> p] /\ object_moved' = FALSE
       /\ selecting' = (view_mode = "edit") /\ stale' = (stale /\ mouse.down) /\ view_mode' = view_mode
       /\ shown' = (IF Cardinality(selected_objects) > 1 THEN shown ELSE Closed)
  BY DEF PressOpen, Presses
<1>11. shown' = Closed
  <2>1. CASE Cardinality(selected_objects) > 1
    BY <2>1, <1>10 DEF EditInv, OneInBox
  <2>2. CASE ~(Cardinality(selected_objects) > 1)
    BY <2>2, <1>10
  <2> QED
    BY <2>1, <2>2
<1>12. [down |-> TRUE, start |-> p] \in [down : BOOLEAN, start : Int]
  BY HmiAssumption
<1>13. mouse.down \in BOOLEAN
  BY DEF EditInv, EditTypes
<1>14. relayered' \in BOOLEAN /\ stale' \in BOOLEAN /\ selecting' \in BOOLEAN
  BY <1>1, <1>7, <1>10, <1>13
<1>15. /\ mouse' \in [down : BOOLEAN, start : Int] /\ view_mode' \in {"edit", "run"}
       /\ object_moved' \in BOOLEAN /\ NothingPressed'
  BY <1>1, <1>10, <1>12 DEF NothingPressed
<1> QED
  BY <1>7, <1>8, <1>9, <1>10, <1>11, <1>14, <1>15, AllClear

\* The button goes down on the object it was on before.
LEMMA PressedAgain ==
  ASSUME EditInv, NEW p \in Points, PressAgain(p)
  PROVE  EditInv'
<1>1. /\ mouse.down = FALSE /\ mouse' = [down |-> TRUE, start |-> p] /\ object_moved' = FALSE
      /\ click_index' = object_selected /\ object_selected # NoObject /\ object_selected' = object_selected
      /\ UNCHANGED <<disp_objects, view_mode, selected_objects, selecting, shown, stale, relayered>>
  BY DEF PressAgain, Presses, EditInv, EditTypes
<1>2. [down |-> TRUE, start |-> p] \in [down : BOOLEAN, start : Int]
  BY HmiAssumption
<1>3. EditTypes'
  BY <1>1, <1>2 DEF EditInv, EditTypes, Indices
<1>4. NothingPressed' /\ OneInBox' /\ InOrder' /\ NothingHeld'
  BY <1>1 DEF EditInv, NothingPressed, OneInBox, InOrder, NothingHeld, Drawing
<1>5. ASSUME stale' = FALSE PROVE Marked' /\ Together'
  <2>1. Marked /\ Away(0) /\ Still(object_selected)
    BY <1>1, <1>5 DEF EditInv, RectPressed, Together, MoveGoesOn
  <2>2. Marked'
    BY <1>1, <2>1 DEF Marked, Indices, Obj
  <2>3. Away(0)' /\ Still(object_selected)' /\ Still(click_index)'
    BY <1>1, <2>1 DEF Away, Still, Obj
  <2> QED
    BY <2>2, <2>3 DEF Together
<1> QED
  BY <1>3, <1>4, <1>5 DEF EditInv

\* The button goes down on another object.
LEMMA PressedObject ==
  ASSUME EditInv, NEW p \in Points, PressObject(p)
  PROVE  EditInv'
<1>1. /\ mouse.down = FALSE /\ mouse' = [down |-> TRUE, start |-> p] /\ object_moved' = FALSE
      /\ UNCHANGED <<view_mode, ui_mode, selected_objects, selecting, shown, stale, relayered>>
  BY DEF PressObject, Presses, EditInv, EditTypes
<1>2. [down |-> TRUE, start |-> p] \in [down : BOOLEAN, start : Int]
  BY HmiAssumption
<1>3. PICK f : f = FindIndex(p)
  OBVIOUS
<1>4. f \in Indices /\ f # NoObject
  BY <1>3, FindsSome DEF PressObject, EditInv
<1>5. disp_objects \in Seq(HmiObjects) /\ EditTypes /\ relayered' = relayered
  BY <1>1 DEF EditInv, EditTypes
<1>6. stale = FALSE => Marked /\ Away(0) /\ Still(object_selected)
  BY <1>1 DEF EditInv, RectPressed, Together, MoveGoesOn
<1>7. CASE /\ view_mode = "run" /\ disp_objects' = Unflagged(disp_objects)
           /\ click_index' = NoObject /\ UNCHANGED object_selected
  <2>1. /\ Kept(disp_objects, disp_objects')
        /\ \A k \in 1 .. Len(disp_objects) :
             /\ disp_objects'[k].x = disp_objects[k].x
             /\ disp_objects'[k].x_start = disp_objects[k].x_start
             /\ disp_objects'[k].locked = disp_objects[k].locked
    BY <1>5, <1>7, Unflagging
  <2>2. Indices' = Indices /\ disp_objects' \in Seq(HmiObjects) /\ (InOrder => InOrder')
    BY <1>5, <2>1, SamePlaces
  <2>3. EditTypes'
    BY <1>1, <1>2, <1>7, <2>2 DEF EditInv, EditTypes
  <2>4. NothingPressed' /\ OneInBox' /\ InOrder' /\ NothingHeld'
    BY <1>1, <1>7, <2>2 DEF EditInv, NothingPressed, OneInBox, NothingHeld, Drawing
  <2>5. RectPressed'
    BY <1>1, <1>7 DEF RectPressed
  <2>6. \A i \in Indices : /\ Obj(i)'.x = Obj(i).x /\ Obj(i)'.x_start = Obj(i).x_start
                           /\ Obj(i)'.locked = Obj(i).locked
    BY <1>5, <2>1, TwoPlaces DEF Obj
  <2>7. ASSUME stale' = FALSE PROVE Together'
    <3>1. Away(0) /\ Still(object_selected) /\ selected_objects \subseteq Indices
          /\ object_selected \in Indices \cup {NoObject}
      BY <1>1, <1>5, <1>6, <2>7 DEF EditTypes
    <3>2. Away(0)'
      BY <1>1, <2>6, <3>1 DEF Away
    <3>3. Still(object_selected)'
      BY <1>7, <2>6, <3>1 DEF Still
    <3>4. Still(click_index)'
      BY <1>7 DEF Still
    <3> QED
      BY <3>2, <3>3, <3>4 DEF Together
  <2> QED
    BY <2>3, <2>4, <2>5, <2>7 DEF EditInv
<1>8. CASE disp_objects' = Started(disp_objects, {f}) /\ click_index' = f /\ object_selected' = f
  <2>1. /\ Kept(disp_objects, disp_objects')
        /\ \A k \in 1 .. Len(disp_objects) :
             /\ disp_objects'[k].selected = disp_objects[k].selected
             /\ disp_objects'[k].x = disp_objects[k].x
             /\ disp_objects'[k].x_start = (IF k - 1 \in {f} THEN disp_objects[k].x
                                                             ELSE disp_objects[k].x_start)
             /\ disp_objects'[k].locked = disp_objects[k].locked
    BY <1>5, <1>8, Starting
  <2>2. /\ Indices' = Indices /\ disp_objects' \in Seq(HmiObjects) /\ (InOrder => InOrder')
        /\ \A i \in Indices : Obj(i)'.name = Obj(i).name
    BY <1>5, <2>1, SamePlaces
  <2>3. EditTypes'
    BY <1>1, <1>2, <1>4, <1>8, <2>2 DEF EditInv, EditTypes
  <2>4. NothingPressed' /\ OneInBox' /\ InOrder' /\ NothingHeld'
    BY <1>1, <1>4, <1>8, <2>2 DEF EditInv, NothingPressed, OneInBox, NothingHeld, Drawing
  <2>5. ASSUME NEW i \in Indices
        PROVE  /\ Obj(i)'.x = Obj(i).x /\ Obj(i)'.locked = Obj(i).locked
               /\ Obj(i)'.selected = Obj(i).selected
               /\ Obj(i)'.x_start = (IF i = f THEN Obj(i).x ELSE Obj(i).x_start)
    <3>1. i + 1 \in 1 .. Len(disp_objects) /\ Obj(i) = disp_objects[i + 1] /\ (i + 1) - 1 = i
      BY <1>5, TwoPlaces
    <3>2. Obj(i)' = disp_objects'[i + 1]
      BY DEF Obj
    <3> QED
      BY <2>1, <3>1, <3>2
  <2>6. ASSUME stale' = FALSE PROVE Marked' /\ Together'
    <3>1. /\ Marked /\ Away(0) /\ selected_objects \subseteq Indices
          /\ selected_objects' = selected_objects /\ shown' = shown
      BY <1>1, <1>5, <1>6, <2>6 DEF EditTypes
    <3>2. Marked'
      BY <2>2, <2>5, <3>1 DEF Marked
    <3>3. Away(0)'
      <4>1. \A i \in selected_objects : Obj(i).locked = FALSE => Obj(i).x = Obj(i).x_start
        <5>1. \A i \in Indices : Obj(i).x_start \in Int
          BY <1>5, TwoPlaces
        <5> QED
          BY <3>1, <5>1 DEF Away
      <4>2. \A i \in selected_objects : Obj(i)'.locked = FALSE => Obj(i)'.x = Obj(i)'.x_start
        BY <2>5, <3>1, <4>1
      <4>3. \A i \in selected_objects : Obj(i)'.x_start \in Int
        BY <2>5, <3>1, <1>5, TwoPlaces
      <4> QED
        BY <3>1, <4>2, <4>3 DEF Away
    <3>4. Obj(f)'.x = Obj(f)'.x_start
      BY <1>4, <2>5
    <3>5. Still(click_index)' /\ Still(object_selected)'
      BY <1>8, <3>4 DEF Still
    <3> QED
      BY <3>2, <3>3, <3>5 DEF Together
  <2> QED
    BY <2>3, <2>4, <2>6 DEF EditInv
<1> QED
  BY <1>3, <1>7, <1>8 DEF PressObject

\* The mouse moves with the button down.
LEMMA Moved ==
  ASSUME EditInv, NEW p \in Points, MouseMove(p)
  PROVE  EditInv'
<1>1. /\ mouse.down = TRUE /\ view_mode = "edit" /\ object_moved \in BOOLEAN /\ object_moved' \in BOOLEAN
      /\ object_moved' = FALSE => object_moved = FALSE /\ p = mouse.start
      /\ UNCHANGED <<view_mode, selected_objects, mouse, selecting, shown, stale, relayered>>
  BY DEF MouseMove, EditInv, EditTypes
<1>2. PICK pressed : pressed = IF object_selected # NoObject /\ Obj(object_selected).locked THEN NoObject
                               ELSE object_selected
  OBVIOUS
<1>3. pressed = NoObject \/ pressed = object_selected
  BY <1>2
<1>4. disp_objects \in Seq(HmiObjects) /\ EditTypes /\ relayered' = relayered
      /\ object_selected \in Indices \cup {NoObject} /\ selected_objects \subseteq Indices
  BY <1>1 DEF EditInv, EditTypes
<1>5. stale = FALSE => Marked /\ Together
  BY <1>1 DEF EditInv, RectPressed
<1>6. CASE /\ object_selected' = pressed
           /\ ui_mode = "resize" \/ (selected_objects = {} /\ pressed = NoObject)
           /\ UNCHANGED <<disp_objects, click_index, ui_mode>>
  <2>1. EditTypes'
    BY <1>1, <1>3, <1>6 DEF EditInv, EditTypes, Indices
  <2>2. NothingPressed' /\ OneInBox' /\ InOrder'
    BY <1>1, <1>6 DEF EditInv, NothingPressed, OneInBox, InOrder
  <2>3. NothingHeld'
    BY <1>1, <1>6 DEF NothingHeld, Drawing
  <2>4. ASSUME stale' = FALSE PROVE Marked' /\ Together'
    <3>1. Marked /\ Together
      BY <1>1, <1>5, <2>4
    <3>2. Marked'
      BY <1>1, <1>6, <3>1 DEF Marked, Indices, Obj
    <3>3. \A d : Away(d)' <=> Away(d)
      BY <1>1, <1>6 DEF Away, Obj
    <3>4. Still(object_selected) => Still(object_selected)'
      BY <1>3, <1>6 DEF Still, Obj
    <3>5. Still(click_index)' <=> Still(click_index)
      BY <1>6 DEF Still, Obj
    <3>6. object_moved = TRUE => object_moved' = TRUE
      BY <1>1
    <3> QED
      BY <1>1, <1>6, <3>1, <3>2, <3>3, <3>4, <3>5, <3>6 DEF Together, MoveGoesOn
  <2> QED
    BY <2>1, <2>2, <2>3, <2>4 DEF EditInv
<1>7. CASE /\ object_selected' = pressed /\ click_index' = pressed /\ ui_mode' = "move"
           /\ disp_objects' = Dragged(p, Moving(pressed))
           /\ \A i \in Indices : disp_objects'[i + 1].x \in Points
  <2>1. PICK is : is = Moving(pressed)
    OBVIOUS
  <2>2. p \in Int /\ mouse.start \in Int
    BY HmiAssumption DEF EditInv, EditTypes
  <2>3. disp_objects' = DraggedBy(disp_objects, is, p, mouse.start)
    BY <1>7, <2>1 DEF Dragged, DraggedBy
  <2>4. \A k \in 1 .. Len(disp_objects) : disp_objects'[k].x \in Points
    <3>1. ASSUME NEW k \in 1 .. Len(disp_objects) PROVE disp_objects'[k].x \in Points
      <4>1. k - 1 \in Indices /\ (k - 1) + 1 = k
        BY <1>4, TwoPlaces
      <4> QED
        BY <1>7, <4>1
    <3> QED
      BY <3>1
  <2>5. /\ Kept(disp_objects, disp_objects')
        /\ \A k \in 1 .. Len(disp_objects) :
             /\ disp_objects'[k].selected = disp_objects[k].selected
             /\ disp_objects'[k].x_start = disp_objects[k].x_start
             /\ disp_objects'[k].x = (IF k - 1 \in is THEN disp_objects[k].x_start + p - mouse.start
                                                      ELSE disp_objects[k].x)
             /\ disp_objects'[k].locked = disp_objects[k].locked
    <3>1. disp_objects \in Seq(HmiObjects)
      BY <1>4
    <3> QED
      BY <2>2, <2>3, <2>4, <3>1, Dragging
  <2>6. /\ Indices' = Indices /\ disp_objects' \in Seq(HmiObjects) /\ (InOrder => InOrder')
        /\ \A i \in Indices : Obj(i)'.name = Obj(i).name
    BY <1>4, <2>5, SamePlaces
  <2>7. EditTypes'
    BY <1>1, <1>3, <1>7, <2>6 DEF EditInv, EditTypes
  <2>8. NothingPressed' /\ OneInBox' /\ InOrder' /\ NothingHeld'
    BY <1>1, <1>7, <2>6 DEF EditInv, NothingPressed, OneInBox, NothingHeld, Drawing
  <2>9. ASSUME NEW i \in Indices
        PROVE  /\ Obj(i)'.locked = Obj(i).locked /\ Obj(i)'.selected = Obj(i).selected
               /\ Obj(i)'.x_start = Obj(i).x_start /\ Obj(i).x_start \in Int
               /\ Obj(i)'.x = (IF i \in is THEN Obj(i).x_start + p - mouse.start ELSE Obj(i).x)
    <3>1. i + 1 \in 1 .. Len(disp_objects) /\ Obj(i) = disp_objects[i + 1] /\ (i + 1) - 1 = i
      BY <1>4, TwoPlaces
    <3>2. Obj(i)' = disp_objects'[i + 1]
      BY DEF Obj
    <3>3. Obj(i).x_start \in Int
      BY <1>4, TwoPlaces
    <3> QED
      BY <2>5, <3>1, <3>2, <3>3
  <2>10. \A i \in selected_objects : Obj(i).locked = FALSE => i \in is
    <3>1. ASSUME NEW i \in selected_objects, Obj(i).locked = FALSE PROVE i \in is
      <4>1. is = {k \in selected_objects : ~Obj(k).locked}
        BY <2>1, <3>1 DEF Moving
      <4> QED
        BY <3>1, <4>1
    <3> QED
      BY <3>1
  <2>11. ASSUME stale' = FALSE PROVE Marked'
    BY <1>1, <1>4, <1>5, <2>6, <2>9, <2>11 DEF Marked
  <2>15. PICK d \in Int : d = p - mouse.start
    BY <2>2
  <2>12. Away(d)'
    <3>1. ASSUME NEW i \in selected_objects, Obj(i)'.locked = FALSE
          PROVE  Obj(i)'.x = Obj(i)'.x_start + d
      <4>1. i \in Indices /\ i \in is
        BY <1>4, <2>9, <2>10, <3>1
      <4> QED
        BY <2>2, <2>9, <2>15, <4>1
    <3> QED
      BY <1>1, <3>1 DEF Away
  <2>13. ASSUME stale' = FALSE, object_moved' = FALSE
         PROVE  Away(0)' /\ Still(pressed)'
    <3>1. p = mouse.start /\ Away(0) /\ Still(object_selected)
      BY <1>1, <1>5, <2>13 DEF Together, MoveGoesOn
    <3>2. d = 0
      BY <2>2, <2>15, <3>1
    <3>3. Away(0)'
      BY <2>12, <3>2
    <3>4. ASSUME pressed # NoObject PROVE Obj(pressed)'.x = Obj(pressed)'.x_start
      <4>1. pressed \in Indices /\ Obj(pressed).x = Obj(pressed).x_start
        BY <1>3, <1>4, <3>1, <3>4 DEF Still
      <4>2. \/ Obj(pressed)'.x = Obj(pressed).x_start + p - mouse.start
            \/ Obj(pressed)'.x = Obj(pressed).x
        BY <2>9, <4>1
      <4>3. Obj(pressed)'.x_start = Obj(pressed).x_start /\ Obj(pressed).x_start \in Int
        BY <2>9, <4>1
      <4>4. Obj(pressed).x_start + p - mouse.start = Obj(pressed).x_start
        BY <2>2, <3>1, <4>3
      <4> QED
        BY <4>1, <4>2, <4>3, <4>4
    <3> QED
      BY <3>3, <3>4 DEF Still
  <2>14. ASSUME stale' = FALSE PROVE Together'
    <3>1. \E e \in Int : Away(e)'
      BY <2>12
    <3>2. object_selected' = pressed /\ click_index' = pressed
      BY <1>7
    <3>3. MoveGoesOn' \/ object_moved' = FALSE
      BY <1>1, <1>7 DEF MoveGoesOn
    <3>4. object_moved' = FALSE => Away(0)' /\ Still(object_selected)' /\ Still(click_index)'
      BY <2>13, <2>14, <3>2 DEF Still
    <3> QED
      BY <1>1, <3>1, <3>3, <3>4 DEF Together
  <2> QED
    BY <2>7, <2>8, <2>11, <2>14 DEF EditInv
<1> QED
  BY <1>2, <1>6, <1>7 DEF MouseMove

\* The release of the button.
LEMMA ReleasedButton ==
  ASSUME Released
  PROVE  /\ mouse' \in [down : BOOLEAN, start : Int] /\ mouse'.down = FALSE
         /\ object_moved' = FALSE /\ click_index' = NoObject /\ NothingPressed' /\ NothingHeld'
<1>1. mouse' = [down |-> FALSE, start |-> 0] /\ click_index' = NoObject /\ object_moved' = FALSE
  BY DEF Released
<1>2. [down |-> FALSE, start |-> 0] \in [down : BOOLEAN, start : Int]
  OBVIOUS
<1>3. mouse'.down = FALSE
  BY <1>1
<1>4. mouse' \in [down : BOOLEAN, start : Int]
  BY <1>1, <1>2
<1> QED
  BY <1>1, <1>3, <1>4 DEF NothingPressed, NothingHeld, Drawing

\* A click selects or deselects one object.
LEMMA Click ==
  ASSUME EditInv, ReleaseClick
  PROVE  EditInv'
<1>1. /\ Released /\ click_index # NoObject /\ object_moved = FALSE
      /\ UNCHANGED <<view_mode, object_selected, selecting, stale, relayered>>
  BY DEF ReleaseClick, Clicked, EditInv, EditTypes
<1>2. PICK i : i = click_index
  OBVIOUS
<1>3. PICK new : new = IF i \in selected_objects THEN selected_objects \ {i}
                       ELSE selected_objects \cup {i}
  OBVIOUS
<1>4. PICK on \in BOOLEAN : on = (i \in new)
  <2>1. (i \in new) \in BOOLEAN
    OBVIOUS
  <2> QED
    BY <2>1
<1>5. /\ i \in Indices /\ EditTypes /\ disp_objects \in Seq(HmiObjects) /\ selected_objects \subseteq Indices
      /\ object_selected \in Indices \cup {NoObject} /\ relayered' = relayered
  BY <1>1, <1>2 DEF EditInv, EditTypes
<1>6. new \subseteq Indices
  BY <1>3, <1>5
<1>7. /\ selected_objects' = new
      /\ disp_objects' = With(disp_objects, {i}, LAMBDA o : [o EXCEPT !.selected = i \in new])
      /\ shown' = Shown(new)
  BY <1>2, <1>3 DEF ReleaseClick
<1>8. disp_objects' = MarkedAs(disp_objects, {i}, on)
  BY <1>4, <1>7 DEF MarkedAs, With
<1>9. /\ Kept(disp_objects, disp_objects')
      /\ \A k \in 1 .. Len(disp_objects) :
           /\ disp_objects'[k].selected = (IF k - 1 \in {i} THEN on ELSE disp_objects[k].selected)
           /\ disp_objects'[k].x = disp_objects[k].x /\ disp_objects'[k].x_start = disp_objects[k].x_start
           /\ disp_objects'[k].locked = disp_objects[k].locked
  BY <1>5, <1>8, Flagging
<1>10. /\ Indices' = Indices /\ disp_objects' \in Seq(HmiObjects) /\ (InOrder => InOrder')
       /\ \A j \in Indices : Obj(j)'.name = Obj(j).name
  BY <1>5, <1>9, SamePlaces
<1>11. EditTypes'
  BY <1>1, <1>6, <1>7, <1>10, ReleasedButton DEF EditInv, EditTypes
<1>12. OneInBox'
  BY <1>7 DEF OneInBox, Shown
<1>13. NothingPressed' /\ InOrder' /\ NothingHeld'
  BY <1>1, <1>10, ReleasedButton DEF EditInv
<1>14. ASSUME NEW j \in Indices
       PROVE  /\ Obj(j)'.x = Obj(j).x /\ Obj(j)'.x_start = Obj(j).x_start
              /\ Obj(j)'.locked = Obj(j).locked /\ Obj(j).x_start \in Int
              /\ Obj(j)'.selected = (IF j = i THEN on ELSE Obj(j).selected)
  <2>1. j + 1 \in 1 .. Len(disp_objects) /\ Obj(j) = disp_objects[j + 1] /\ (j + 1) - 1 = j
    BY <1>5, TwoPlaces
  <2>2. Obj(j)' = disp_objects'[j + 1]
    BY DEF Obj
  <2>3. Obj(j).x_start \in Int
    BY <1>5, TwoPlaces
  <2> QED
    BY <1>9, <2>1, <2>2, <2>3
<1>15. ASSUME stale' = FALSE PROVE Marked' /\ Together'
  <2>1. Marked /\ Away(0) /\ Still(object_selected) /\ Still(i)
    BY <1>1, <1>2, <1>15 DEF EditInv, RectPressed, Together, MoveGoesOn
  <2>2. \A j \in Indices : j \in new <=> Obj(j)'.selected = TRUE
    <3>1. ASSUME NEW j \in Indices PROVE j \in new <=> Obj(j)'.selected = TRUE
      <4>1. CASE j = i
        BY <1>4, <1>14, <4>1
      <4>2. CASE j # i
        <5>1. j \in new <=> j \in selected_objects
          BY <1>3, <4>2
        <5>2. Obj(j)'.selected = Obj(j).selected
          BY <1>14, <4>2
        <5>3. j \in selected_objects <=> Obj(j).selected = TRUE
          BY <2>1 DEF Marked
        <5> QED
          BY <5>1, <5>2, <5>3
      <4> QED
        BY <4>1, <4>2
    <3> QED
      BY <3>1
  <2>3. ASSUME shown' # Closed, NEW j \in new PROVE Obj(j)'.name = shown'
    <3>1. Cardinality(new) = 1 /\ shown' = Obj(CHOOSE k \in new : TRUE).name
      BY <1>7, <2>3 DEF Shown
    <3>2. PICK c : c = CHOOSE k \in new : TRUE
      OBVIOUS
    <3>3. c \in new
      BY <2>3, <3>2
    <3>4. IsFiniteSet(new)
      <4>1. Indices \in SUBSET (0 .. Len(disp_objects) - 1) /\ Len(disp_objects) \in Nat
        BY <1>5, TwoPlaces DEF Indices
      <4>2. IsFiniteSet(0 .. Len(disp_objects) - 1)
        BY <4>1, FS_Interval
      <4> QED
        BY <1>6, <4>1, <4>2, FS_Subset
    <3>5. j = c
      BY <2>3, <3>1, <3>3, <3>4, FS_Singleton
    <3> QED
      BY <1>6, <1>10, <3>1, <3>2, <3>5
  <2>4. Marked'
    BY <1>7, <1>10, <2>2, <2>3 DEF Marked
  <2>5. Obj(i).x = Obj(i).x_start
    BY <1>1, <1>2, <2>1 DEF Still
  <2>6. \A j \in new : Obj(j)'.locked = FALSE => Obj(j)'.x = Obj(j)'.x_start
    <3>1. ASSUME NEW j \in new, Obj(j)'.locked = FALSE PROVE Obj(j)'.x = Obj(j)'.x_start
      <4>1. j \in Indices /\ (j = i \/ j \in selected_objects)
        BY <1>3, <1>6
      <4>2. Obj(j).x = Obj(j).x_start
        <5>1. CASE j = i
          BY <2>5, <5>1
        <5>2. CASE j \in selected_objects
          <6>1. Obj(j).locked = FALSE /\ Obj(j).x_start \in Int
            BY <1>14, <3>1, <4>1
          <6>2. Obj(j).x = Obj(j).x_start + 0
            BY <2>1, <5>2, <6>1 DEF Away
          <6> QED
            BY <6>1, <6>2
        <5> QED
          BY <4>1, <5>1, <5>2
      <4> QED
        BY <1>14, <4>1, <4>2
    <3> QED
      BY <3>1
  <2>7. Away(0)'
    <3>1. \A j \in new : Obj(j)'.x_start \in Int
      BY <1>6, <1>14
    <3>2. \A j \in new : Obj(j)'.locked = FALSE => Obj(j)'.x = Obj(j)'.x_start + 0
      BY <2>6, <3>1
    <3> QED
      BY <1>7, <3>2 DEF Away
  <2>8. Still(object_selected)'
    <3>1. object_selected' = object_selected
      BY <1>1
    <3> QED
      BY <1>5, <1>14, <2>1, <3>1 DEF Still
  <2>9. Still(click_index)'
    BY <1>1, ReleasedButton DEF Still
  <2> QED
    BY <2>4, <2>7, <2>8, <2>9 DEF Together
<1> QED
  BY <1>11, <1>12, <1>13, <1>15 DEF EditInv

\* A rectangle selects what is in it.
LEMMA Group ==
  ASSUME EditInv, NEW p \in Points, ReleaseGroup(p)
  PROVE  EditInv'
<1>1. /\ Released /\ view_mode = "edit" /\ mouse.down = TRUE
      /\ UNCHANGED <<view_mode, ui_mode, object_selected, selecting, shown, stale, relayered>>
  BY DEF ReleaseGroup, Released, EditInv, EditTypes
<1>2. Drawing
  BY <1>1 DEF ReleaseGroup, Drawing, Clicked, EditInv, EditTypes
<1>3. selected_objects = {} /\ object_selected = NoObject
  BY <1>2 DEF EditInv, NothingHeld
<1>4. shown = Closed
  BY <1>3, EmptyHasNone DEF EditInv, OneInBox
<1>5. PICK is : is = Between(mouse.start, p)
  OBVIOUS
<1>6. is \subseteq Indices /\ EditTypes /\ disp_objects \in Seq(HmiObjects) /\ relayered' = relayered
  BY <1>1, <1>5 DEF Between, EditInv, EditTypes
<1>7. selected_objects' = is /\ disp_objects' = Grouped(is)
  BY <1>5 DEF ReleaseGroup
<1>19. PICK on \in BOOLEAN : on = TRUE
  OBVIOUS
<1>8. PICK mid : mid = MarkedAs(disp_objects, is, on)
  OBVIOUS
<1>9. disp_objects' = Started(mid, is)
  BY <1>7, <1>8, <1>19 DEF Grouped, Flagged, MarkedAs
<1>10. /\ Kept(disp_objects, mid)
       /\ \A k \in 1 .. Len(disp_objects) :
            mid[k].selected = (IF k - 1 \in is THEN TRUE ELSE disp_objects[k].selected)
  <2>1. disp_objects \in Seq(HmiObjects)
    BY <1>6
  <2>2. /\ Kept(disp_objects, mid)
        /\ \A k \in 1 .. Len(disp_objects) :
             /\ mid[k].selected = (IF k - 1 \in is THEN on ELSE disp_objects[k].selected)
             /\ mid[k].x = disp_objects[k].x /\ mid[k].x_start = disp_objects[k].x_start
             /\ mid[k].locked = disp_objects[k].locked
    BY <1>8, <2>1, Flagging
  <2> QED
    BY <1>19, <2>2
<1>11. mid \in Seq(HmiObjects) /\ Len(mid) = Len(disp_objects)
  BY <1>10 DEF Kept
<1>12. /\ Kept(mid, disp_objects')
       /\ \A k \in 1 .. Len(mid) :
            /\ disp_objects'[k].selected = mid[k].selected /\ disp_objects'[k].x = mid[k].x
            /\ disp_objects'[k].x_start = (IF k - 1 \in is THEN mid[k].x ELSE mid[k].x_start)
  BY <1>9, <1>11, Starting
<1>13. Kept(disp_objects, disp_objects')
  BY <1>10, <1>12 DEF Kept
<1>14. /\ Indices' = Indices /\ disp_objects' \in Seq(HmiObjects) /\ (InOrder => InOrder')
  BY <1>6, <1>13, SamePlaces
<1>15. EditTypes'
  BY <1>1, <1>6, <1>7, <1>14, ReleasedButton DEF EditInv, EditTypes
<1>16. NothingPressed' /\ OneInBox' /\ InOrder' /\ NothingHeld'
  BY <1>1, <1>4, <1>14, ReleasedButton DEF EditInv, OneInBox
<1>17. ASSUME NEW j \in Indices
       PROVE  /\ Obj(j)'.selected = (IF j \in is THEN TRUE ELSE Obj(j).selected)
              /\ j \in is => Obj(j)'.x = Obj(j)'.x_start /\ Obj(j)'.x_start \in Int
  <2>1. j + 1 \in 1 .. Len(disp_objects) /\ Obj(j) = disp_objects[j + 1] /\ (j + 1) - 1 = j
    BY <1>6, TwoPlaces
  <2>2. Obj(j)' = disp_objects'[j + 1]
    BY DEF Obj
  <2>3. disp_objects'[j + 1].x_start \in Int
    BY <1>13, <1>14, <2>1, Listed DEF Kept
  <2> QED
    BY <1>10, <1>11, <1>12, <2>1, <2>2, <2>3
<1>18. ASSUME stale' = FALSE PROVE Marked' /\ Together'
  <2>1. Marked
    BY <1>1, <1>18 DEF EditInv, RectPressed
  <2>2. \A j \in Indices : ~(Obj(j).selected = TRUE)
    BY <1>3, <2>1 DEF Marked
  <2>3. Marked'
    BY <1>1, <1>4, <1>7, <1>14, <1>17, <2>2 DEF Marked
  <2>4. Away(0)'
    <3>1. \A j \in is : Obj(j)'.x = Obj(j)'.x_start + 0
      <4>1. ASSUME NEW j \in is PROVE Obj(j)'.x = Obj(j)'.x_start + 0
        <5>1. Obj(j)'.x = Obj(j)'.x_start /\ Obj(j)'.x_start \in Int
          BY <1>6, <1>17
        <5> QED
          BY <5>1
      <4> QED
        BY <4>1
    <3> QED
      BY <1>7, <3>1 DEF Away
  <2>5. Still(object_selected)' /\ Still(click_index)'
    BY <1>1, <1>3, ReleasedButton DEF Still
  <2> QED
    BY <2>3, <2>4, <2>5 DEF Together
<1> QED
  BY <1>15, <1>16, <1>18 DEF EditInv

\* The button goes up after anything else.
LEMMA End ==
  ASSUME EditInv, ReleaseEnd
  PROVE  EditInv'
<1>1. Released /\ UNCHANGED <<view_mode, relayered>>
  BY DEF ReleaseEnd
<1>2. disp_objects \in Seq(HmiObjects) /\ (relayered = FALSE => Ordered(disp_objects))
  BY DEF EditInv, EditTypes, InOrder
<1>3. CASE Clear(disp_objects)
  BY <1>1, <1>2, <1>3, Clearing
<1>4. CASE /\ view_mode = "edit" /\ ui_mode = "resize"
           /\ UNCHANGED <<disp_objects, selected_objects, shown, object_selected, ui_mode, selecting, stale>>
  <2>1. EditTypes'
    BY <1>1, <1>4, ReleasedButton DEF EditInv, EditTypes, Indices
  <2>2. NothingPressed' /\ OneInBox' /\ InOrder' /\ NothingHeld'
    BY <1>1, <1>4, ReleasedButton DEF EditInv, OneInBox, InOrder
  <2>3. ASSUME stale' = FALSE PROVE Marked' /\ Together'
    <3>1. Marked /\ Away(0) /\ Still(object_selected)
      BY <1>4, <2>3 DEF EditInv, RectPressed, Together, MoveGoesOn
    <3>2. Marked'
      BY <1>4, <3>1 DEF Marked, Indices, Obj
    <3>3. Away(0)'
      BY <1>4, <3>1 DEF Away, Obj
    <3>4. Still(object_selected)'
      BY <1>4, <3>1 DEF Still, Obj
    <3>5. Still(click_index)'
      BY <1>1, ReleasedButton DEF Still
    <3> QED
      BY <3>2, <3>3, <3>4, <3>5 DEF Together
  <2> QED
    BY <2>1, <2>2, <2>3 DEF EditInv
<1>5. view_mode = "run" => Clear(disp_objects)
  BY DEF ReleaseEnd
<1>6. view_mode = "edit" /\ ui_mode # "resize" => Clear(disp_objects)
  BY DEF ReleaseEnd, MoveEnd
<1>7. view_mode = "edit" /\ ui_mode = "resize" => ResizeEnd
  BY DEF ReleaseEnd
<1>8. ResizeEnd => \/ Clear(disp_objects)
                   \/ UNCHANGED <<disp_objects, selected_objects, shown, object_selected, ui_mode,
                                  selecting, stale>>
  BY DEF ResizeEnd
<1>9. view_mode = "edit" \/ view_mode = "run"
  BY DEF EditInv, EditTypes
<1> QED
  BY <1>3, <1>4, <1>5, <1>6, <1>7, <1>8, <1>9

\* An object is added.
LEMMA ObjectAdded ==
  ASSUME EditInv, NEW w \in Widgets, NEW x \in Points, Add(w, x)
  PROVE  EditInv'
<1>1. PICK top \in Layers : top = CHOOSE l \in Layers : \A k \in Layers : k <= l
  BY HmiAssumption
<1>2. PICK o : o = [name |-> w, type |-> "input", layer |-> top, x |-> x, x_start |-> x,
                    locked |-> FALSE, selected |-> FALSE]
  OBVIOUS
<1>3. o \in HmiObjects
  <2>1. w \in STRING /\ x \in Int
    BY HmiAssumption
  <2> QED
    BY <1>2, <2>1 DEF HmiObjects
<1>4. disp_objects' = Placed(o, disp_objects)
  BY <1>1, <1>2 DEF Add
<1>5. /\ mouse.down = FALSE /\ stale' = (stale \/ Uses)
      /\ UNCHANGED <<view_mode, ui_mode, selected_objects, object_selected, click_index, mouse>>
      /\ UNCHANGED <<object_moved, selecting, shown, relayered>>
  BY DEF Add, pressVars, EditInv, EditTypes
<1>6. disp_objects \in Seq(HmiObjects) /\ EditTypes /\ selected_objects \subseteq Indices
      /\ stale \in BOOLEAN
  BY DEF EditInv, EditTypes
<1>7. PICK m \in 1 .. Len(disp_objects) + 1 :
        /\ Has(disp_objects, o, m, disp_objects')
        /\ Ordered(disp_objects) => Ordered(disp_objects')
  <2>1. disp_objects \in Seq(HmiObjects)
    BY <1>6
  <2> QED
    BY <1>3, <1>4, <2>1, Placing
<1>8. /\ disp_objects' \in Seq(HmiObjects) /\ Len(disp_objects) \in Nat
      /\ Len(disp_objects') = Len(disp_objects) + 1
      /\ \A k \in 1 .. Len(disp_objects) + 1 :
           disp_objects'[k] = IF k < m THEN disp_objects[k] ELSE IF k = m THEN o ELSE disp_objects[k - 1]
  BY <1>6, <1>7, TwoPlaces DEF Has, Puts
<1>9. Indices' = 0 .. Len(disp_objects) /\ Indices \subseteq Indices'
  BY <1>8 DEF Indices
<1>10. stale' \in BOOLEAN
  BY <1>5, <1>6 DEF Uses
<1>11. EditTypes'
  BY <1>5, <1>6, <1>8, <1>9, <1>10 DEF EditTypes
<1>12. NothingPressed' /\ OneInBox' /\ InOrder' /\ NothingHeld'
  BY <1>5, <1>7 DEF EditInv, NothingPressed, OneInBox, InOrder, NothingHeld, Drawing
<1>13. ASSUME stale' = FALSE PROVE Marked' /\ Together'
  <2>1. stale = FALSE /\ selected_objects = {} /\ object_selected = NoObject
    BY <1>5, <1>6, <1>13 DEF Uses
  <2>2. Marked
    BY <1>5, <2>1 DEF EditInv, RectPressed
  <2>3. click_index' = NoObject /\ object_selected' = NoObject /\ selected_objects' = {}
    BY <1>5, <2>1 DEF EditInv, NothingPressed
  <2>4. \A k \in 1 .. Len(disp_objects) : disp_objects[k].selected # TRUE
    <3>1. \A k \in 1 .. Len(disp_objects) : k - 1 \in Indices /\ disp_objects[k] = Obj(k - 1)
      BY <1>6, TwoPlaces
    <3> QED
      BY <2>1, <2>2, <3>1 DEF Marked
  <2>5. ASSUME NEW i \in Indices' PROVE Obj(i)'.selected # TRUE
    <3>1. i + 1 \in 1 .. Len(disp_objects) + 1 /\ Obj(i)' = disp_objects'[i + 1]
      BY <1>8, <1>9 DEF Obj
    <3>2. PICK k \in 1 .. Len(disp_objects) + 1 : k = i + 1
      BY <3>1
    <3>3. CASE k < m
      <4>1. k \in 1 .. Len(disp_objects) /\ disp_objects'[k] = disp_objects[k]
        BY <1>8, <3>3
      <4> QED
        BY <2>4, <3>1, <3>2, <4>1
    <3>4. CASE k = m
      <4>1. disp_objects'[k] = o
        BY <1>8, <3>4
      <4>2. o.selected = FALSE
        BY <1>2
      <4> QED
        BY <3>1, <3>2, <4>1, <4>2
    <3>5. CASE m < k
      <4>1. k - 1 \in 1 .. Len(disp_objects) /\ disp_objects'[k] = disp_objects[k - 1]
        BY <1>8, <3>5
      <4> QED
        BY <2>4, <3>1, <3>2, <4>1
    <3>6. k \in Nat /\ m \in Nat
      BY <1>8
    <3>7. k < m \/ k = m \/ m < k
      BY <3>6
    <3> QED
      BY <3>3, <3>4, <3>5, <3>7
  <2>6. shown' = Closed
    BY <1>5, <2>1, EmptyHasNone DEF EditInv, OneInBox
  <2>7. Marked'
    BY <2>3, <2>5, <2>6 DEF Marked
  <2>8. Together'
    <3>1. \A d : Away(d)'
      BY <2>3 DEF Away
    <3>2. Still(object_selected)' /\ Still(click_index)'
      BY <2>3 DEF Still
    <3> QED
      BY <3>1, <3>2 DEF Together
  <2> QED
    BY <2>7, <2>8
<1> QED
  BY <1>11, <1>12, <1>13 DEF EditInv

-----------------------------------------------------------------------------
(* The theorems.                                                           *)

\* The invariant holds of a list that was just loaded.
LEMMA EditStarts ==
  ASSUME HmiInit
  PROVE  EditInv
<1>1. /\ disp_objects \in Seq(HmiObjects) /\ Ordered(disp_objects)
      /\ view_mode = "edit" /\ selected_objects = {} /\ object_selected = NoObject
      /\ click_index = NoObject /\ selecting = FALSE /\ mouse = [down |-> FALSE, start |-> 0]
      /\ object_moved = FALSE /\ shown = Closed /\ relayered = FALSE
      /\ stale = (\E k \in DOMAIN disp_objects : disp_objects[k].selected)
  BY LoadedInOrder DEF HmiInit
<1>2. [down |-> FALSE, start |-> 0] \in [down : BOOLEAN, start : Int]
  OBVIOUS
<1>3. (\E k \in DOMAIN disp_objects : disp_objects[k].selected) \in BOOLEAN
  OBVIOUS
<1>4. EditTypes
  BY <1>1, <1>2, <1>3 DEF EditTypes
<1>5. NothingPressed /\ OneInBox /\ InOrder /\ NothingHeld
  BY <1>1 DEF NothingPressed, OneInBox, InOrder, NothingHeld, Drawing
<1>6. ASSUME stale = FALSE PROVE Marked /\ Together
  <2>1. \A k \in 1 .. Len(disp_objects) : disp_objects[k].selected # TRUE
    <3>1. DOMAIN disp_objects = 1 .. Len(disp_objects)
      BY <1>1, Listed
    <3> QED
      BY <1>1, <1>6, <3>1
  <2>2. \A i \in Indices : Obj(i).selected # TRUE
    BY <1>4, <2>1, TwoPlaces
  <2>3. Marked
    BY <1>1, <2>2 DEF Marked
  <2>4. \A d : Away(d)
    BY <1>1 DEF Away
  <2>5. Still(object_selected) /\ Still(click_index)
    BY <1>1 DEF Still
  <2> QED
    BY <2>3, <2>4, <2>5 DEF Together
<1> QED
  BY <1>4, <1>5, <1>6 DEF EditInv

\* Every step keeps it.
LEMMA EditSteps ==
  ASSUME EditInv, [HmiNext]_hmiVars
  PROVE  EditInv'
<1>1. CASE UNCHANGED hmiVars
  <2>1. /\ UNCHANGED <<disp_objects, view_mode, ui_mode, selected_objects, object_selected, click_index>>
        /\ UNCHANGED <<mouse, object_moved, selecting, shown, stale, relayered>>
    BY <1>1 DEF hmiVars, pressVars
  <2>2. EditTypes' /\ NothingPressed' /\ OneInBox' /\ InOrder' /\ NothingHeld'
    BY <2>1 DEF EditInv, EditTypes, NothingPressed, OneInBox, InOrder, NothingHeld, Drawing, Indices
  <2>3. ASSUME stale' = FALSE PROVE (Marked \/ RectPressed)' /\ Together'
    <3>1. (Marked \/ RectPressed) /\ Together
      BY <2>1, <2>3 DEF EditInv
    <3>2. (Marked \/ RectPressed)'
      BY <2>1, <3>1 DEF Marked, RectPressed, Indices, Obj
    <3>3. Together'
      BY <2>1, <3>1 DEF Together, MoveGoesOn, Away, Still, Obj
    <3> QED
      BY <3>2, <3>3
  <2> QED
    BY <2>2, <2>3 DEF EditInv
<1>2. CASE Mouse
  BY <1>2, PressedOpen, PressedAgain, PressedObject, Moved, Click, Group, End DEF Mouse
<1>3. CASE Escape
  BY <1>3, Escaping
<1>4. CASE \E l \in BOOLEAN : SetLock(l)
  BY <1>4, LockIsSet
<1>5. CASE \E m \in {"edit", "run"} : SetMode(m)
  BY <1>5, ModeIsSet
<1>6. CASE \E w \in Widgets, x \in Points : Add(w, x)
  BY <1>6, ObjectAdded
<1> QED
  BY <1>1, <1>2, <1>3, <1>4, <1>5, <1>6 DEF HmiNext

\* What the editor works on is what it shows: when the button is up, the
\* marked objects are the selected ones and the box is open for the one that
\* is; and a click finds the object in front.
THEOREM EditorIsRight == HmiSpec => []EditorAgrees
<1>1. HmiInit => EditInv
  BY EditStarts
<1>2. EditInv /\ [HmiNext]_hmiVars => EditInv'
  BY EditSteps
<1>3. EditInv => EditorAgrees
  <2> SUFFICES ASSUME EditInv PROVE EditorAgrees
    OBVIOUS
  <2>1. ASSUME stale = FALSE, mouse.down = FALSE
        PROVE  /\ selected_objects = {i \in Indices : Obj(i).selected}
               /\ shown # Closed =>
                    Cardinality(selected_objects) = 1 /\ \A i \in selected_objects : Obj(i).name = shown
    <3>1. Marked /\ selected_objects \subseteq Indices /\ EditTypes /\ OneInBox
      BY <2>1 DEF EditInv, EditTypes, RectPressed
    <3>2. \A i \in Indices : Obj(i).selected \in BOOLEAN
      BY <3>1, TwoPlaces
    <3>3. \A i : i \in selected_objects <=> i \in {j \in Indices : Obj(j).selected}
      BY <3>1, <3>2 DEF Marked
    <3>4. selected_objects = {i \in Indices : Obj(i).selected}
      BY <3>3
    <3> QED
      BY <3>1, <3>4 DEF Marked, OneInBox
  <2>2. SelectionAgrees
    BY <2>1 DEF SelectionAgrees, EditInv, EditTypes
  <2>3. ClickHitsTop
    BY HitsTop DEF ClickHitsTop, EditInv, EditTypes, InOrder
  <2> QED
    BY <2>2, <2>3 DEF EditorAgrees
<1> QED
  BY <1>1, <1>2, <1>3, PTL DEF HmiSpec

\* What is moved together stays together: the mouse moves every object that
\* is selected and not locked by the same way.
THEOREM GroupsKeepShape == HmiSpec => GroupKeepsShape
<1> DEFINE Shape == (mouse.down /\ mouse'.down /\ ~stale') =>
                      \A i, j \in {k \in selected_objects' : ~Obj(k).locked} :
                        Obj(i)'.x - Obj(i).x = Obj(j)'.x - Obj(j).x
<1>1. HmiInit => EditInv
  BY EditStarts
<1>2. EditInv /\ [HmiNext]_hmiVars => EditInv'
  BY EditSteps
<1>3. EditInv /\ [HmiNext]_hmiVars => [Shape]_hmiVars
  <2> SUFFICES ASSUME EditInv, HmiNext, mouse.down, mouse'.down, ~stale'
               PROVE  \A i, j \in {k \in selected_objects' : ~Obj(k).locked} :
                        Obj(i)'.x - Obj(i).x = Obj(j)'.x - Obj(j).x
    OBVIOUS
  <2>1. mouse.down # FALSE /\ mouse'.down # FALSE
    OBVIOUS
  <2>2. ASSUME selected_objects' = {}
        PROVE  \A i, j \in {k \in selected_objects' : ~Obj(k).locked} :
                 Obj(i)'.x - Obj(i).x = Obj(j)'.x - Obj(j).x
    BY <2>2
  <2>3. CASE Escape \/ \E l \in BOOLEAN : SetLock(l)
    BY <2>2, <2>3 DEF Escape, SetLock, Clear
  <2>4. ASSUME NEW p \in Points, MouseMove(p),
               NEW i \in {k \in selected_objects' : ~Obj(k).locked},
               NEW j \in {k \in selected_objects' : ~Obj(k).locked}
        PROVE  Obj(i)'.x - Obj(i).x = Obj(j)'.x - Obj(j).x
    <3>1. /\ selected_objects' = selected_objects /\ stale = FALSE /\ view_mode = "edit"
          /\ disp_objects \in Seq(HmiObjects) /\ EditTypes /\ selected_objects \subseteq Indices
      BY <2>4 DEF MouseMove, EditInv, EditTypes
    <3>2. PICK d \in Int : Away(d)
      BY <3>1 DEF EditInv, Together
    <3>3. /\ i \in selected_objects /\ j \in selected_objects /\ i \in Indices /\ j \in Indices
          /\ ~Obj(i).locked /\ ~Obj(j).locked
      BY <3>1, <2>4
    <3>4. CASE UNCHANGED disp_objects
      <4>1. \A k \in Indices : Obj(k)' = Obj(k) /\ Obj(k).x \in Int
        BY <3>1, <3>4, TwoPlaces DEF Obj
      <4> QED
        BY <3>3, <4>1
    <3>5. ASSUME NEW pressed, disp_objects' = Dragged(p, Moving(pressed))
          PROVE  Obj(i)'.x - Obj(i).x = Obj(j)'.x - Obj(j).x
      <4>1. ASSUME NEW k \in selected_objects, ~Obj(k).locked
            PROVE  /\ Obj(k)'.x = Obj(k).x_start + p - mouse.start /\ Obj(k).x = Obj(k).x_start + d
                   /\ Obj(k).x_start \in Int
        <5>1. /\ k \in Indices /\ k + 1 \in 1 .. Len(disp_objects) /\ Obj(k) = disp_objects[k + 1]
              /\ (k + 1) - 1 = k /\ Obj(k).x_start \in Int /\ Obj(k).locked \in BOOLEAN
              /\ DOMAIN disp_objects = 1 .. Len(disp_objects)
          BY <3>1, TwoPlaces, Listed
        <5>2. k \in Moving(pressed)
          BY <4>1 DEF Moving
        <5>3. disp_objects'[k + 1] =
                [disp_objects[k + 1] EXCEPT !.x = disp_objects[k + 1].x_start + p - mouse.start]
          BY <3>5, <5>1, <5>2 DEF Dragged, With
        <5>4. disp_objects[k + 1] \in HmiObjects
          BY <3>1, <5>1, Listed
        <5>5. Obj(k)'.x = Obj(k).x_start + p - mouse.start
          BY <5>1, <5>3, <5>4 DEF Obj, HmiObjects
        <5>6. Obj(k).x = Obj(k).x_start + d
          BY <3>2, <4>1, <5>1 DEF Away
        <5> QED
          BY <5>1, <5>5, <5>6
      <4>2. p \in Int /\ mouse.start \in Int
        BY <3>1, HmiAssumption DEF EditTypes
      <4>3. /\ Obj(i)'.x = Obj(i).x_start + p - mouse.start /\ Obj(i).x = Obj(i).x_start + d
            /\ Obj(i).x_start \in Int
        BY <3>3, <4>1
      <4>4. /\ Obj(j)'.x = Obj(j).x_start + p - mouse.start /\ Obj(j).x = Obj(j).x_start + d
            /\ Obj(j).x_start \in Int
        BY <3>3, <4>1
      <4>5. PICK a \in Int : a = Obj(i).x_start
        BY <4>3
      <4>6. PICK b \in Int : b = Obj(j).x_start
        BY <4>4
      <4>7. PICK s \in Int : s = mouse.start
        BY <4>2
      <4>8. Obj(i)'.x = a + p - s /\ Obj(i).x = a + d /\ Obj(j)'.x = b + p - s /\ Obj(j).x = b + d
        BY <4>3, <4>4, <4>5, <4>6, <4>7
      <4>9. (a + p - s) - (a + d) = (b + p - s) - (b + d)
        BY <3>2, <4>2, <4>5, <4>6, <4>7
      <4> QED
        BY <4>8, <4>9
    <3> QED
      BY <2>4, <3>4, <3>5 DEF MouseMove
  <2>5. ~(\E l \in {"edit", "run"} : SetMode(l)) /\ ~(\E w \in Widgets, x \in Points : Add(w, x))
    BY DEF SetMode, Add
  <2>6. \A p \in Points : ~PressOpen(p) /\ ~PressAgain(p) /\ ~PressObject(p)
    BY DEF PressOpen, PressAgain, PressObject, Presses
  <2>7. ~ReleaseClick /\ ~ReleaseEnd /\ \A p \in Points : ~ReleaseGroup(p)
    BY <2>1, ReleasedButton DEF ReleaseClick, ReleaseEnd, ReleaseGroup
  <2>8. CASE \E p \in Points : MouseMove(p)
    BY <2>4, <2>8
  <2> QED
    BY <2>3, <2>5, <2>6, <2>7, <2>8 DEF HmiNext, Mouse
<1> QED
  BY <1>1, <1>2, <1>3, PTL DEF HmiSpec, GroupKeepsShape

-----------------------------------------------------------------------------
(* The drawing and its links (ProjectValues).                              *)

VarRecords(V) == [name : Nat, type : Nat, value : V]
NodeRecords == [at : Int, type : STRING, op1 : Int, means : Nat]

\* A table of variables, whatever their values.
Tabled(s) ==
  /\ \E V : s \in Seq(VarRecords(V))
  /\ Len(s) > 0 /\ s[1].type \in {DIN, DOUT} /\ Ascending(s)
  /\ \A i, j \in 1 .. Len(s) : s[i].name = s[j].name => i = j

\* A drawing with a symbol per place.
PlacedOnce(ns) ==
  /\ ns \in Seq(NodeRecords)
  /\ \A k \in 1 .. Len(ns) : ns[k].op1 >= -1
  /\ \A j, k \in 1 .. Len(ns) : j # k => ns[j].at # ns[k].at

\* Every link names the variable that was picked.
Linked(ns, s) ==
  \A k \in 1 .. Len(ns) :
    IF ns[k].op1 = -1 THEN ns[k].means = 0
    ELSE ns[k].op1 < Len(s) /\ s[ns[k].op1 + 1].name = ns[k].means

FromFile == [k \in DOMAIN file.nodes |-> Pv!Imported(file.nodes[k])]

Picked == dialog # Pv!None => \A i \in DOMAIN dialog.names : dialog.names[i] \in Nat

ValuesInv ==
  /\ Tabled(list) /\ PlacedOnce(nodes) /\ Tabled(file.vars) /\ PlacedOnce(FromFile)
  /\ astray \in BOOLEAN /\ Picked
  /\ astray = FALSE => Linked(nodes, list) /\ Linked(FromFile, file.vars)

-----------------------------------------------------------------------------
LEMMA SameList ==
  /\ Pv!DIN = DIN /\ Pv!DOUT = DOUT /\ Pv!BIT = BIT /\ Pv!TMR = TMR
  /\ \A a, b : Pv!Before(a, b) <=> Before(a, b)
  /\ \A s, v : Pv!Splice(s, v) = Splice(s, v)
  /\ \A s : Pv!Sorted(s) = Sorted(s)
  /\ \A i, j : Pv!MovedUp(i, j) = MovedUp(i, j) /\ Pv!ClosedUp(i, j) = ClosedUp(i, j)
  /\ \A v : Pv!IsIO(v) <=> IsIO(v)
  /\ \A s, n : Pv!Exists(s, n) <=> Exists(s, n)
  /\ \A s, i : Pv!RemoveAt(s, i) = RemoveAt(s, i)
<1>1. Pv!DIN = DIN /\ Pv!DOUT = DOUT /\ Pv!BIT = BIT /\ Pv!TMR = TMR
  BY DEF Pv!DIN, DIN, Pv!DOUT, DOUT, Pv!BIT, BIT, Pv!TMR, TMR
<1>2. \A a, b : Pv!Before(a, b) <=> Before(a, b)
  BY DEF Pv!Before, Before
<1>3. \A s, v : Pv!Splice(s, v) = Splice(s, v)
  BY DEF Pv!Splice, Splice, Pv!Before, Before
<1>4. \A s : Pv!Sorted(s) = Sorted(s)
  BY DEF Pv!Sorted, Sorted, Pv!Before, Before, Pv!Range, Range, Pv!Cardinality, Cardinality
<1>5. \A i, j : Pv!MovedUp(i, j) = MovedUp(i, j) /\ Pv!ClosedUp(i, j) = ClosedUp(i, j)
  BY DEF Pv!MovedUp, MovedUp, Pv!ClosedUp, ClosedUp
<1>6. \A v : Pv!IsIO(v) <=> IsIO(v)
  BY <1>1 DEF Pv!IsIO, IsIO
<1>7. \A s, n : Pv!Exists(s, n) <=> Exists(s, n)
  BY DEF Pv!Exists, Exists
<1>8. \A s, i : Pv!RemoveAt(s, i) = RemoveAt(s, i)
  BY DEF Pv!RemoveAt, RemoveAt
<1> QED
  BY <1>1, <1>2, <1>3, <1>4, <1>5, <1>6, <1>7, <1>8

LEMMA TabledHas ==
  ASSUME NEW s, Tabled(s)
  PROVE  /\ Len(s) \in Nat /\ Len(s) > 0 /\ DOMAIN s = 1 .. Len(s) /\ Sortable(s) /\ Ascending(s)
         /\ \A i \in 1 .. Len(s) : s[i].name \in Nat /\ s[i].type \in Nat
         /\ s[1].type \in {DIN, DOUT}
<1>1. PICK V, S : s \in Seq(S) /\ S = VarRecords(V)
  BY DEF Tabled
<1>2. Len(s) \in Nat /\ DOMAIN s = 1 .. Len(s) /\ \A i \in 1 .. Len(s) : s[i] \in S
  BY <1>1, LenProperties, ElementOfSeq
<1>3. \A v \in S : v.name \in Nat /\ v.type \in Nat
  BY <1>1 DEF VarRecords
<1> QED
  BY <1>2, <1>3 DEF Tabled, Sortable

LEMMA NodesHave ==
  ASSUME NEW ns, PlacedOnce(ns)
  PROVE  /\ Len(ns) \in Nat /\ DOMAIN ns = 1 .. Len(ns)
         /\ \A k \in 1 .. Len(ns) : /\ ns[k] \in NodeRecords /\ ns[k].op1 \in Int /\ ns[k].op1 >= -1
                                    /\ ns[k].at \in Int /\ ns[k].means \in Nat
<1>1. ns \in Seq(NodeRecords)
  BY DEF PlacedOnce
<1>2. Len(ns) \in Nat /\ DOMAIN ns = 1 .. Len(ns) /\ \A k \in 1 .. Len(ns) : ns[k] \in NodeRecords
  BY <1>1, LenProperties, ElementOfSeq
<1>3. \A n \in NodeRecords : n.op1 \in Int /\ n.at \in Int /\ n.means \in Nat
  BY DEF NodeRecords
<1> QED
  BY <1>2, <1>3 DEF PlacedOnce

\* A table with other values is a table, and the links follow its names.
LEMMA OtherValues ==
  ASSUME NEW s, Tabled(s), NEW t, NEW value,
         t = [i \in DOMAIN s |-> [s[i] EXCEPT !.value = value[i]]]
  PROVE  Tabled(t) /\ \A ns : PlacedOnce(ns) /\ Linked(ns, s) => Linked(ns, t)
<1>1. PICK V, S : s \in Seq(S) /\ S = VarRecords(V)
  BY DEF Tabled
<1>2. PICK W : W = {value[i] : i \in DOMAIN s}
  OBVIOUS
<1>3. PICK T : T = VarRecords(W)
  OBVIOUS
<1>4. /\ Len(s) \in Nat /\ DOMAIN s = 1 .. Len(s) /\ Ascending(s) /\ \A i \in 1 .. Len(s) : s[i] \in S
  BY <1>1, TabledHas, ElementOfSeq
<1>5. ASSUME NEW i \in 1 .. Len(s)
      PROVE  t[i] \in T /\ t[i].name = s[i].name /\ t[i].type = s[i].type
  <2>1. t[i] = [s[i] EXCEPT !.value = value[i]] /\ value[i] \in W /\ s[i] \in VarRecords(V)
    BY <1>1, <1>2, <1>4
  <2> QED
    BY <1>3, <2>1 DEF VarRecords
<1>6. t \in [1 .. Len(s) -> T]
  BY <1>4, <1>5
<1>7. t \in Seq(T) /\ Len(t) = Len(s) /\ DOMAIN t = 1 .. Len(s)
  BY <1>4, <1>6, SeqDef
<1>8. Ascending(t)
  BY <1>4, <1>5, <1>7 DEF Ascending, Before
<1>9. Tabled(t)
  <2>1. Len(t) > 0 /\ t[1].type \in {DIN, DOUT}
    BY <1>5, <1>7, TabledHas
  <2>2. \A i, j \in 1 .. Len(t) : t[i].name = t[j].name => i = j
    BY <1>5, <1>7 DEF Tabled
  <2>3. \E U : t \in Seq(VarRecords(U))
    BY <1>3, <1>7
  <2> QED
    BY <1>8, <2>1, <2>2, <2>3 DEF Tabled
<1>10. ASSUME NEW ns, PlacedOnce(ns), Linked(ns, s) PROVE Linked(ns, t)
  <2> SUFFICES ASSUME NEW k \in 1 .. Len(ns), ns[k].op1 # -1
               PROVE  ns[k].op1 < Len(t) /\ t[ns[k].op1 + 1].name = ns[k].means
    BY <1>10 DEF Linked
  <2>1. ns[k].op1 < Len(s) /\ s[ns[k].op1 + 1].name = ns[k].means
    BY <1>10 DEF Linked
  <2>2. ns[k].op1 + 1 \in 1 .. Len(s)
    BY <1>4, <1>10, <2>1, NodesHave
  <2> QED
    BY <1>5, <1>7, <2>1, <2>2
<1> QED
  BY <1>9, <1>10

\* A variable is put behind all and sorted in; the last ones are not found.
LEMMA TableGrows ==
  ASSUME NEW s, Tabled(s), NEW v \in Added, ~Exists(s, v.name),
         NEW t, t = Sorted(Append(s, v)), NEW at, at = Splice(s, v)
  PROVE  /\ Tabled(t) /\ Len(t) = Len(s) + 1 /\ at \in Nat
         /\ \A k \in 1 .. Len(t) : t[k] = v \/ \E j \in 1 .. Len(s) : t[k] = s[j]
         /\ \/ \A i \in 1 .. Len(s) : Before(s[i], v)
            \/ /\ at \in 1 .. Len(s) - 1
               /\ \A k \in 1 .. Len(s) + 1 :
                    t[k] = IF k < at + 1 THEN s[k] ELSE IF k = at + 1 THEN v ELSE s[k - 1]
<1>1. v \in [name : Nat, type : {BIT, TMR}, value : Seq(Nat)]
  BY ValuesAssumption
<1>2. /\ v.name \in Nat /\ v.type \in {BIT, TMR} /\ v.type \in Nat
      /\ v.name \in Int /\ v.type \in Int
  BY <1>1 DEF BIT, TMR
<1>3. PICK V : s \in Seq(VarRecords(V))
  BY DEF Tabled
<1>4. PICK W, S : W = V \cup {v.value} /\ S = VarRecords(W)
  OBVIOUS
<1>5. s \in Seq(S) /\ v \in S
  <2>1. VarRecords(V) \subseteq S
    BY <1>4 DEF VarRecords
  <2>2. s \in Seq(S)
    BY <1>3, <2>1, SeqMonotonic
  <2>3. v \in S
    BY <1>1, <1>2, <1>4 DEF VarRecords
  <2> QED
    BY <2>2, <2>3
<1>6. /\ Len(s) \in Nat /\ Len(s) > 0 /\ DOMAIN s = 1 .. Len(s) /\ Sortable(s) /\ Ascending(s)
      /\ \A i \in 1 .. Len(s) : s[i].name \in Nat /\ s[i].type \in Nat
      /\ s[1].type \in {DIN, DOUT}
  BY TabledHas
<1>7. Before(s[1], v)
  BY <1>2, <1>6 DEF Before, DIN, DOUT, BIT, TMR
<1>8. \/ at = 0 /\ \A i \in 1 .. Len(s) : Before(s[i], v)
      \/ /\ at \in 1 .. Len(s) - 1 /\ Before(v, s[at + 1])
         /\ \A i \in 1 .. at : Before(s[i], v)
         /\ \A i \in at + 1 .. Len(s) : Before(v, s[i])
  BY <1>2, <1>5, <1>6, <1>7, Splicing
<1>9. PICK p \in 1 .. Len(s) + 1 :
        /\ \A i \in 1 .. p - 1 : Before(s[i], v)
        /\ \A i \in p .. Len(s) : Before(v, s[i])
        /\ p > 1 /\ (at # 0 => p = at + 1)
  <2>1. CASE at = 0
    <3>1. \A i \in 1 .. Len(s) : Before(s[i], v)
      BY <1>8, <2>1
    <3>2. PICK p \in 1 .. Len(s) + 1 : p = Len(s) + 1 /\ p > 1
      BY <1>6
    <3>3. \A i \in 1 .. p - 1 : Before(s[i], v)
      BY <1>6, <3>1, <3>2
    <3>4. \A i \in p .. Len(s) : Before(v, s[i])
      BY <1>6, <3>2
    <3> QED
      BY <2>1, <3>2, <3>3, <3>4
  <2>2. CASE at # 0
    <3>1. /\ at \in 1 .. Len(s) - 1
          /\ \A i \in 1 .. at : Before(s[i], v)
          /\ \A i \in at + 1 .. Len(s) : Before(v, s[i])
      BY <1>8, <2>2
    <3>2. PICK p \in 1 .. Len(s) + 1 : p = at + 1 /\ p - 1 = at /\ p > 1
      BY <1>6, <3>1
    <3> QED
      BY <3>1, <3>2
  <2> QED
    BY <2>1, <2>2
<1>10. PICK x : x = Append(s, v)
  OBVIOUS
<1>11. Puts(S, s, v, Len(s) + 1, x)
  BY <1>5, <1>10, PuttingBehind
<1>12. Puts(S, s, v, p, t) /\ Ascending(t)
  BY <1>2, <1>5, <1>6, <1>9, <1>10, <1>11, SortingIn
<1>13. /\ t \in Seq(S) /\ Len(t) = Len(s) + 1
       /\ \A k \in 1 .. Len(s) + 1 : t[k] = IF k < p THEN s[k] ELSE IF k = p THEN v ELSE s[k - 1]
  BY <1>12 DEF Puts
<1>14. Tabled(t)
  <2>1. Len(t) > 0 /\ t[1].type \in {DIN, DOUT}
    BY <1>6, <1>9, <1>13
  <2>2. ASSUME NEW i \in 1 .. Len(t), NEW j \in 1 .. Len(t), t[i].name = t[j].name PROVE i = j
    <3>1. /\ i \in 1 .. Len(s) + 1 /\ j \in 1 .. Len(s) + 1 /\ p \in Nat
          /\ t[i] = IF i < p THEN s[i] ELSE IF i = p THEN v ELSE s[i - 1]
          /\ t[j] = IF j < p THEN s[j] ELSE IF j = p THEN v ELSE s[j - 1]
      BY <1>6, <1>13
    <3>2. \A k \in 1 .. Len(s) : s[k].name # v.name
      BY DEF Exists
    <3>3. \A k, l \in 1 .. Len(s) : s[k].name = s[l].name => k = l
      BY DEF Tabled
    <3>4. ASSUME NEW k \in 1 .. Len(s) + 1, k # p
          PROVE  \E l \in 1 .. Len(s) : l = (IF k < p THEN k ELSE k - 1)
      BY <1>6, <1>9, <3>4
    <3>5. CASE i = p \/ j = p
      BY <2>2, <3>1, <3>2, <3>4, <3>5
    <3>6. CASE i # p /\ j # p
      <4>1. PICK k \in 1 .. Len(s) : k = IF i < p THEN i ELSE i - 1
        BY <3>1, <3>4, <3>6
      <4>2. PICK l \in 1 .. Len(s) : l = IF j < p THEN j ELSE j - 1
        BY <3>1, <3>4, <3>6
      <4>3. t[i] = s[k] /\ t[j] = s[l]
        BY <3>1, <3>6, <4>1, <4>2
      <4>4. k = l
        BY <2>2, <3>3, <4>3
      <4> QED
        BY <3>1, <3>6, <4>1, <4>2, <4>4
    <3> QED
      BY <3>5, <3>6
  <2> QED
    BY <1>4, <1>12, <1>13, <2>1, <2>2 DEF Tabled
<1>15. ASSUME NEW k \in 1 .. Len(t) PROVE t[k] = v \/ \E j \in 1 .. Len(s) : t[k] = s[j]
  <2>1. /\ k \in 1 .. Len(s) + 1 /\ p \in 1 .. Len(s) + 1
        /\ t[k] = IF k < p THEN s[k] ELSE IF k = p THEN v ELSE s[k - 1]
    BY <1>6, <1>13
  <2>2. CASE k = p
    BY <1>6, <2>1, <2>2
  <2>3. CASE k # p
    <3>1. PICK j \in 1 .. Len(s) : j = IF k < p THEN k ELSE k - 1
      BY <1>6, <2>1, <2>3
    <3> QED
      BY <1>6, <2>1, <2>3, <3>1
  <2> QED
    BY <2>2, <2>3
<1> QED
  BY <1>6, <1>8, <1>9, <1>13, <1>14, <1>15

\* A variable that is not the board's is taken out.
LEMMA TableShrinks ==
  ASSUME NEW s, Tabled(s), NEW m \in 1 .. Len(s), ~IsIO(s[m]), NEW t, t = RemoveAt(s, m)
  PROVE  /\ Tabled(t) /\ Len(t) = Len(s) - 1
         /\ \A k \in 1 .. Len(s) - 1 : t[k] = IF k < m THEN s[k] ELSE s[k + 1]
<1>1. PICK V, S : s \in Seq(S) /\ S = VarRecords(V)
  BY DEF Tabled
<1>2. /\ Len(s) \in Nat /\ Len(s) > 0 /\ DOMAIN s = 1 .. Len(s) /\ Ascending(s)
      /\ s[1].type \in {DIN, DOUT}
  BY TabledHas
<1>3. /\ t \in Seq(S) /\ Len(t) = Len(s) - 1
      /\ \A k \in 1 .. Len(s) - 1 : t[k] = IF k < m THEN s[k] ELSE s[k + 1]
  BY <1>1, TakingOut, ZenonT(60) DEF Lacks
<1>4. m > 1
  BY <1>2 DEF IsIO
<1>5. ASSUME NEW k \in 1 .. Len(s) - 1
      PROVE  \E l \in 1 .. Len(s) : l = (IF k < m THEN k ELSE k + 1) /\ t[k] = s[l]
  BY <1>2, <1>3
<1>6. ASSUME NEW i \in 1 .. Len(s) - 1, NEW j \in 1 .. Len(s) - 1
      PROVE  /\ i < j => Before(t[i], t[j])
             /\ t[i].name = t[j].name => i = j
  <2>1. PICK k \in 1 .. Len(s) : k = (IF i < m THEN i ELSE i + 1) /\ t[i] = s[k]
    BY <1>5
  <2>2. PICK l \in 1 .. Len(s) : l = (IF j < m THEN j ELSE j + 1) /\ t[j] = s[l]
    BY <1>5
  <2>3. i < j => k < l
    BY <1>2, <2>1, <2>2
  <2>4. k = l => i = j
    BY <1>2, <2>1, <2>2
  <2>5. k < l => Before(s[k], s[l])
    BY <1>2 DEF Ascending
  <2>6. s[k].name = s[l].name => k = l
    BY DEF Tabled
  <2> QED
    BY <2>1, <2>2, <2>3, <2>4, <2>5, <2>6
<1>7. DOMAIN t = 1 .. Len(s) - 1
  BY <1>3, LenProperties
<1>8. Len(t) > 0 /\ t[1].type \in {DIN, DOUT}
  BY <1>2, <1>3, <1>4
<1> QED
  BY <1>1, <1>3, <1>6, <1>7, <1>8 DEF Tabled, Ascending

-----------------------------------------------------------------------------
\* Links are indices: what stands behind a new variable moves up by one.
LEMMA LinksMoveUp ==
  ASSUME NEW ns, PlacedOnce(ns), NEW at \in Nat,
         NEW new, new = [k \in DOMAIN ns |-> [ns[k] EXCEPT !.op1 = MovedUp(ns[k].op1, at)]]
  PROVE  /\ PlacedOnce(new)
         /\ \A s, t, v :
              /\ Linked(ns, s) /\ Len(s) \in Nat /\ at \in 1 .. Len(s) - 1 /\ Len(t) = Len(s) + 1
              /\ \A k \in 1 .. Len(s) + 1 :
                   t[k] = IF k < at + 1 THEN s[k] ELSE IF k = at + 1 THEN v ELSE s[k - 1]
              => Linked(new, t)
<1>1. /\ Len(ns) \in Nat /\ DOMAIN ns = 1 .. Len(ns)
      /\ \A k \in 1 .. Len(ns) : ns[k] \in NodeRecords /\ ns[k].op1 \in Int /\ ns[k].op1 >= -1
  BY NodesHave
<1>2. ASSUME NEW k \in 1 .. Len(ns)
      PROVE  /\ new[k] \in NodeRecords /\ new[k].at = ns[k].at /\ new[k].means = ns[k].means
             /\ new[k].op1 = (IF ns[k].op1 >= at THEN ns[k].op1 + 1 ELSE ns[k].op1)
             /\ new[k].op1 >= -1
  <2>1. PICK i \in Int : i = MovedUp(ns[k].op1, at) /\ i >= -1
                         /\ i = (IF ns[k].op1 >= at THEN ns[k].op1 + 1 ELSE ns[k].op1)
    BY <1>1 DEF MovedUp
  <2>2. new[k] = [ns[k] EXCEPT !.op1 = i] /\ ns[k] \in NodeRecords
    BY <1>1, <2>1
  <2>3. /\ new[k] \in NodeRecords /\ new[k].at = ns[k].at /\ new[k].means = ns[k].means
        /\ new[k].op1 = i
    BY <2>2, SMTT(30) DEF NodeRecords
  <2> QED
    BY <2>1, <2>3
<1>3. new \in Seq(NodeRecords) /\ Len(new) = Len(ns)
  <2>1. new \in [1 .. Len(ns) -> NodeRecords]
    BY <1>1, <1>2
  <2> QED
    BY <1>1, <2>1, SeqDef
<1>4. PlacedOnce(new)
  <2>1. \A j, k \in 1 .. Len(new) : j # k => new[j].at # new[k].at
    BY <1>2, <1>3 DEF PlacedOnce
  <2>2. \A k \in 1 .. Len(new) : new[k].op1 >= -1
    BY <1>2, <1>3
  <2> QED
    BY <1>3, <2>1, <2>2 DEF PlacedOnce
<1>5. ASSUME NEW s, NEW t, NEW v, Linked(ns, s), Len(s) \in Nat, at \in 1 .. Len(s) - 1,
             Len(t) = Len(s) + 1,
             \A k \in 1 .. Len(s) + 1 :
               t[k] = IF k < at + 1 THEN s[k] ELSE IF k = at + 1 THEN v ELSE s[k - 1]
      PROVE  Linked(new, t)
  <2> SUFFICES ASSUME NEW k \in 1 .. Len(ns)
               PROVE  IF new[k].op1 = -1 THEN new[k].means = 0
                      ELSE new[k].op1 < Len(t) /\ t[new[k].op1 + 1].name = new[k].means
    BY <1>3 DEF Linked
  <2>1. IF ns[k].op1 = -1 THEN ns[k].means = 0
        ELSE ns[k].op1 < Len(s) /\ s[ns[k].op1 + 1].name = ns[k].means
    BY <1>5 DEF Linked
  <2>2. PICK i \in Int : /\ i = ns[k].op1 /\ i >= -1
                         /\ new[k].op1 = IF i >= at THEN i + 1 ELSE i
    BY <1>1, <1>2
  <2>3. CASE i = -1
    <3>1. new[k].op1 = -1
      BY <2>2, <2>3
    <3> QED
      BY <1>2, <2>1, <2>2, <2>3, <3>1
  <2>4. CASE i # -1 /\ i < at
    <3>1. new[k].op1 = i /\ i + 1 \in 1 .. Len(s) + 1 /\ i + 1 < at + 1
      BY <1>5, <2>2, <2>4, SMTT(30)
    <3>2. t[i + 1] = s[i + 1] /\ i < Len(t)
      BY <1>5, <2>2, <3>1, SMTT(30)
    <3> QED
      BY <1>2, <2>1, <2>2, <2>4, <3>1, <3>2
  <2>5. CASE i >= at
    <3>1. PICK l : l = i + 1 + 1
      OBVIOUS
    <3>2. PICK n \in Nat : n = Len(s)
      BY <1>5
    <3>3. new[k].op1 = i + 1 /\ i # -1 /\ i + 1 # -1
      BY <1>5, <2>2, <2>5
    <3>4. i < n
      BY <2>1, <2>2, <3>2, <3>3
    <3>5. l \in 1 .. Len(s) + 1 /\ ~(l < at + 1) /\ l # at + 1 /\ l - 1 = i + 1 /\ i + 1 < Len(t)
      BY <1>5, <2>2, <2>5, <3>1, <3>2, <3>4, SMTT(30)
    <3>6. t[l] = s[i + 1]
      BY <1>5, <3>5
    <3> QED
      BY <1>2, <2>1, <2>2, <3>1, <3>3, <3>5, <3>6, ZenonT(60)
  <2> QED
    BY <2>2, <2>3, <2>4, <2>5
<1> QED
  BY <1>4, <1>5

\* A link after its variable, or one before it, is removed.
CutLink(n, index, name) ==
  [n EXCEPT !.op1 = ClosedUp(n.op1, index), !.means = IF n.means = name THEN 0 ELSE n.means]

LEMMA LinkCut ==
  ASSUME NEW n \in NodeRecords, NEW index \in Nat, NEW name
  PROVE  /\ CutLink(n, index, name) \in NodeRecords
         /\ CutLink(n, index, name).at = n.at
         /\ CutLink(n, index, name).op1 =
              IF n.op1 = index THEN -1 ELSE IF n.op1 > index THEN n.op1 - 1 ELSE n.op1
         /\ CutLink(n, index, name).means = IF n.means = name THEN 0 ELSE n.means
<1>1. PICK i \in Int : i = n.op1
  BY DEF NodeRecords
<1>2. PICK j \in Int : j = IF i = index THEN -1 ELSE IF i > index THEN i - 1 ELSE i
  BY <1>1
<1>3. ClosedUp(n.op1, index) = j
  BY <1>1, <1>2 DEF ClosedUp
<1>4. n.means \in Nat
  BY DEF NodeRecords
<1>5. PICK means \in Nat : means = IF n.means = name THEN 0 ELSE n.means
  BY <1>4
<1>6. PICK new : new = [n EXCEPT !.op1 = j, !.means = means]
  OBVIOUS
<1>7. CutLink(n, index, name) = new
  BY <1>3, <1>5, <1>6 DEF CutLink
<1>8. new \in NodeRecords /\ new.at = n.at /\ new.op1 = j /\ new.means = means
  BY <1>6 DEF NodeRecords
<1> QED
  BY <1>1, <1>2, <1>5, <1>7, <1>8

\* Links to a removed variable are cut, and those behind it close up.
LEMMA LinksCloseUp ==
  ASSUME NEW ns, PlacedOnce(ns), NEW s, Tabled(s), NEW index \in 0 .. Len(s) - 1,
         NEW name, name = s[index + 1].name,
         NEW new, new = [k \in DOMAIN ns |-> CutLink(ns[k], index, name)]
  PROVE  /\ PlacedOnce(new)
         /\ \A t :
              /\ Linked(ns, s) /\ Len(t) = Len(s) - 1
              /\ \A k \in 1 .. Len(s) - 1 : t[k] = IF k < index + 1 THEN s[k] ELSE s[k + 1]
              => Linked(new, t)
<1>1. /\ Len(ns) \in Nat /\ DOMAIN ns = 1 .. Len(ns) /\ Len(s) \in Nat
      /\ \A k \in 1 .. Len(ns) : /\ ns[k] \in NodeRecords /\ ns[k].op1 \in Int /\ ns[k].op1 >= -1
                                 /\ ns[k].means \in Nat
  BY NodesHave, TabledHas
<1>0. PICK n \in Nat : n = Len(s) /\ index \in Nat /\ index < n /\ index + 1 \in 1 .. n
  BY <1>1
<1>2. ASSUME NEW k \in 1 .. Len(ns)
      PROVE  \E i \in Int, j \in Int :
               /\ i = ns[k].op1 /\ i >= -1 /\ j >= -1
               /\ j = (IF i = index THEN -1 ELSE IF i > index THEN i - 1 ELSE i)
               /\ new[k] \in NodeRecords /\ new[k].at = ns[k].at /\ new[k].op1 = j
               /\ new[k].means = (IF ns[k].means = name THEN 0 ELSE ns[k].means)
  <2>1. new[k] = CutLink(ns[k], index, name) /\ ns[k] \in NodeRecords /\ index \in Nat
    BY <1>0, <1>1
  <2>2. PICK i \in Int : i = ns[k].op1 /\ i >= -1
    BY <1>1
  <2>3. PICK j \in Int : j = (IF i = index THEN -1 ELSE IF i > index THEN i - 1 ELSE i) /\ j >= -1
    BY <1>0, <2>2
  <2>4. /\ new[k] \in NodeRecords /\ new[k].at = ns[k].at /\ new[k].op1 = j
        /\ new[k].means = (IF ns[k].means = name THEN 0 ELSE ns[k].means)
    BY <2>1, <2>2, <2>3, LinkCut, SMTT(30)
  <2> QED
    BY <2>2, <2>3, <2>4
<1>3. new \in Seq(NodeRecords) /\ Len(new) = Len(ns)
  <2>1. DOMAIN new = 1 .. Len(ns) /\ \A k \in 1 .. Len(ns) : new[k] \in NodeRecords
    BY <1>1, <1>2
  <2>2. new \in [1 .. Len(ns) -> NodeRecords]
    BY <2>1
  <2> QED
    BY <1>1, <2>2, SeqDef
<1>4. PlacedOnce(new)
  <2>1. ASSUME NEW j \in 1 .. Len(new), NEW k \in 1 .. Len(new), j # k
        PROVE  new[j].at # new[k].at
    <3>1. j \in 1 .. Len(ns) /\ k \in 1 .. Len(ns)
      BY <1>3
    <3>2. new[j].at = ns[j].at /\ new[k].at = ns[k].at
      BY <1>2, <3>1
    <3>3. ns[j].at # ns[k].at
      BY <2>1, <3>1 DEF PlacedOnce
    <3> QED
      BY <3>2, <3>3
  <2>2. \A k \in 1 .. Len(new) : new[k].op1 >= -1
    BY <1>2, <1>3, SMTT(30)
  <2> QED
    BY <1>3, <2>1, <2>2 DEF PlacedOnce
<1>5. ASSUME NEW t, Linked(ns, s), Len(t) = Len(s) - 1,
             \A k \in 1 .. Len(s) - 1 : t[k] = IF k < index + 1 THEN s[k] ELSE s[k + 1]
      PROVE  Linked(new, t)
  <2> SUFFICES ASSUME NEW k \in 1 .. Len(ns)
               PROVE  IF new[k].op1 = -1 THEN new[k].means = 0
                      ELSE new[k].op1 < Len(t) /\ t[new[k].op1 + 1].name = new[k].means
    BY <1>3 DEF Linked
  <2>1. IF ns[k].op1 = -1 THEN ns[k].means = 0
        ELSE ns[k].op1 < Len(s) /\ s[ns[k].op1 + 1].name = ns[k].means
    BY <1>5 DEF Linked
  <2>2. PICK i \in Int, j \in Int :
               /\ i = ns[k].op1 /\ i >= -1 /\ j >= -1
               /\ j = (IF i = index THEN -1 ELSE IF i > index THEN i - 1 ELSE i)
               /\ new[k].op1 = j
               /\ new[k].means = (IF ns[k].means = name THEN 0 ELSE ns[k].means)
    BY <1>2, SMTT(30)
  <2>3. CASE i = -1
    <3>1. j = -1
      BY <1>0, <2>2, <2>3
    <3> QED
      BY <2>1, <2>2, <2>3, <3>1
  <2>4. CASE i = index
    <3>1. j = -1 /\ i # -1
      BY <1>0, <2>2, <2>4
    <3> QED
      BY <2>1, <2>2, <2>4, <3>1
  <2>5. ASSUME i # -1, i # index
        PROVE  /\ i + 1 \in 1 .. Len(s) /\ s[i + 1].name = ns[k].means
               /\ new[k].means = s[i + 1].name
    <3>1. i < Len(s) /\ s[i + 1].name = ns[k].means /\ i + 1 \in 1 .. Len(s)
      BY <1>0, <2>1, <2>2, <2>5, SMTT(30)
    <3>2. index + 1 \in 1 .. Len(s) /\ i + 1 # index + 1
      BY <1>0, <2>5
    <3>3. s[i + 1].name # s[index + 1].name
      BY <3>1, <3>2 DEF Tabled
    <3> QED
      BY <2>2, <3>1, <3>3
  <2>6. CASE i # -1 /\ i < index
    <3>1. j = i /\ i + 1 \in 1 .. n - 1 /\ i + 1 < index + 1
      BY <1>0, <2>2, <2>6, SMTT(30)
    <3>2. t[i + 1] = s[i + 1] /\ j < Len(t)
      BY <1>0, <1>5, <3>1
    <3> QED
      BY <2>2, <2>5, <2>6, <3>1, <3>2
  <2>7. CASE i > index
    <3>1. /\ j = i - 1 /\ j # -1 /\ j + 1 \in 1 .. n - 1 /\ ~(j + 1 < index + 1)
          /\ j + 1 + 1 = i + 1 /\ i # -1
      BY <1>0, <2>2, <2>5, <2>7, SMTT(30)
    <3>2. t[j + 1] = s[i + 1] /\ j < Len(t)
      BY <1>0, <1>5, <3>1, SMTT(30)
    <3> QED
      BY <2>2, <2>5, <2>7, <3>1, <3>2
  <2>8. i = -1 \/ i = index \/ (i # -1 /\ i < index) \/ i > index
    BY <1>0
  <2> QED
    BY <2>3, <2>4, <2>6, <2>7, <2>8, SMTT(30)
<1> QED
  BY <1>4, <1>5

\* FindNode finds what is at a place.
LEMMA NodeFound ==
  ASSUME PlacedOnce(nodes), NEW at
  PROVE  /\ Pv!FindNode(at) = 0 => \A k \in 1 .. Len(nodes) : nodes[k].at # at
         /\ Pv!FindNode(at) # 0 =>
              Pv!FindNode(at) \in 1 .. Len(nodes) /\ nodes[Pv!FindNode(at)].at = at
<1>1. PICK found : found = {k \in DOMAIN nodes : nodes[k].at = at}
  OBVIOUS
<1>2. DOMAIN nodes = 1 .. Len(nodes) /\ Len(nodes) \in Nat
  BY NodesHave
<1>3. CASE found = {}
  <2>1. Pv!FindNode(at) = 0
    BY <1>1, <1>3 DEF Pv!FindNode
  <2> QED
    BY <1>1, <1>2, <1>3, <2>1
<1>4. CASE found # {}
  <2>1. Pv!FindNode(at) = CHOOSE k \in found : \A j \in found : k <= j
    BY <1>1, <1>4 DEF Pv!FindNode
  <2>2. \E k \in found : \A j \in found : k <= j
    BY <1>1, <1>2, <1>4, Least
  <2>3. Pv!FindNode(at) \in found
    BY <2>1, <2>2
  <2> QED
    BY <1>1, <1>2, <2>3
<1> QED
  BY <1>3, <1>4

\* What a drawing is without one of its symbols, and with one where none is.
LEMMA NodeTakenOut ==
  ASSUME NEW ns, PlacedOnce(ns), NEW m \in 1 .. Len(ns), NEW new, new = RemoveAt(ns, m)
  PROVE  /\ PlacedOnce(new) /\ \A k \in 1 .. Len(new) : new[k].at # ns[m].at
         /\ \A s : Linked(ns, s) => Linked(new, s)
<1>1. Len(ns) \in Nat /\ ns \in Seq(NodeRecords)
  BY NodesHave DEF PlacedOnce
<1>2. /\ new \in Seq(NodeRecords) /\ Len(new) = Len(ns) - 1
      /\ \A k \in 1 .. Len(ns) - 1 : new[k] = IF k < m THEN ns[k] ELSE ns[k + 1]
  BY <1>1, TakingOut, ZenonT(60) DEF Lacks
<1>3. ASSUME NEW k \in 1 .. Len(new)
      PROVE  \E l \in 1 .. Len(ns) : l = (IF k < m THEN k ELSE k + 1) /\ l # m /\ new[k] = ns[l]
  BY <1>1, <1>2, SMTT(30)
<1>4. ASSUME NEW j \in 1 .. Len(new), NEW k \in 1 .. Len(new), j # k
      PROVE  new[j].at # new[k].at
  <2>1. PICK i \in 1 .. Len(ns) : i = (IF j < m THEN j ELSE j + 1) /\ new[j] = ns[i]
    BY <1>3
  <2>2. PICK l \in 1 .. Len(ns) : l = (IF k < m THEN k ELSE k + 1) /\ new[k] = ns[l]
    BY <1>3
  <2>3. i # l
    BY <1>1, <1>2, <1>4, <2>1, <2>2
  <2> QED
    BY <2>1, <2>2, <2>3 DEF PlacedOnce
<1>5. PlacedOnce(new)
  BY <1>2, <1>3, <1>4 DEF PlacedOnce
<1>6. \A k \in 1 .. Len(new) : new[k].at # ns[m].at
  BY <1>3 DEF PlacedOnce
<1> QED
  BY <1>3, <1>5, <1>6, SMTT(30) DEF Linked

LEMMA NodePutIn ==
  ASSUME NEW ns, PlacedOnce(ns), NEW n \in NodeRecords, n.op1 >= -1,
         \A k \in 1 .. Len(ns) : ns[k].at # n.at, NEW new, new = Append(ns, n)
  PROVE  /\ PlacedOnce(new)
         /\ \A s : /\ Linked(ns, s)
                   /\ IF n.op1 = -1 THEN n.means = 0
                      ELSE n.op1 < Len(s) /\ s[n.op1 + 1].name = n.means
                   => Linked(new, s)
<1>1. Len(ns) \in Nat /\ ns \in Seq(NodeRecords)
  BY NodesHave DEF PlacedOnce
<1>2. /\ new \in Seq(NodeRecords) /\ Len(new) = Len(ns) + 1
      /\ \A k \in 1 .. Len(ns) : new[k] = ns[k]
      /\ new[Len(ns) + 1] = n
  BY <1>1, AppendProperties
<1>3. \A k \in 1 .. Len(new) : k \in 1 .. Len(ns) \/ k = Len(ns) + 1
  BY <1>1, <1>2
<1>4. \A j, k \in 1 .. Len(new) : j # k => new[j].at # new[k].at
  BY <1>2, <1>3 DEF PlacedOnce
<1>5. \A k \in 1 .. Len(new) : new[k].op1 >= -1
  BY <1>2, <1>3 DEF PlacedOnce
<1>6. PlacedOnce(new)
  BY <1>2, <1>4, <1>5 DEF PlacedOnce
<1>7. ASSUME NEW s, Linked(ns, s),
             IF n.op1 = -1 THEN n.means = 0 ELSE n.op1 < Len(s) /\ s[n.op1 + 1].name = n.means
      PROVE  Linked(new, s)
  BY <1>2, <1>3, <1>7 DEF Linked
<1> QED
  BY <1>6, <1>7

-----------------------------------------------------------------------------
\* A step that leaves the drawing, the dialog, the file and the names alone.
LEMMA OnlyValues ==
  ASSUME ValuesInv, UNCHANGED <<nodes, dialog, astray, file>>, NEW value,
         list' = [i \in DOMAIN list |-> [list[i] EXCEPT !.value = value[i]]]
  PROVE  ValuesInv'
<1>1. PICK new : new = list'
  OBVIOUS
<1>2. Tabled(new) /\ (Linked(nodes, list) => Linked(nodes, new))
  BY <1>1, OtherValues DEF ValuesInv
<1>3. FromFile' = FromFile /\ Picked'
  BY DEF FromFile, ValuesInv, Picked
<1> QED
  BY <1>1, <1>2, <1>3 DEF ValuesInv

LEMMA DrawingLeft ==
  ASSUME ValuesInv, UNCHANGED <<list, nodes, astray, file>>, Picked'
  PROVE  ValuesInv'
<1>1. FromFile' = FromFile
  BY DEF FromFile
<1> QED
  BY <1>1 DEF ValuesInv

\* A step that leaves the table and the file alone.
LEMMA DrawingChanges ==
  ASSUME ValuesInv, UNCHANGED <<list, file>>, Picked', astray' \in BOOLEAN,
         PlacedOnce(nodes'), astray' = FALSE => astray = FALSE /\ Linked(nodes', list)
  PROVE  ValuesInv'
<1>1. FromFile' = FromFile
  BY DEF FromFile
<1> QED
  BY <1>1 DEF ValuesInv

LEMMA ProjectVariableAdded ==
  ASSUME ValuesInv, NEW v \in Added, Pv!AddVariable(v)
  PROVE  ValuesInv'
<1>1. PICK at, s : at = Splice(list, v) /\ s = Sorted(Append(list, v))
  OBVIOUS
<1>2. /\ ~Exists(list, v.name) /\ list' = s /\ UNCHANGED <<dialog, file>>
      /\ nodes' = [k \in DOMAIN nodes |-> [nodes[k] EXCEPT !.op1 = MovedUp(nodes[k].op1, at)]]
      /\ astray' = (astray \/ \A i \in DOMAIN list : Before(list[i], v))
  BY <1>1, SameList DEF Pv!AddVariable, Pv!Assign
<1>3. /\ Tabled(s) /\ Len(s) = Len(list) + 1 /\ at \in Nat
      /\ \/ \A i \in 1 .. Len(list) : Before(list[i], v)
         \/ /\ at \in 1 .. Len(list) - 1
            /\ \A k \in 1 .. Len(list) + 1 :
                 s[k] = IF k < at + 1 THEN list[k] ELSE IF k = at + 1 THEN v ELSE list[k - 1]
  BY <1>1, <1>2, TableGrows, SMTT(30) DEF ValuesInv
<1>4. PICK new : new = [k \in DOMAIN nodes |-> [nodes[k] EXCEPT !.op1 = MovedUp(nodes[k].op1, at)]]
  OBVIOUS
<1>5. PlacedOnce(new)
  BY <1>3, <1>4, LinksMoveUp DEF ValuesInv
<1>6. Len(list) \in Nat /\ DOMAIN list = 1 .. Len(list)
  BY TabledHas DEF ValuesInv
<1>7. astray' \in BOOLEAN
  BY <1>2 DEF ValuesInv
<1>8. ASSUME astray' = FALSE PROVE Linked(new, s) /\ astray = FALSE
  <2>1. astray = FALSE /\ ~\A i \in 1 .. Len(list) : Before(list[i], v)
    BY <1>2, <1>6, <1>8 DEF ValuesInv
  <2>2. /\ at \in 1 .. Len(list) - 1
        /\ \A k \in 1 .. Len(list) + 1 :
             s[k] = IF k < at + 1 THEN list[k] ELSE IF k = at + 1 THEN v ELSE list[k - 1]
    BY <1>3, <2>1
  <2>3. Linked(nodes, list)
    BY <2>1 DEF ValuesInv
  <2> QED
    <3>1. PlacedOnce(nodes) /\ at \in Nat
      BY <1>3 DEF ValuesInv
    <3>2. /\ Linked(nodes, list) /\ Len(list) \in Nat /\ at \in 1 .. Len(list) - 1
          /\ Len(s) = Len(list) + 1
          /\ \A k \in 1 .. Len(list) + 1 :
               s[k] = IF k < at + 1 THEN list[k] ELSE IF k = at + 1 THEN v ELSE list[k - 1]
      BY <1>3, <1>6, <2>2, <2>3
    <3>3. Linked(new, s)
      BY <1>4, <3>1, <3>2, LinksMoveUp
    <3> QED
      BY <2>1, <3>3
<1>9. FromFile' = FromFile /\ Picked'
  BY <1>2 DEF FromFile, ValuesInv, Picked
<1> QED
  BY <1>2, <1>3, <1>4, <1>5, <1>7, <1>8, <1>9 DEF ValuesInv

LEMMA ProjectVariableRemoved ==
  ASSUME ValuesInv, NEW index \in 0 .. Len(list) - 1, Pv!RemoveVariable(index)
  PROVE  ValuesInv'
<1>1. Len(list) \in Nat /\ DOMAIN list = 1 .. Len(list)
  BY TabledHas DEF ValuesInv
<1>2. PICK m \in 1 .. Len(list) : m = index + 1
  BY <1>1
<1>3. PICK s, name : s = RemoveAt(list, m) /\ name = list[m].name
  OBVIOUS
<1>4. PICK new : new = [k \in DOMAIN nodes |-> CutLink(nodes[k], index, name)]
  OBVIOUS
<1>5. /\ ~IsIO(list[m]) /\ list' = s /\ nodes' = new /\ UNCHANGED <<dialog, file, astray>>
  <2>1. /\ ~IsIO(list[m]) /\ list' = s /\ UNCHANGED <<dialog, file, astray>>
    BY <1>2, <1>3, SameList DEF Pv!RemoveVariable, Pv!Assign
  <2>2. nodes' = [k \in DOMAIN nodes |->
          [nodes[k] EXCEPT !.op1 = Pv!ClosedUp(nodes[k].op1, index),
                           !.means = IF nodes[k].means = name THEN 0 ELSE nodes[k].means]]
    BY <1>2, <1>3, ZenonT(60) DEF Pv!RemoveVariable
  <2>3. nodes' = new
    BY <1>4, <2>2, SameList DEF CutLink
  <2> QED
    BY <2>1, <2>3
<1>6. /\ Tabled(s) /\ Len(s) = Len(list) - 1
      /\ \A k \in 1 .. Len(list) - 1 : s[k] = IF k < m THEN list[k] ELSE list[k + 1]
  BY <1>3, <1>5, TableShrinks DEF ValuesInv
<1>7. PlacedOnce(new) /\ (Linked(nodes, list) => Linked(new, s))
  <2>1. PlacedOnce(nodes) /\ Tabled(list) /\ index \in 0 .. Len(list) - 1
    BY DEF ValuesInv
  <2>2. name = list[index + 1].name
    BY <1>2, <1>3
  <2>3. /\ Len(s) = Len(list) - 1
        /\ \A k \in 1 .. Len(list) - 1 : s[k] = IF k < index + 1 THEN list[k] ELSE list[k + 1]
    BY <1>2, <1>6
  <2>4. /\ PlacedOnce(new)
        /\ \A t : /\ Linked(nodes, list) /\ Len(t) = Len(list) - 1
                  /\ \A k \in 1 .. Len(list) - 1 :
                       t[k] = IF k < index + 1 THEN list[k] ELSE list[k + 1]
                  => Linked(new, t)
    BY ONLY <1>4, <2>1, <2>2, LinksCloseUp
  <2> QED
    BY ONLY <2>3, <2>4
<1>8. FromFile' = FromFile /\ Picked'
  BY <1>5 DEF FromFile, ValuesInv, Picked
<1> QED
  BY <1>5, <1>6, <1>7, <1>8 DEF ValuesInv

\* A place has its old symbol removed before it gets a new one.
LEMMA SymbolSet ==
  ASSUME ValuesInv, NEW at \in Places, NEW symbol \in Symbols \cup {"none"},
         Pv!SetNode(at, symbol)
  PROVE  ValuesInv'
<1>1. PICK rest : rest = IF Pv!FindNode(at) = 0 THEN nodes
                         ELSE Pv!RemoveAt(nodes, Pv!FindNode(at))
  OBVIOUS
<1>2. /\ nodes' = IF symbol = "none" THEN rest ELSE Append(rest, Pv!NewNode(at, symbol))
      /\ UNCHANGED <<dialog, astray, list, file>>
  BY <1>1 DEF Pv!SetNode, Pv!engineVars
<1>3. /\ PlacedOnce(rest) /\ \A k \in 1 .. Len(rest) : rest[k].at # at
      /\ \A s : Linked(nodes, s) => Linked(rest, s)
  <2>1. CASE Pv!FindNode(at) = 0
    BY <1>1, <2>1, NodeFound DEF ValuesInv
  <2>2. CASE Pv!FindNode(at) # 0
    <3>1. PICK m \in 1 .. Len(nodes) : m = Pv!FindNode(at) /\ nodes[m].at = at
      BY <2>2, NodeFound DEF ValuesInv
    <3>2. rest = RemoveAt(nodes, m)
      BY <1>1, <2>2, <3>1, SameList
    <3> QED
      BY <3>1, <3>2, NodeTakenOut DEF ValuesInv
  <2> QED
    BY <2>1, <2>2
<1>4. Picked'
  BY <1>2 DEF ValuesInv, Picked
<1>5. CASE symbol = "none"
  BY <1>2, <1>3, <1>4, <1>5, DrawingChanges DEF ValuesInv
<1>6. CASE symbol # "none"
  <2>1. PICK n : n = [at |-> at, type |-> symbol, op1 |-> 0, means |-> list[1].name]
    OBVIOUS
  <2>2. list[1].name \in Nat /\ Len(list) > 0 /\ Len(list) \in Nat
    BY TabledHas DEF ValuesInv
  <2>3. at \in Int /\ symbol \in STRING
    BY <1>6, ValuesAssumption
  <2>4. /\ n \in NodeRecords /\ n.op1 = 0 /\ n.at = at /\ n.means = list[0 + 1].name
    BY <2>1, <2>2, <2>3 DEF NodeRecords
  <2>5. nodes' = Append(rest, n)
    BY <1>2, <1>6, <2>1 DEF Pv!NewNode
  <2>6. /\ n.op1 >= -1 /\ n.op1 # -1 /\ n.op1 < Len(list) /\ list[n.op1 + 1].name = n.means
        /\ \A k \in 1 .. Len(rest) : rest[k].at # n.at
    BY <1>3, <2>2, <2>4
  <2>7. PICK new : new = nodes'
    OBVIOUS
  <2>8. PlacedOnce(rest) /\ n \in NodeRecords /\ new = Append(rest, n)
    BY <1>3, <2>4, <2>5, <2>7
  <2>9. /\ PlacedOnce(new)
        /\ \A s : /\ Linked(rest, s)
                  /\ IF n.op1 = -1 THEN n.means = 0
                     ELSE n.op1 < Len(s) /\ s[n.op1 + 1].name = n.means
                  => Linked(new, s)
    BY ONLY <2>6, <2>8, NodePutIn
  <2>10. Linked(nodes, list) => Linked(new, list)
    BY <1>3, <2>6, <2>9
  <2> QED
    BY <1>2, <1>4, <2>7, <2>9, <2>10, DrawingChanges DEF ValuesInv
<1> QED
  BY <1>5, <1>6

\* The link that is picked in the dialog.
LEMMA LinkPicked ==
  ASSUME ValuesInv, NEW index \in 0 .. Len(list) + 1, Pv!PropOk(index)
  PROVE  ValuesInv'
<1>1. PICK k : k = Pv!FindNode(dialog.at)
  OBVIOUS
<1>2. PICK name \in Nat : name = dialog.names[index + 1]
  BY DEF Pv!PropOk, ValuesInv, Picked
<1>3. UNCHANGED <<list, file>> /\ (dialog' = dialog \/ dialog' = Pv!None)
  BY DEF Pv!PropOk, Pv!engineVars
<1>4. Picked'
  BY <1>3 DEF ValuesInv, Picked
<1>5. CASE UNCHANGED <<nodes, astray>>
  BY <1>3, <1>4, <1>5, DrawingLeft
<1>6. CASE ~UNCHANGED <<nodes, astray>>
  <2>1. /\ k # 0
        /\ nodes' = [nodes EXCEPT ![k].op1 = index, ![k].means = name]
        /\ astray' = (astray \/ index >= Len(list) \/ list[index + 1].name # name)
    BY <1>1, <1>2, <1>6 DEF Pv!PropOk
  <2>2. k \in 1 .. Len(nodes) /\ Len(nodes) \in Nat /\ nodes[k] \in NodeRecords
    BY <1>1, <2>1, NodeFound, NodesHave DEF ValuesInv
  <2>3. Len(list) \in Nat /\ index \in Nat /\ DOMAIN nodes = 1 .. Len(nodes)
    BY TabledHas, NodesHave DEF ValuesInv
  <2>4. PICK n : n = [nodes[k] EXCEPT !.op1 = index, !.means = name]
    OBVIOUS
  <2>5. n \in NodeRecords /\ n.at = nodes[k].at /\ n.op1 = index /\ n.means = name
    <3>1. PICK old \in NodeRecords : old = nodes[k]
      BY <2>2
    <3>2. n = [old EXCEPT !.op1 = index, !.means = name] /\ index \in Int
      BY <2>3, <2>4, <3>1
    <3>3. n \in NodeRecords /\ n.at = old.at /\ n.op1 = index /\ n.means = name
      BY <3>2 DEF NodeRecords
    <3> QED
      BY <3>1, <3>3
  <2>6. nodes' = [nodes EXCEPT ![k] = n]
    BY <2>1, <2>2, <2>3, <2>4
  <2>7. /\ nodes' \in Seq(NodeRecords) /\ Len(nodes') = Len(nodes) /\ nodes'[k] = n
        /\ \A j \in 1 .. Len(nodes) : j # k => nodes'[j] = nodes[j]
    <3>1. nodes \in Seq(NodeRecords)
      BY DEF ValuesInv, PlacedOnce
    <3> QED
      BY <2>2, <2>5, <2>6, <3>1, ExceptSeq
  <2>8. \A j \in 1 .. Len(nodes) : nodes'[j].at = nodes[j].at
    BY <2>5, <2>7
  <2>9. PlacedOnce(nodes')
    <3>1. \A i, j \in 1 .. Len(nodes) : i # j => nodes[i].at # nodes[j].at
      BY DEF ValuesInv, PlacedOnce
    <3>2. \A j \in 1 .. Len(nodes) : nodes'[j].op1 >= -1
      BY <2>3, <2>5, <2>7 DEF ValuesInv, PlacedOnce
    <3> QED
      BY <2>7, <2>8, <3>1, <3>2 DEF PlacedOnce
  <2>10. astray' \in BOOLEAN
    BY <2>1 DEF ValuesInv
  <2>11. ASSUME astray' = FALSE PROVE astray = FALSE /\ Linked(nodes', list)
    <3>1. astray = FALSE /\ index < Len(list) /\ list[index + 1].name = name
      <4>1. astray = FALSE /\ ~(index >= Len(list)) /\ list[index + 1].name = name
        BY <2>1, <2>11 DEF ValuesInv
      <4> QED
        BY <2>3, <4>1
    <3>2. Linked(nodes, list)
      BY <3>1 DEF ValuesInv
    <3>3. index # -1
      BY <2>3
    <3> QED
      BY <2>5, <2>7, <3>1, <3>2, <3>3 DEF Linked
  <2> QED
    BY <1>3, <1>4, <2>9, <2>10, <2>11, DrawingChanges
<1> QED
  BY <1>5, <1>6

\* What is written is what is read.
LEMMA FileReadsBack ==
  ASSUME NEW n \in NodeRecords
  PROVE  Pv!Imported(Pv!Exported(n)) = n
<1>1. n = [at |-> n.at, type |-> n.type, op1 |-> n.op1, means |-> n.means]
  BY DEF NodeRecords
<1>2. CASE n.op1 = -1
  <2>1. Pv!Exported(n) = [t |-> n.type, at |-> n.at, means |-> n.means]
    BY <1>2 DEF Pv!Exported
  <2>2. Pv!Imported(Pv!Exported(n)) = [at |-> n.at, type |-> n.type, means |-> n.means, op1 |-> -1]
    BY <2>1 DEF Pv!Imported
  <2> QED
    BY <1>1, <1>2, <2>2
<1>3. CASE n.op1 # -1
  <2>1. Pv!Exported(n) = [t |-> n.type, at |-> n.at, means |-> n.means, o1 |-> n.op1]
    BY <1>3 DEF Pv!Exported
  <2>2. Pv!Imported(Pv!Exported(n)) =
          [at |-> n.at, type |-> n.type, means |-> n.means, op1 |-> n.op1]
    BY <2>1 DEF Pv!Imported
  <2> QED
    BY <1>1, <2>2
<1> QED
  BY <1>2, <1>3

\* A drawing that is saved is loaded as it was.
LEMMA ProjectSaved ==
  ASSUME ValuesInv, Pv!Save
  PROVE  ValuesInv'
<1>1. /\ file' = [nodes |-> [k \in DOMAIN nodes |-> Pv!Exported(nodes[k])], vars |-> list]
      /\ UNCHANGED <<nodes, dialog, astray, list>>
  BY DEF Pv!Save, Pv!drawingVars
<1>2. file'.vars = list /\ DOMAIN file'.nodes = DOMAIN nodes
      /\ \A k \in DOMAIN nodes : file'.nodes[k] = Pv!Exported(nodes[k])
  BY <1>1
<1>3. nodes \in Seq(NodeRecords) /\ DOMAIN nodes = 1 .. Len(nodes)
      /\ \A k \in 1 .. Len(nodes) : nodes[k] \in NodeRecords
  BY NodesHave DEF ValuesInv, PlacedOnce
<1>4. \A k \in DOMAIN nodes : Pv!Imported(file'.nodes[k]) = nodes[k]
  BY <1>2, <1>3, FileReadsBack
<1>5. FromFile' = nodes
  <2>1. FromFile' = [k \in DOMAIN nodes |-> nodes[k]]
    BY <1>2, <1>4 DEF FromFile
  <2>2. nodes \in [1 .. Len(nodes) -> NodeRecords]
    BY <1>3, LenProperties
  <2> QED
    BY <2>1, <2>2
<1>6. Picked'
  BY <1>1 DEF ValuesInv, Picked
<1> QED
  BY <1>1, <1>2, <1>5, <1>6 DEF ValuesInv

LEMMA SortedStays ==
  ASSUME NEW s, Tabled(s)
  PROVE  Sorted(s) = s
<1>1. PICK S : s \in Seq(S)
  BY DEF Tabled
<1>2. PICK n \in Nat : n = Len(s) /\ DOMAIN s = 1 .. n
  BY TabledHas
<1>3. PICK w : w = [k \in 1 .. n |-> k]
  OBVIOUS
<1>4. w \in Bijection(1 .. n, 1 .. n)
  BY <1>3 DEF Bijection, Injection, Surjection, IsInjective
<1>5. SameElements(s, s, n, w)
  BY <1>1, <1>2, <1>3, <1>4 DEF SameElements
<1> QED
  BY <1>1, <1>5, TabledHas, SortsTo

LEMMA ProjectLoaded ==
  ASSUME ValuesInv, Pv!Load
  PROVE  ValuesInv'
<1>1. nodes' = FromFile /\ list' = Pv!Sorted(file.vars) /\ UNCHANGED <<dialog, file, astray>>
  BY DEF Pv!Load, FromFile
<1>2. list' = file.vars
  BY <1>1, SameList, SortedStays DEF ValuesInv
<1>3. FromFile' = FromFile /\ Picked'
  BY <1>1 DEF FromFile, ValuesInv, Picked
<1> QED
  BY <1>1, <1>2, <1>3 DEF ValuesInv

\* A click on a symbol changes a value in the list.
LEMMA SymbolToggled ==
  ASSUME ValuesInv, NEW k \in 1 .. Len(nodes), nodes[k].op1 \in 0 .. Len(list) - 1,
         Pv!ToggleNode(k)
  PROVE  ValuesInv'
<1>1. PICK m \in Int : m = nodes[k].op1 + 1
  OBVIOUS
<1>2. PICK new : new = Pv!Toggled(list[m])
  OBVIOUS
<1>3. list' = [list EXCEPT ![m].value = new] /\ UNCHANGED <<nodes, dialog, astray, file>>
  BY <1>1, <1>2 DEF Pv!ToggleNode, Pv!drawingVars
<1>4. PICK V, S : list \in Seq(S) /\ S = VarRecords(V)
  BY DEF ValuesInv, Tabled
<1>5. DOMAIN list = 1 .. Len(list) /\ Len(list) \in Nat /\ m \in 1 .. Len(list)
  BY <1>1, TabledHas DEF ValuesInv
<1>6. PICK value : value = [i \in DOMAIN list |-> IF i = m THEN new ELSE list[i].value]
  OBVIOUS
<1>7. PICK t : t = [i \in DOMAIN list |-> [list[i] EXCEPT !.value = value[i]]]
  OBVIOUS
<1>8. ASSUME NEW i \in DOMAIN list
      PROVE  t[i] = IF i = m THEN [list[i] EXCEPT !.value = new] ELSE list[i]
  <2>1. list[i] \in VarRecords(V)
    BY <1>4, <1>5, ElementOfSeq
  <2>2. [list[i] EXCEPT !.value = list[i].value] = list[i]
    BY <2>1 DEF VarRecords
  <2>3. value[i] = IF i = m THEN new ELSE list[i].value
    BY <1>6
  <2> QED
    BY <1>7, <2>2, <2>3
<1>9. list' = t
  <2>1. list \in [1 .. Len(list) -> S]
    BY <1>4, LenProperties
  <2>2. list' = [i \in DOMAIN list |-> IF i = m THEN [list[i] EXCEPT !.value = new] ELSE list[i]]
    BY <1>3, <2>1
  <2> QED
    BY <1>7, <1>8, <2>2
<1> QED
  BY <1>3, <1>7, <1>9, OnlyValues

\* What is read from the engine's memory are values.
LEMMA ValuesRead ==
  ASSUME ValuesInv, UNCHANGED <<nodes, dialog, astray, file>>, NEW m,
         list' = Pv!WithValues(list, m)
  PROVE  ValuesInv'
<1>1. PICK value : value = [i \in DOMAIN list |-> Pv!ValueAt(list, m, i)]
  OBVIOUS
<1>2. list' = [i \in DOMAIN list |-> [list[i] EXCEPT !.value = value[i]]]
  BY <1>1 DEF Pv!WithValues
<1> QED
  BY <1>2, OnlyValues

\* The dialog of a cell shows the names in the table.
LEMMA CellSelected ==
  ASSUME ValuesInv, NEW k, Pv!SelectCell(k)
  PROVE  ValuesInv'
<1>1. /\ dialog' = [at |-> nodes[k].at, names |-> [i \in DOMAIN list |-> list[i].name]]
      /\ UNCHANGED <<list, nodes, astray, file>>
  BY DEF Pv!SelectCell, Pv!engineVars
<1>2. dialog'.names = [i \in DOMAIN list |-> list[i].name]
  BY <1>1
<1>3. \A i \in DOMAIN list : list[i].name \in Nat
  BY TabledHas DEF ValuesInv
<1>4. Picked'
  BY <1>2, <1>3 DEF Picked
<1> QED
  BY <1>1, <1>4, DrawingLeft

LEMMA ValuesKept ==
  ASSUME ValuesInv, [Pv!ValuesNext]_Pv!valueVars
  PROVE  ValuesInv'
<1>1. ASSUME NEW v \in Added, Pv!AddVariable(v) PROVE ValuesInv'
  BY <1>1, ProjectVariableAdded
<1>2. ASSUME NEW index \in 0 .. Len(list) - 1, Pv!RemoveVariable(index) PROVE ValuesInv'
  BY <1>2, ProjectVariableRemoved
<1>3. ASSUME NEW t, Pv!ClickIcon(t) PROVE ValuesInv'
  <2>1. UNCHANGED <<list, nodes, astray, file, dialog>>
    BY <1>3 DEF Pv!ClickIcon, Pv!engineVars
  <2> QED
    BY <2>1, DrawingLeft DEF ValuesInv, Picked
<1>4. ASSUME NEW index \in 0 .. Len(list) + 1, Pv!PropOk(index) PROVE ValuesInv'
  BY <1>4, LinkPicked
<1>5. CASE Pv!PropCancel
  <2>1. UNCHANGED <<list, nodes, astray, file>> /\ dialog' = Pv!None
    BY <1>5 DEF Pv!PropCancel, Pv!engineVars
  <2>2. Picked'
    BY <2>1 DEF Picked
  <2> QED
    BY <2>1, <2>2, DrawingLeft
<1>6. CASE Pv!CpuUpdate
  <2>1. list' = Pv!WithValues(list, memory') /\ UNCHANGED <<nodes, dialog, astray, file>>
    BY <1>6 DEF Pv!CpuUpdate, Pv!drawingVars
  <2> QED
    BY <2>1, ValuesRead
<1>7. CASE Pv!GetvarsCommand
  <2>1. list' = Pv!WithValues(list, memory') /\ UNCHANGED <<nodes, dialog, astray, file>>
    BY <1>7 DEF Pv!GetvarsCommand, Pv!drawingVars
  <2> QED
    BY <2>1, ValuesRead
<1>8. ASSUME \/ Pv!Answer \/ Pv!SetVar \/ Pv!Reload
             \/ \E b \in BOOLEAN : Pv!SetMode(b)
             \/ \E i \in DOMAIN board.layout : Pv!BoardScan(i)
             \/ UNCHANGED Pv!valueVars
      PROVE  ValuesInv'
  <2>1. UNCHANGED <<list, nodes, astray, file, dialog>>
    BY <1>8 DEF Pv!Answer, Pv!SetVar, Pv!Reload, Pv!SetMode, Pv!BoardScan, Pv!drawingVars,
                Pv!engineVars, Pv!valueVars
  <2> QED
    BY <2>1, DrawingLeft DEF ValuesInv, Picked
<1>9. CASE Pv!Save
  BY <1>9, ProjectSaved
<1>10. CASE Pv!Load
  BY <1>10, ProjectLoaded
<1>11. ASSUME NEW at \in Places, Pv!MouseDown(at) PROVE ValuesInv'
  <2>1. CASE tool \in Symbols \cup {"none"} /\ Pv!SetNode(at, tool)
    BY <2>1, SymbolSet
  <2>2. PICK k : k = Pv!FindNode(at)
    OBVIOUS
  <2>3. CASE k # 0 /\ tool = "select" /\ Pv!SelectCell(k)
    BY <2>3, CellSelected
  <2>4. CASE k # 0 /\ nodes[k].op1 \in 0 .. Len(list) - 1 /\ Pv!ToggleNode(k)
    <3>1. k \in 1 .. Len(nodes)
      BY <2>2, <2>4, NodeFound DEF ValuesInv
    <3> QED
      BY <2>4, <3>1, SymbolToggled
  <2> QED
    BY <1>11, <2>1, <2>2, <2>3, <2>4 DEF Pv!MouseDown
<1>12. CASE Pv!EditTable
  BY <1>1, <1>2, <1>12 DEF Pv!EditTable
<1>13. CASE Pv!Draw
  BY <1>3, <1>4, <1>5, <1>13 DEF Pv!Draw
<1>14. CASE Pv!Exchange
  BY <1>6, <1>7, <1>8, <1>14 DEF Pv!Exchange
<1> QED
  BY <1>8, <1>9, <1>10, <1>11, <1>12, <1>13, <1>14 DEF Pv!ValuesNext

LEMMA ValuesBegin ==
  ASSUME Pv!ValuesInit
  PROVE  ValuesInv
<1>1. /\ list = Initial /\ nodes \in Drawn /\ dialog = Pv!None /\ astray = FALSE
      /\ file = [nodes |-> [k \in DOMAIN nodes |-> Pv!Exported(nodes[k])], vars |-> list]
  BY DEF Pv!ValuesInit
<1>2. PICK V : V = Seq(Nat)
  OBVIOUS
<1>3. PICK S, T : S = VarRecords(V) /\ T = [name : Nat, type : Nat, value : Seq(Nat)]
  OBVIOUS
<1>4. list \in Seq(S)
  <2>1. T \subseteq S
    BY <1>2, <1>3 DEF VarRecords
  <2>2. list \in Seq(T)
    BY <1>1, <1>3, ValuesAssumption
  <2> QED
    BY <2>1, <2>2, SeqMonotonic
<1>5. DOMAIN list = 1 .. Len(list) /\ Len(list) \in Nat
  BY <1>4, LenProperties
<1>6. Len(list) > 0
  <2>1. list # <<>>
    BY <1>1, ValuesAssumption
  <2> QED
    BY <1>4, <2>1, EmptySeq
<1>7. Tabled(list)
  <2>1. list[1].type \in {DIN, DOUT} /\ Ascending(list)
    BY <1>1, ValuesAssumption DEF Ascending
  <2>2. \A i, j \in 1 .. Len(list) : list[i].name = list[j].name => i = j
    BY <1>1, <1>5, ValuesAssumption
  <2> QED
    BY <1>3, <1>4, <1>6, <2>1, <2>2 DEF Tabled
<1>8. /\ nodes \in Seq(NodeRecords) /\ DOMAIN nodes = 1 .. Len(nodes) /\ Len(nodes) \in Nat
      /\ nodes \in [1 .. Len(nodes) -> NodeRecords]
  <2>1. nodes \in Seq(NodeRecords)
    BY <1>1, ValuesAssumption DEF NodeRecords
  <2> QED
    BY <2>1, LenProperties
<1>9. ASSUME NEW k \in 1 .. Len(nodes)
      PROVE  /\ nodes[k].op1 \in 0 .. Len(list) - 1 /\ nodes[k].op1 >= -1 /\ nodes[k].op1 # -1
             /\ nodes[k].op1 < Len(list) /\ list[nodes[k].op1 + 1].name = nodes[k].means
  <2>1. nodes[k].op1 \in 0 .. Len(list) - 1 /\ list[nodes[k].op1 + 1].name = nodes[k].means
    BY <1>1, <1>8, ValuesAssumption
  <2>2. PICK i \in Int : i = nodes[k].op1
    BY <2>1
  <2>3. i >= -1 /\ i # -1 /\ i < Len(list)
    BY <1>5, <2>1, <2>2
  <2> QED
    BY <2>1, <2>2, <2>3
<1>10. PlacedOnce(nodes) /\ Linked(nodes, list)
  <2>1. \A d \in Drawn : \A j, k \in DOMAIN d : j # k => d[j].at # d[k].at
    BY ValuesAssumption
  <2>2. \A j, k \in 1 .. Len(nodes) : j # k => nodes[j].at # nodes[k].at
    BY <1>1, <1>8, <2>1
  <2> QED
    BY <1>8, <1>9, <2>2 DEF PlacedOnce, Linked
<1>11. FromFile = nodes /\ file.vars = list
  <2>1. file.vars = list /\ DOMAIN file.nodes = DOMAIN nodes
        /\ \A k \in DOMAIN nodes : file.nodes[k] = Pv!Exported(nodes[k])
    BY <1>1
  <2>2. \A k \in DOMAIN nodes : Pv!Imported(file.nodes[k]) = nodes[k]
    BY <1>8, <2>1, FileReadsBack
  <2>3. FromFile = [k \in DOMAIN nodes |-> nodes[k]]
    BY <2>1, <2>2 DEF FromFile
  <2> QED
    BY <1>8, <2>1, <2>3
<1>12. Picked
  BY <1>1 DEF Picked
<1> QED
  BY <1>1, <1>7, <1>10, <1>11, <1>12 DEF ValuesInv

LEMMA DrawingIsRight ==
  ASSUME ValuesInv
  PROVE  DrawingKept
<1>1. DOMAIN nodes = 1 .. Len(nodes) /\ \A k \in 1 .. Len(nodes) : nodes[k] \in NodeRecords
  BY NodesHave DEF ValuesInv
<1>2. \A j, k \in DOMAIN nodes : j # k => nodes[j].at # nodes[k].at
  BY <1>1 DEF ValuesInv, PlacedOnce
<1>3. astray \/ \A k \in DOMAIN nodes :
        IF nodes[k].op1 = -1 THEN nodes[k].means = 0
        ELSE nodes[k].op1 < Len(list) /\ list[nodes[k].op1 + 1].name = nodes[k].means
  BY <1>1 DEF ValuesInv, Linked
<1>4. \A k \in DOMAIN nodes : Pv!Imported(Pv!Exported(nodes[k])) = nodes[k]
  BY <1>1, FileReadsBack
<1> QED
  BY <1>2, <1>3, <1>4 DEF DrawingKept, Pv!DrawingKept

\* Whatever project is open and whatever its user adds, draws, links, toggles,
\* saves and loads: no two symbols share a place, and every link names the
\* variable that was picked for it, up to a stale dialog or a variable that
\* sorts last.
THEOREM DrawingIsKept == Pv!ValuesSpec => []DrawingKept
<1>1. Pv!ValuesInit => ValuesInv
  BY ValuesBegin
<1>2. ValuesInv /\ [Pv!ValuesNext]_Pv!valueVars => ValuesInv'
  BY ValuesKept
<1>3. ValuesInv => DrawingKept
  BY DrawingIsRight
<1> QED
  BY <1>1, <1>2, <1>3, PTL DEF Pv!ValuesSpec

-----------------------------------------------------------------------------
(* The values of the variables (ProjectValues).                            *)

Steps(step, A, n) == step \in [A \X (1 .. n) -> A]

\* g has the results of a loop after each of its n steps.
Runs(g, base, step, n) == g[0] = base /\ \A i \in 1 .. n : g[i] = step[<<g[i - 1], i>>]

\* A loop has results.
LEMMA LoopRuns ==
  ASSUME NEW A, NEW base \in A, NEW n \in Nat, NEW step, Steps(step, A, n)
  PROVE  \E g \in [0 .. n -> A] : Runs(g, base, step, n)
<1> USE DEF Steps, Runs
<1>1. PICK bad : bad = {k \in 0 .. n : ~ \E g \in [0 .. k -> A] : Runs(g, base, step, k)}
  OBVIOUS
<1>2. CASE bad = {}
  <2>1. n \in 0 .. n
    OBVIOUS
  <2> QED
    BY <1>1, <1>2, <2>1
<1>3. CASE bad # {}
  <2>0. bad \subseteq Nat /\ bad # {}
    BY <1>1, <1>3
  <2>1. PICK k \in bad : \A j \in bad : k <= j
    BY <2>0, Least
  <2>2. k \in 0 .. n /\ ~ \E g \in [0 .. k -> A] : Runs(g, base, step, k)
    BY <1>1
  <2>3. k # 0
    <3>1. SUFFICES ASSUME k = 0 PROVE FALSE
      OBVIOUS
    <3>2. PICK g : g = [i \in 0 .. k |-> base]
      OBVIOUS
    <3>3. g \in [0 .. k -> A] /\ Runs(g, base, step, k)
      BY <3>1, <3>2
    <3> QED
      BY <2>2, <3>3
  <2>4. k - 1 \in 0 .. n /\ ~(k <= k - 1)
    BY <2>2, <2>3
  <2>5. k - 1 \notin bad
    BY <2>1, <2>4
  <2>6. PICK g \in [0 .. k - 1 -> A] : Runs(g, base, step, k - 1)
    BY <1>1, <2>4, <2>5
  <2>7. PICK a : a = step[<<g[k - 1], k>>]
    OBVIOUS
  <2>8. a \in A
    <3>1. g[k - 1] \in A /\ k \in 1 .. n
      BY <2>2, <2>3
    <3> QED
      BY <2>7, <3>1
  <2>9. PICK h : h = [i \in 0 .. k |-> IF i = k THEN a ELSE g[i]]
    OBVIOUS
  <2>10. h \in [0 .. k -> A]
    <3>1. ASSUME NEW i \in 0 .. k PROVE (IF i = k THEN a ELSE g[i]) \in A
      <4>1. i = k \/ i \in 0 .. k - 1
        BY <2>2
      <4> QED
        BY <2>8, <4>1
    <3> QED
      BY <2>9, <3>1
  <2>11. h[0] = base
    <3>1. 0 \in 0 .. k /\ 0 # k
      BY <2>2, <2>3
    <3> QED
      BY <2>6, <2>9, <3>1
  <2>12. ASSUME NEW i \in 1 .. k PROVE h[i] = step[<<h[i - 1], i>>]
    <3>1. i \in 0 .. k /\ i - 1 \in 0 .. k /\ i - 1 # k
      BY <2>2
    <3>2. CASE i = k
      BY <2>7, <2>9, <3>1, <3>2
    <3>3. CASE i # k
      <4>1. i \in 1 .. k - 1
        BY <2>2, <3>3
      <4> QED
        BY <2>6, <2>9, <3>1, <3>3, <4>1
    <3> QED
      BY <3>2, <3>3
  <2> QED
    BY <2>2, <2>10, <2>11, <2>12
<1> QED
  BY <1>2, <1>3

-----------------------------------------------------------------------------
(* The cells of the variables.                                             *)

LEMMA SizeIs ==
  ASSUME NEW v
  PROVE  Pv!Size(v) \in {1, 6} /\ (Pv!Size(v) = 6 <=> v.type = TMR)
BY DEF Pv!Size, Pv!TMR, TMR

LEMMA OffsetSteps ==
  ASSUME NEW s, Len(s) \in Nat
  PROVE  /\ \A i \in 0 .. Len(s) : Pv!Offset(s, i) \in Nat
         /\ Pv!Offset(s, 0) = 0
         /\ \A i \in 1 .. Len(s) : Pv!Offset(s, i) = Pv!Offset(s, i - 1) + Pv!Size(s[i])
<1>1. PICK n \in Nat : n = Len(s)
  OBVIOUS
<1>2. PICK step : step = [p \in Nat \X (1 .. n) |-> p[1] + Pv!Size(s[p[2]])]
  OBVIOUS
<1>3. step \in [Nat \X (1 .. n) -> Nat]
  BY <1>2, SizeIs
<1>4. PICK g \in [0 .. n -> Nat] : g[0] = 0 /\ \A i \in 1 .. n : g[i] = step[<<g[i - 1], i>>]
  <2>1. Steps(step, Nat, n) /\ 0 \in Nat
    BY <1>3 DEF Steps
  <2>2. PICK g \in [0 .. n -> Nat] : Runs(g, 0, step, n)
    BY <2>1, LoopRuns
  <2> QED
    BY <2>2 DEF Runs
<1>5. ASSUME NEW i \in 1 .. n PROVE g[i] = g[i - 1] + Pv!Size(s[i])
  <2>1. g[i - 1] \in Nat
    BY <1>4
  <2>2. <<g[i - 1], i>> \in Nat \X (1 .. n)
    BY <2>1
  <2> QED
    BY <1>2, <1>4, <2>2
<1>6. g = [i \in 0 .. n |-> IF i = 0 THEN 0 ELSE g[i - 1] + Pv!Size(s[i])]
  <2>1. ASSUME NEW i \in 0 .. n PROVE g[i] = IF i = 0 THEN 0 ELSE g[i - 1] + Pv!Size(s[i])
    <3>1. i = 0 \/ i \in 1 .. n
      OBVIOUS
    <3> QED
      BY <1>4, <1>5, <3>1
  <2> QED
    BY <1>4, <2>1
<1>7. PICK f : f = CHOOSE h : h = [i \in 0 .. Len(s) |-> IF i = 0 THEN 0 ELSE h[i - 1] + Pv!Size(s[i])]
  OBVIOUS
<1>8. f = [i \in 0 .. n |-> IF i = 0 THEN 0 ELSE f[i - 1] + Pv!Size(s[i])]
  BY <1>1, <1>6, <1>7
<1>9. \A i \in 0 .. n : Pv!Offset(s, i) = f[i]
  BY <1>1, <1>7 DEF Pv!Offset
<1>10. ASSUME NEW i \in 1 .. n PROVE f[i] = f[i - 1] + Pv!Size(s[i])
  <2>1. i \in 0 .. n /\ i # 0
    OBVIOUS
  <2> QED
    BY <1>8, <2>1
<1>11. f[0] = 0
  BY <1>8
<1>12. \A i \in 0 .. n : f[i] \in Nat
  <2>1. PICK bad : bad = {i \in 0 .. n : f[i] \notin Nat}
    OBVIOUS
  <2>2. CASE bad # {}
    <3>0. bad \subseteq Nat /\ bad # {}
      BY <2>1, <2>2
    <3>1. PICK k \in bad : \A j \in bad : k <= j
      BY <3>0, Least
    <3>2. k \in 1 .. n /\ k - 1 \in 0 .. n /\ ~(k <= k - 1)
      BY <1>11, <2>1
    <3>3. f[k - 1] \in Nat
      BY <2>1, <3>1, <3>2
    <3>4. f[k] = f[k - 1] + Pv!Size(s[k]) /\ Pv!Size(s[k]) \in {1, 6}
      BY <1>10, <3>2, SizeIs
    <3>5. f[k] \in Nat
      BY <3>3, <3>4
    <3> QED
      BY <2>1, <3>5
  <2> QED
    BY <2>1, <2>2
<1>13. \A i \in 1 .. n : Pv!Offset(s, i) = Pv!Offset(s, i - 1) + Pv!Size(s[i])
  <2> SUFFICES ASSUME NEW i \in 1 .. n
               PROVE  Pv!Offset(s, i) = Pv!Offset(s, i - 1) + Pv!Size(s[i])
    OBVIOUS
  <2>1. i \in 0 .. n /\ i - 1 \in 0 .. n
    OBVIOUS
  <2>2. Pv!Offset(s, i) = f[i] /\ Pv!Offset(s, i - 1) = f[i - 1]
    BY <1>9, <2>1
  <2> QED
    BY <1>10, <2>2
<1>14. \A i \in 0 .. n : Pv!Offset(s, i) \in Nat
  BY <1>9, <1>12
<1>15. Pv!Offset(s, 0) = 0
  BY <1>9, <1>11
<1> QED
  BY <1>1, <1>13, <1>14, <1>15

\* Of a loop that has a result the places are what its steps say.
LEMMA OffsetsGrow ==
  ASSUME NEW s, Len(s) \in Nat
  PROVE  \A i \in 1 .. Len(s), j \in 0 .. Len(s) :
           i <= j => Pv!Offset(s, i - 1) + Pv!Size(s[i]) <= Pv!Offset(s, j)
<1> SUFFICES ASSUME NEW i \in 1 .. Len(s)
             PROVE  \A j \in i .. Len(s) : Pv!Offset(s, i - 1) + Pv!Size(s[i]) <= Pv!Offset(s, j)
  OBVIOUS
<1>1. PICK a : a = Pv!Offset(s, i - 1) + Pv!Size(s[i])
  OBVIOUS
<1>2. a = Pv!Offset(s, i)
  BY <1>1, OffsetSteps
<1>3. PICK bad : bad = {j \in i .. Len(s) : ~(a <= Pv!Offset(s, j))}
  OBVIOUS
<1>4. CASE bad # {}
  <2>1. bad \subseteq Nat /\ bad # {}
    BY <1>3, <1>4
  <2>2. PICK k \in bad : \A j \in bad : k <= j
    BY <2>1, Least
  <2>3. k \in i .. Len(s) /\ ~(a <= Pv!Offset(s, k))
    BY <1>3
  <2>4. Pv!Offset(s, k) \in Nat /\ Pv!Offset(s, i) \in Nat
    BY <2>3, OffsetSteps
  <2>5. k # i
    BY <1>2, <2>3, <2>4
  <2>6. k - 1 \in i .. Len(s) /\ ~(k <= k - 1) /\ k \in 1 .. Len(s)
    BY <2>3, <2>5
  <2>7. a <= Pv!Offset(s, k - 1)
    BY <1>3, <2>2, <2>6
  <2>8. Pv!Offset(s, k) = Pv!Offset(s, k - 1) + Pv!Size(s[k]) /\ Pv!Offset(s, k - 1) \in Nat
    BY <2>6, OffsetSteps
  <2>9. Pv!Size(s[k]) \in {1, 6}
    BY SizeIs
  <2> QED
    BY <1>2, <2>3, <2>4, <2>7, <2>8, <2>9
<1> QED
  BY <1>1, <1>3, <1>4

\* The types alone say where the cells are.
LEMMA OffsetsSame ==
  ASSUME NEW s, NEW t, Len(s) \in Nat, Len(t) = Len(s),
         \A i \in 1 .. Len(s) : t[i].type = s[i].type
  PROVE  \A i \in 0 .. Len(s) : Pv!Offset(t, i) = Pv!Offset(s, i)
<1>1. PICK bad : bad = {i \in 0 .. Len(s) : Pv!Offset(t, i) # Pv!Offset(s, i)}
  OBVIOUS
<1>2. CASE bad # {}
  <2>1. bad \subseteq Nat /\ bad # {}
    BY <1>1, <1>2
  <2>2. PICK k \in bad : \A j \in bad : k <= j
    BY <2>1, Least
  <2>3. k \in 0 .. Len(s) /\ Pv!Offset(t, k) # Pv!Offset(s, k)
    BY <1>1
  <2>4. k # 0
    BY <2>3, OffsetSteps
  <2>5. k - 1 \in 0 .. Len(s) /\ ~(k <= k - 1) /\ k \in 1 .. Len(s) /\ k \in 1 .. Len(t)
    BY <2>3, <2>4
  <2>6. Pv!Offset(t, k - 1) = Pv!Offset(s, k - 1)
    BY <1>1, <2>2, <2>5
  <2>7. Pv!Size(t[k]) = Pv!Size(s[k])
    BY <2>5 DEF Pv!Size
  <2>8. /\ Pv!Offset(s, k) = Pv!Offset(s, k - 1) + Pv!Size(s[k])
        /\ Pv!Offset(t, k) = Pv!Offset(t, k - 1) + Pv!Size(t[k])
    BY <2>5, OffsetSteps
  <2> QED
    BY <2>3, <2>6, <2>7, <2>8
<1> QED
  BY <1>1, <1>2

\* The image has the bytes of every variable at its offset.
LEMMA ImageHas ==
  ASSUME NEW s, Len(s) \in Nat,
         \A i \in 1 .. Len(s) : Pv!Bytes(s[i]) \in Seq(Int) /\ Len(Pv!Bytes(s[i])) = Pv!Size(s[i])
  PROVE  /\ Pv!Image(s) \in Seq(Int) /\ Len(Pv!Image(s)) = Pv!Offset(s, Len(s))
         /\ \A i \in 1 .. Len(s) : \A k \in 1 .. Pv!Size(s[i]) :
              Pv!Image(s)[Pv!Offset(s, i - 1) + k] = Pv!Bytes(s[i])[k]
<1>1. PICK n \in Nat : n = Len(s)
  OBVIOUS
<1>2. PICK A : A = Seq(Int)
  OBVIOUS
<1>3. PICK step : step = [p \in A \X (1 .. n) |-> p[1] \o Pv!Bytes(s[p[2]])]
  OBVIOUS
<1>4. step \in [A \X (1 .. n) -> A]
  <2>1. \A a \in A, i \in 1 .. n : a \o Pv!Bytes(s[i]) \in A
    BY <1>1, <1>2, ConcatProperties
  <2> QED
    BY <1>3, <2>1
<1>5. PICK g \in [0 .. n -> A] : g[0] = <<>> /\ \A i \in 1 .. n : g[i] = step[<<g[i - 1], i>>]
  <2>1. Steps(step, A, n)
    BY <1>4 DEF Steps
  <2>2. PICK base : base = <<>> /\ base \in A
    <3>1. PICK base : base = <<>>
      OBVIOUS
    <3>2. base \in A
      BY <1>2, <3>1, EmptySeq
    <3> QED
      BY <3>1, <3>2
  <2>3. PICK g \in [0 .. n -> A] : Runs(g, base, step, n)
    BY <2>1, <2>2, LoopRuns
  <2> QED
    BY <2>2, <2>3 DEF Runs
<1>6. ASSUME NEW i \in 1 .. n PROVE g[i] = g[i - 1] \o Pv!Bytes(s[i])
  <2>1. g[i - 1] \in A
    BY <1>5
  <2>2. <<g[i - 1], i>> \in A \X (1 .. n)
    BY <2>1
  <2> QED
    BY <1>3, <1>5, <2>2
<1>7. g = [i \in 0 .. n |-> IF i = 0 THEN <<>> ELSE g[i - 1] \o Pv!Bytes(s[i])]
  <2>1. ASSUME NEW i \in 0 .. n
        PROVE  g[i] = IF i = 0 THEN <<>> ELSE g[i - 1] \o Pv!Bytes(s[i])
    <3>1. i = 0 \/ i \in 1 .. n
      OBVIOUS
    <3> QED
      BY <1>5, <1>6, <3>1
  <2> QED
    BY <1>5, <2>1
<1>8. PICK f : f = CHOOSE h : h = [i \in 0 .. Len(s) |->
                                   IF i = 0 THEN <<>> ELSE h[i - 1] \o Pv!Bytes(s[i])]
  OBVIOUS
<1>9. f = [i \in 0 .. n |-> IF i = 0 THEN <<>> ELSE f[i - 1] \o Pv!Bytes(s[i])]
  BY <1>1, <1>7, <1>8
<1>10. Pv!Image(s) = f[n]
  BY <1>1, <1>8 DEF Pv!Image
<1>11. f[0] = <<>> /\ \A i \in 1 .. n : f[i] = f[i - 1] \o Pv!Bytes(s[i])
  <2>1. ASSUME NEW i \in 1 .. n PROVE f[i] = f[i - 1] \o Pv!Bytes(s[i])
    <3>1. i \in 0 .. n /\ i # 0
      OBVIOUS
    <3> QED
      BY <1>9, <3>1
  <2>2. f[0] = <<>>
    <3>1. 0 \in 0 .. n
      OBVIOUS
    <3> QED
      BY ONLY <1>9, <3>1
  <2> QED
    BY <2>1, <2>2
<1> DEFINE Good(j) == /\ f[j] \in Seq(Int) /\ Len(f[j]) = Pv!Offset(s, j)
                      /\ \A i \in 1 .. j : \A k \in 1 .. Pv!Size(s[i]) :
                           f[j][Pv!Offset(s, i - 1) + k] = Pv!Bytes(s[i])[k]
<1>12. \A j \in 0 .. n : Good(j)
  <2>1. PICK bad : bad = {j \in 0 .. n : ~Good(j)}
    OBVIOUS
  <2>2. CASE bad # {}
    <3>1. bad \subseteq Nat /\ bad # {}
      BY <2>1, <2>2
    <3>2. PICK j \in bad : \A i \in bad : j <= i
      BY <3>1, Least
    <3>3. j \in 0 .. n /\ ~Good(j)
      BY <2>1
    <3>4. Good(0)
      <4>1. f[0] = <<>> /\ Pv!Offset(s, 0) = 0
        BY <1>1, <1>11, OffsetSteps
      <4> QED
        BY <4>1
    <3>5. j \in 1 .. n /\ j - 1 \in 0 .. n /\ ~(j <= j - 1)
      BY <3>3, <3>4
    <3>6. Good(j - 1)
      BY <2>1, <3>2, <3>5
    <3>a. PICK o \in Nat : o = Pv!Offset(s, j - 1)
      BY <1>1, <3>5, OffsetSteps
    <3>7. PICK m, b : m = f[j - 1] /\ b = Pv!Bytes(s[j]) /\ o = Pv!Offset(s, j - 1)
      BY <3>a
    <3>8. /\ m \in Seq(Int) /\ b \in Seq(Int) /\ Len(m) = o /\ Len(b) = Pv!Size(s[j])
          /\ f[j] = m \o b
      BY <1>1, <1>11, <3>5, <3>6, <3>7
    <3>9. /\ m \o b \in Seq(Int) /\ Len(m \o b) = o + Len(b)
          /\ \A k \in 1 .. o + Len(b) : (m \o b)[k] = IF k <= o THEN m[k] ELSE b[k - o]
      BY <3>8, ConcatProperties
    <3>10. Pv!Offset(s, j) = o + Len(b) /\ Pv!Size(s[j]) \in {1, 6}
      BY <1>1, <3>5, <3>7, <3>8, OffsetSteps, SizeIs
    <3>11. ASSUME NEW i \in 1 .. j, NEW k \in 1 .. Pv!Size(s[i])
           PROVE  f[j][Pv!Offset(s, i - 1) + k] = Pv!Bytes(s[i])[k]
      <4>1. CASE i = j
        <5>1. PICK q \in Nat : q = o + k /\ q \in 1 .. o + Len(b) /\ ~(q <= o) /\ q - o = k
          BY <3>8, <3>10, <4>1
        <5>2. f[j][q] = b[k]
          BY <3>8, <3>9, <5>1
        <5> QED
          BY <3>7, <4>1, <5>1, <5>2
      <4>2. CASE i # j
        <5>1. i \in 1 .. j - 1 /\ i \in 1 .. n /\ i - 1 \in 0 .. n
          BY <3>5, <4>2
        <5>2. f[j - 1][Pv!Offset(s, i - 1) + k] = Pv!Bytes(s[i])[k]
          BY <3>6, <5>1
        <5>3. Pv!Offset(s, i - 1) + Pv!Size(s[i]) <= o /\ Pv!Offset(s, i - 1) \in Nat
          <6>1. i \in 1 .. Len(s) /\ j - 1 \in 0 .. Len(s) /\ i <= j - 1 /\ i - 1 \in 0 .. Len(s)
            BY <1>1, <3>5, <5>1
          <6> QED
            BY <3>7, <6>1, OffsetsGrow, OffsetSteps
        <5>4. PICK q \in Nat : q = Pv!Offset(s, i - 1) + k /\ q \in 1 .. o
          <6>1. Pv!Size(s[i]) \in {1, 6}
            BY SizeIs
          <6>2. PICK p \in Nat, z \in {1, 6} : p = Pv!Offset(s, i - 1) /\ z = Pv!Size(s[i])
            BY <5>3, <6>1
          <6> QED
            BY <5>3, <6>2, SMTT(30)
        <5>5. q \in 1 .. o + Len(b) /\ q <= o
          BY <3>10, <3>8, <5>4
        <5> QED
          BY <3>7, <3>8, <3>9, <5>2, <5>4, <5>5
      <4> QED
        BY <4>1, <4>2
    <3> QED
      BY <3>3, <3>8, <3>9, <3>10, <3>11
  <2> QED
    BY <2>1, <2>2
<1> QED
  <2>1. Good(n)
    BY <1>12
  <2> QED
    BY <1>1, <1>10, <2>1

-----------------------------------------------------------------------------
(* Values, bytes and memory.                                               *)

\* The value of a timer has four fields, or is the number a click made of it.
Fields(v) ==
  /\ v.value \in Seq(Int)
  /\ IF v.type = TMR THEN Len(v.value) \in {1, 4} ELSE Len(v.value) = 1

LEMMA BytesAre ==
  ASSUME NEW v, Fields(v)
  PROVE  Pv!Bytes(v) \in Seq(Int) /\ Len(Pv!Bytes(v)) = Pv!Size(v)
<1>1. v.value \in Seq(Int) /\ Pv!TMR = TMR
  BY SameList DEF Fields
<1>2. CASE v.type # TMR
  BY <1>1, <1>2 DEF Fields, Pv!Bytes, Pv!Size
<1>3. CASE v.type = TMR /\ Len(v.value) = 1
  <2>1. Pv!Bytes(v) = [i \in 1 .. 6 |-> 0]
    BY <1>1, <1>3 DEF Pv!Bytes, Pv!IsNumber, Pv!Zeros
  <2>2. PICK z : z = [i \in 1 .. 6 |-> 0]
    OBVIOUS
  <2>3. PICK n \in Nat : n = 6 /\ z \in [1 .. n -> Int]
    BY <2>2
  <2>4. z \in Seq(Int) /\ Len(z) = n
    <3>1. z \in Seq(Int)
      BY <2>3, SeqDef
    <3>2. DOMAIN z = 1 .. n /\ DOMAIN z = 1 .. Len(z) /\ Len(z) \in Nat
      BY <2>3, <3>1, LenProperties
    <3> QED
      BY <3>1, <3>2
  <2> QED
    BY <1>1, <1>3, <2>1, <2>2, <2>3, <2>4 DEF Pv!Size
<1>4. CASE v.type = TMR /\ Len(v.value) = 4
  <2>1. PICK a \in Int : a = v.value[1]
    BY <1>1, <1>4, ElementOfSeq
  <2>2. PICK b \in Int : b = v.value[2]
    BY <1>1, <1>4, ElementOfSeq
  <2>3. PICK c \in Int : c = v.value[3]
    BY <1>1, <1>4, ElementOfSeq
  <2>4. PICK d \in Int : d = v.value[4]
    BY <1>1, <1>4, ElementOfSeq
  <2>5. Pv!Bytes(v) = <<a, b, c \div 256, c % 256, d \div 256, d % 256>>
    BY <1>1, <1>4, <2>1, <2>2, <2>3, <2>4 DEF Pv!Bytes, Pv!IsNumber
  <2>6. c \div 256 \in Int /\ c % 256 \in Int /\ d \div 256 \in Int /\ d % 256 \in Int
    OBVIOUS
  <2> QED
    BY <1>1, <1>4, <2>5, <2>6 DEF Pv!Size
<1> QED
  BY <1>2, <1>3, <1>4 DEF Fields

\* Where the bytes of a variable are, its value is read.
LEMMA BytesRead ==
  ASSUME NEW v, Fields(v), ~Pv!IsNumber(v), NEW m, Len(m) \in Nat, NEW o \in Nat,
         o + Pv!Size(v) <= Len(m),
         \A k \in 1 .. Pv!Size(v) : m[o + k] = Pv!Bytes(v)[k]
  PROVE  Pv!Read(m, o, v.type) = v.value
<1>1. v.value \in Seq(Int) /\ Pv!TMR = TMR
  BY SameList DEF Fields
<1>2. CASE v.type # TMR
  <2>1. Pv!Bytes(v) = v.value /\ Len(v.value) = 1 /\ Pv!Size(v) = 1
    BY <1>1, <1>2 DEF Fields, Pv!Bytes, Pv!Size
  <2>2. m[o + 1] = v.value[1] /\ o < Len(m)
    BY <2>1
  <2>3. Pv!Read(m, o, v.type) = <<v.value[1]>>
    BY <1>1, <1>2, <2>2 DEF Pv!Read, Pv!Byte
  <2>4. v.value = <<v.value[1]>>
    BY <1>1, <2>1
  <2> QED
    BY <2>3, <2>4
<1>3. CASE v.type = TMR
  <2>0. Len(v.value) = 4 /\ Pv!Size(v) = 6
    BY <1>1, <1>3 DEF Fields, Pv!IsNumber, Pv!Size
  <2>1. PICK a \in Int : a = v.value[1]
    BY <1>1, <2>0, ElementOfSeq, SMTT(30)
  <2>2. PICK b \in Int : b = v.value[2]
    BY <1>1, <2>0, ElementOfSeq, SMTT(30)
  <2>3. PICK c \in Int : c = v.value[3]
    BY <1>1, <2>0, ElementOfSeq, SMTT(30)
  <2>4. PICK d \in Int : d = v.value[4]
    BY <1>1, <2>0, ElementOfSeq, SMTT(30)
  <2>5. Pv!Bytes(v) = <<a, b, c \div 256, c % 256, d \div 256, d % 256>>
    BY <1>1, <1>3, <2>0, <2>1, <2>2, <2>3, <2>4 DEF Pv!Bytes, Pv!IsNumber
  <2>6. /\ m[o + 1] = a /\ m[o + 2] = b /\ m[o + 3] = c \div 256 /\ m[o + 4] = c % 256
        /\ m[o + 5] = d \div 256 /\ m[o + 6] = d % 256
    BY <2>0, <2>5
  <2>7. /\ Pv!Byte(m, o) = a /\ Pv!Byte(m, o + 1) = b
        /\ Pv!Byte(m, o + 2) = c \div 256 /\ Pv!Byte(m, o + 2 + 1) = c % 256
        /\ Pv!Byte(m, o + 4) = d \div 256 /\ Pv!Byte(m, o + 4 + 1) = d % 256
    <3>1. /\ o < Len(m) /\ o + 1 < Len(m) /\ o + 2 < Len(m) /\ o + 2 + 1 < Len(m)
          /\ o + 4 < Len(m) /\ o + 4 + 1 < Len(m)
      BY <2>0, SMTT(30)
    <3>2. /\ o + 1 + 1 = o + 2 /\ o + 2 + 1 = o + 3 /\ o + 2 + 1 + 1 = o + 4
          /\ o + 4 + 1 = o + 5 /\ o + 4 + 1 + 1 = o + 6
      OBVIOUS
    <3> QED
      BY <2>6, <3>1, <3>2 DEF Pv!Byte
  <2>8. 256 * (c \div 256) + (c % 256) = c /\ 256 * (d \div 256) + (d % 256) = d
    OBVIOUS
  <2>9. Pv!Read(m, o, v.type) = <<a, b, c, d>>
    BY <1>1, <1>3, <2>7, <2>8, SMTT(30) DEF Pv!Read, Pv!Word
  <2>10. v.value = <<a, b, c, d>>
    <3>1. v.value \in [1 .. 4 -> Int]
      BY <1>1, <2>0, LenProperties
    <3>2. v.value = [i \in 1 .. 4 |-> v.value[i]]
      BY <3>1
    <3>3. PICK w : w = <<a, b, c, d>>
      OBVIOUS
    <3>4. \A i \in 1 .. 4 : v.value[i] = w[i]
      BY <2>1, <2>2, <2>3, <2>4, <3>3
    <3>5. w = [i \in 1 .. 4 |-> w[i]]
      BY <3>3
    <3> QED
      BY <3>2, <3>3, <3>4, <3>5
  <2> QED
    BY <2>9, <2>10
<1> QED
  BY <1>2, <1>3

\* What is read depends on the cells of the variable only.
SameCells(x, m, o, type) ==
  \A k \in 0 .. (IF type = TMR THEN 5 ELSE 0) : Pv!Byte(x, o + k) = Pv!Byte(m, o + k)

LEMMA CellsRead ==
  ASSUME NEW m, NEW x, NEW o \in Nat, NEW type, SameCells(x, m, o, type)
  PROVE  Pv!Read(x, o, type) = Pv!Read(m, o, type)
<1> USE DEF SameCells
<1>1. Pv!TMR = TMR
  BY SameList
<1>2. CASE type # TMR
  <2>1. Pv!Byte(x, o) = Pv!Byte(m, o)
    BY <1>2
  <2> QED
    BY <1>1, <1>2, <2>1 DEF Pv!Read
<1>3. CASE type = TMR
  <2>1. /\ Pv!Byte(x, o) = Pv!Byte(m, o) /\ Pv!Byte(x, o + 1) = Pv!Byte(m, o + 1)
        /\ Pv!Byte(x, o + 2) = Pv!Byte(m, o + 2) /\ Pv!Byte(x, o + 2 + 1) = Pv!Byte(m, o + 2 + 1)
        /\ Pv!Byte(x, o + 4) = Pv!Byte(m, o + 4) /\ Pv!Byte(x, o + 4 + 1) = Pv!Byte(m, o + 4 + 1)
    BY <1>3
  <2> QED
    BY <1>1, <1>3, <2>1 DEF Pv!Read, Pv!Word
<1> QED
  BY <1>2, <1>3

\* A value that is read has the shape of its type.
LEMMA ReadFields ==
  ASSUME NEW m, m \in Seq(Int), NEW o \in Nat, NEW type
  PROVE  /\ Pv!Read(m, o, type) \in Seq(Int)
         /\ Len(Pv!Read(m, o, type)) = IF type = TMR THEN 4 ELSE 1
<1>1. Pv!TMR = TMR
  BY SameList
<1>2. ASSUME NEW p \in Nat PROVE Pv!Byte(m, p) \in Int
  <2>1. p < Len(m) => p + 1 \in 1 .. Len(m)
    BY LenProperties
  <2> QED
    BY <2>1, ElementOfSeq DEF Pv!Byte
<1>3. ASSUME NEW p \in Nat PROVE Pv!Word(m, p) \in Int
  BY <1>2 DEF Pv!Word
<1> QED
  BY <1>1, <1>2, <1>3 DEF Pv!Read

-----------------------------------------------------------------------------
(* The engine.                                                             *)

Firsts(s) == {Pv!Offset(s, j) : j \in 0 .. Len(s) - 1}

\* What a program writes are first cells, so that a cell of another variable
\* is not written.
LEMMA Unwritten ==
  ASSUME NEW s, Len(s) \in Nat, NEW cells, cells \subseteq Firsts(s), NEW i \in 1 .. Len(s),
         Pv!Offset(s, i - 1) \notin cells, NEW k \in 0 .. Pv!Size(s[i]) - 1
  PROVE  Pv!Offset(s, i - 1) + k \notin cells
<1> SUFFICES ASSUME NEW j \in 0 .. Len(s) - 1, Pv!Offset(s, j) \in cells,
                    Pv!Offset(s, i - 1) + k = Pv!Offset(s, j)
             PROVE  FALSE
  BY DEF Firsts
<1>1. PICK a \in Nat, z \in Nat :
        a = Pv!Offset(s, i - 1) /\ z = Pv!Size(s[i]) /\ k < z /\ k \in Nat
  BY OffsetSteps, SizeIs, SMTT(30)
<1>2. PICK b \in Nat : b = Pv!Offset(s, j)
  BY OffsetSteps
<1>3. PICK y \in Nat : y = Pv!Size(s[j + 1]) /\ y > 0
  BY SizeIs
<1>4. CASE j = i - 1
  BY <1>4
<1>5. CASE j < i - 1
  <2>1. PICK q \in 1 .. Len(s) : q = j + 1 /\ q - 1 = j /\ i - 1 \in 0 .. Len(s) /\ q <= i - 1
    BY <1>5
  <2>2. Pv!Offset(s, q - 1) + Pv!Size(s[q]) <= Pv!Offset(s, i - 1)
    BY <2>1, OffsetsGrow
  <2>3. b + y <= a
    BY <1>1, <1>2, <1>3, <2>1, <2>2
  <2>4. a + k = b
    BY <1>1, <1>2
  <2>5. a \in Nat /\ b \in Nat /\ y \in Nat /\ k \in Nat /\ y > 0
    BY <1>1, <1>3
  <2> QED
    BY ONLY <2>3, <2>4, <2>5
<1>6. CASE j > i - 1
  <2>1. j \in 0 .. Len(s) /\ i <= j
    BY <1>6
  <2>2. Pv!Offset(s, i - 1) + Pv!Size(s[i]) <= Pv!Offset(s, j)
    BY <2>1, OffsetsGrow
  <2> QED
    BY <1>1, <1>2, <2>2
<1> QED
  BY <1>4, <1>5, <1>6

LEMMA SolutionIs ==
  ASSUME NEW m, m \in Seq(Int), NEW cells, NEW x \in Pv!Solutions(m, cells)
  PROVE  /\ x \in Seq(Int) /\ Len(x) = Len(m)
         /\ \A o \in Nat : o \notin cells => Pv!Byte(x, o) = Pv!Byte(m, o)
<1>1. PICK f \in [cells -> {0, 1}] :
        x = [i \in DOMAIN m |-> IF i - 1 \in cells THEN f[i - 1] ELSE m[i]]
  BY DEF Pv!Solutions
<1>2. PICK n \in Nat : n = Len(m) /\ DOMAIN m = 1 .. n
  BY LenProperties
<1>3. x \in [1 .. n -> Int]
  <2>1. ASSUME NEW i \in 1 .. n PROVE (IF i - 1 \in cells THEN f[i - 1] ELSE m[i]) \in Int
    <3>1. m[i] \in Int
      BY <1>2, ElementOfSeq
    <3>2. i - 1 \in cells => f[i - 1] \in {0, 1}
      OBVIOUS
    <3> QED
      BY <3>1, <3>2
  <2> QED
    BY <1>1, <1>2, <2>1
<1>4. x \in Seq(Int) /\ Len(x) = n
  <2>1. x \in Seq(Int)
    BY <1>3, SeqDef
  <2>2. DOMAIN x = 1 .. n /\ DOMAIN x = 1 .. Len(x) /\ Len(x) \in Nat
    BY <1>3, <2>1, LenProperties
  <2> QED
    BY <2>1, <2>2
<1>5. ASSUME NEW o \in Nat, o \notin cells PROVE Pv!Byte(x, o) = Pv!Byte(m, o)
  <2>1. CASE o < n
    <3>1. o + 1 \in 1 .. n /\ o + 1 - 1 = o
      BY <2>1
    <3>2. x[o + 1] = m[o + 1]
      BY <1>1, <1>2, <1>5, <3>1
    <3> QED
      BY <1>2, <1>4, <2>1, <3>2 DEF Pv!Byte
  <2>2. CASE ~(o < n)
    BY <1>2, <1>4, <2>2 DEF Pv!Byte
  <2> QED
    BY <2>1, <2>2
<1> QED
  BY <1>2, <1>4, <1>5

\* The program leaves what it does not write.
LEMMA CellsKept ==
  ASSUME NEW s, Len(s) \in Nat, NEW cells, cells \subseteq Firsts(s), NEW m, m \in Seq(Int),
         NEW x \in Pv!Solutions(m, cells), NEW i \in 1 .. Len(s), Pv!Offset(s, i - 1) \notin cells
  PROVE  Pv!ValueAt(s, x, i) = Pv!ValueAt(s, m, i)
<1>1. PICK o \in Nat : o = Pv!Offset(s, i - 1)
  BY OffsetSteps, SMTT(30)
<1>2. PICK type : type = s[i].type
  OBVIOUS
<1>3. ASSUME NEW k \in 0 .. (IF type = TMR THEN 5 ELSE 0) PROVE o + k \notin cells /\ o + k \in Nat
  <2>1. k \in 0 .. Pv!Size(s[i]) - 1
    BY <1>2, SizeIs
  <2> QED
    BY <1>1, <2>1, Unwritten
<1>4. SameCells(x, m, o, type)
  BY <1>3, SolutionIs DEF SameCells
<1> QED
  BY <1>1, <1>2, <1>4, CellsRead DEF Pv!ValueAt

Filled(s) == \A i \in 1 .. Len(s) : Fields(s[i])
Laid(s, m) == m \in Seq(Int) /\ Len(m) = Pv!Offset(s, Len(s))

\* Memory that is made anew from a table has its values.
LEMMA MadeAnew ==
  ASSUME NEW s, Len(s) \in Nat, Filled(s), NEW cells, cells \subseteq Firsts(s),
         NEW x \in Pv!Solutions(Pv!Image(s), cells)
  PROVE  /\ Laid(s, x)
         /\ \A i \in 1 .. Len(s) :
              Pv!Offset(s, i - 1) \notin cells /\ ~Pv!IsNumber(s[i])
              => Pv!ValueAt(s, x, i) = s[i].value
<1>1. PICK m : m = Pv!Image(s)
  OBVIOUS
<1>2. /\ m \in Seq(Int) /\ Len(m) = Pv!Offset(s, Len(s))
      /\ \A i \in 1 .. Len(s) : \A k \in 1 .. Pv!Size(s[i]) :
           m[Pv!Offset(s, i - 1) + k] = Pv!Bytes(s[i])[k]
  <2>1. \A i \in 1 .. Len(s) : Pv!Bytes(s[i]) \in Seq(Int) /\ Len(Pv!Bytes(s[i])) = Pv!Size(s[i])
    BY BytesAre DEF Filled
  <2> QED
    BY <1>1, <2>1, ImageHas
<1>3. Laid(s, x)
  BY <1>1, <1>2, SolutionIs DEF Laid
<1>4. ASSUME NEW i \in 1 .. Len(s), Pv!Offset(s, i - 1) \notin cells, ~Pv!IsNumber(s[i])
      PROVE  Pv!ValueAt(s, x, i) = s[i].value
  <2>1. PICK o \in Nat : o = Pv!Offset(s, i - 1)
    BY OffsetSteps
  <2>2. o + Pv!Size(s[i]) <= Len(m)
    <3>1. Len(s) \in 0 .. Len(s) /\ i <= Len(s)
      OBVIOUS
    <3> QED
      BY <1>2, <2>1, <3>1, OffsetsGrow
  <2>3. PICK v : v = s[i] /\ Fields(v)
    BY DEF Filled
  <2>4. \A k \in 1 .. Pv!Size(v) : m[o + k] = Pv!Bytes(v)[k]
    BY <1>2, <2>1, <2>3
  <2>5. Len(m) \in Nat
    BY <1>2, LenProperties
  <2>6. Pv!Read(m, o, v.type) = v.value
    BY <1>4, <2>2, <2>3, <2>4, <2>5, BytesRead
  <2>7. Pv!ValueAt(s, x, i) = Pv!ValueAt(s, m, i)
    BY <1>1, <1>2, <1>4, CellsKept
  <2> QED
    BY <2>1, <2>3, <2>6, <2>7 DEF Pv!ValueAt
<1> QED
  BY <1>3, <1>4

-----------------------------------------------------------------------------
(* The values follow their variables.                                      *)

Right(s, m, t, u) ==
  \A i \in 1 .. Len(s) :
    s[i].name \in u \/ (s[i].value = t[s[i].name] /\ Pv!ValueAt(s, m, i) = t[s[i].name])

EngineInv ==
  /\ Filled(list) /\ Filled(file.vars) /\ Laid(list, memory) /\ outputs \subseteq Firsts(list)
  /\ DOMAIN truth = Pv!NamesOf(list)
  /\ strange \in BOOLEAN /\ flattened \in BOOLEAN
  /\ strange = FALSE /\ flattened = FALSE => Right(list, memory, truth, unsure)

LEMMA NamesAre ==
  ASSUME NEW s, Tabled(s)
  PROVE  /\ Pv!NamesOf(s) = {s[i].name : i \in 1 .. Len(s)}
         /\ \A i \in 1 .. Len(s) : (CHOOSE j \in DOMAIN s : s[j].name = s[i].name) = i
<1>1. DOMAIN s = 1 .. Len(s)
  BY TabledHas
<1>2. ASSUME NEW i \in 1 .. Len(s) PROVE (CHOOSE j \in DOMAIN s : s[j].name = s[i].name) = i
  <2>1. \A j \in 1 .. Len(s) : s[j].name = s[i].name => j = i
    BY DEF Tabled
  <2> QED
    BY <1>1, <2>1
<1> QED
  BY <1>1, <1>2 DEF Pv!NamesOf

LEMMA OutputsAreFirsts ==
  ASSUME NEW s, Len(s) \in Nat, NEW drawn
  PROVE  Pv!OutputCells(s, drawn) \subseteq Firsts(s)
BY DEF Pv!OutputCells, Firsts

LEMMA WrittenAre ==
  ASSUME NEW s, Tabled(s), NEW cells, NEW i \in 1 .. Len(s), s[i].name \notin Pv!Written(s, cells)
  PROVE  Pv!Offset(s, i - 1) \notin cells
BY TabledHas DEF Pv!Written

\* A table is handed to the engine.
LEMMA HandedOver ==
  ASSUME NEW s, Tabled(s), Filled(s), NEW drawn, EngineInv, Filled(file.vars)',
         list' = s, outputs' = Pv!OutputCells(s, drawn),
         memory' \in Pv!Solutions(Pv!Image(s), outputs'), unsure' = Pv!Written(s, outputs'),
         DOMAIN truth' = Pv!NamesOf(s), UNCHANGED strange,
         flattened' = (flattened \/ \E i \in DOMAIN s : Pv!IsNumber(s[i])),
         \A i \in 1 .. Len(s) : strange = FALSE /\ flattened' = FALSE => truth'[s[i].name] = s[i].value
  PROVE  EngineInv'
<1>1. Len(s) \in Nat /\ DOMAIN s = 1 .. Len(s)
  BY TabledHas
<1>2. PICK cells, x : cells = outputs' /\ x = memory'
  OBVIOUS
<1>3. cells \subseteq Firsts(s)
  BY <1>1, <1>2, OutputsAreFirsts
<1>4. /\ Laid(s, x)
      /\ \A i \in 1 .. Len(s) :
           Pv!Offset(s, i - 1) \notin cells /\ ~Pv!IsNumber(s[i]) => Pv!ValueAt(s, x, i) = s[i].value
  BY <1>1, <1>2, <1>3, MadeAnew
<1>5. flattened' \in BOOLEAN /\ strange' \in BOOLEAN
  BY DEF EngineInv
<1>6. ASSUME strange' = FALSE, flattened' = FALSE PROVE Right(s, x, truth', unsure')
  <2> SUFFICES ASSUME NEW i \in 1 .. Len(s), s[i].name \notin unsure'
               PROVE  s[i].value = truth'[s[i].name] /\ Pv!ValueAt(s, x, i) = truth'[s[i].name]
    BY DEF Right
  <2>1. truth'[s[i].name] = s[i].value
    BY <1>6
  <2>2. ~Pv!IsNumber(s[i])
    BY <1>1, <1>6
  <2>3. Pv!Offset(s, i - 1) \notin cells
    BY <1>2, WrittenAre
  <2> QED
    BY <1>4, <2>1, <2>2, <2>3
<1> QED
  BY <1>2, <1>3, <1>4, <1>5, <1>6 DEF EngineInv

\* The value an engine reads from the bytes of a variable.
LEMMA OwnBytes ==
  ASSUME NEW v, Fields(v), ~Pv!IsNumber(v)
  PROVE  Pv!Read(Pv!Bytes(v), 0, v.type) = v.value
<1>1. PICK b : b = Pv!Bytes(v)
  OBVIOUS
<1>2. Len(b) = Pv!Size(v) /\ Len(b) \in Nat
  BY <1>1, BytesAre, SizeIs
<1>3. 0 \in Nat /\ 0 + Pv!Size(v) <= Len(b) /\ \A k \in 1 .. Pv!Size(v) : b[0 + k] = Pv!Bytes(v)[k]
  BY <1>1, <1>2
<1> QED
  BY <1>1, <1>2, <1>3, BytesRead

LEMMA Assigned ==
  ASSUME NEW s, Tabled(s), Filled(s), NEW drawn, EngineInv, Pv!Assign(s, drawn),
         Filled(file.vars)', UNCHANGED strange,
         strange = FALSE /\ flattened = FALSE =>
           \A i \in 1 .. Len(s) :
             s[i].name \in DOMAIN truth \ unsure => truth[s[i].name] = s[i].value
  PROVE  EngineInv'
<1>1. DOMAIN s = 1 .. Len(s)
  BY TabledHas
<1>2. /\ list' = s /\ outputs' = Pv!OutputCells(s, drawn)
      /\ memory' \in Pv!Solutions(Pv!Image(s), outputs') /\ unsure' = Pv!Written(s, outputs')
      /\ DOMAIN truth' = Pv!NamesOf(s)
      /\ flattened' = (flattened \/ \E i \in DOMAIN s : Pv!IsNumber(s[i]))
      /\ \A n \in Pv!NamesOf(s) : truth'[n] =
           IF n \in DOMAIN truth \ unsure THEN truth[n]
           ELSE Pv!Read(Pv!Bytes(s[CHOOSE j \in DOMAIN s : s[j].name = n]), 0,
                        s[CHOOSE j \in DOMAIN s : s[j].name = n].type)
  BY DEF Pv!Assign
<1>3. ASSUME NEW i \in 1 .. Len(s), strange = FALSE, flattened' = FALSE
      PROVE  truth'[s[i].name] = s[i].value
  <2>1. flattened = FALSE /\ ~Pv!IsNumber(s[i])
    BY <1>1, <1>2, <1>3 DEF EngineInv
  <2>2. s[i].name \in Pv!NamesOf(s) /\ (CHOOSE j \in DOMAIN s : s[j].name = s[i].name) = i
    BY NamesAre
  <2>3. truth'[s[i].name] = IF s[i].name \in DOMAIN truth \ unsure THEN truth[s[i].name]
                            ELSE Pv!Read(Pv!Bytes(s[i]), 0, s[i].type)
    BY <1>2, <2>2
  <2>4. Fields(s[i])
    BY DEF Filled
  <2>5. Pv!Read(Pv!Bytes(s[i]), 0, s[i].type) = s[i].value
    BY <2>1, <2>4, OwnBytes
  <2> QED
    BY <1>3, <2>1, <2>3, <2>5
<1> QED
  BY <1>2, <1>3, HandedOver

\* Where no value changes but those in the table.
LEMMA SameTruth ==
  ASSUME ValuesInv, EngineInv, strange = FALSE, flattened = FALSE,
         NEW i \in 1 .. Len(list), list[i].name \in DOMAIN truth \ unsure
  PROVE  list[i].value = truth[list[i].name]
BY DEF EngineInv, Right

LEMMA AddedFollows ==
  ASSUME ValuesInv, EngineInv, NEW v \in Added, Pv!AddVariable(v)
  PROVE  EngineInv'
<1>1. PICK s, at : s = Sorted(Append(list, v)) /\ at = Splice(list, v)
  OBVIOUS
<1>2. /\ ~Exists(list, v.name) /\ Pv!Assign(s, nodes') /\ UNCHANGED <<strange, file>>
  BY <1>1, SameList DEF Pv!AddVariable, Pv!nodeVars
<1>3. /\ Tabled(s) /\ \A k \in 1 .. Len(s) : s[k] = v \/ \E j \in 1 .. Len(list) : s[k] = list[j]
  BY <1>1, <1>2, TableGrows DEF ValuesInv
<1>4. Fields(v)
  <2>1. v \in [name : Nat, type : {BIT, TMR}, value : Seq(Nat)]
    BY ValuesAssumption
  <2>2. v.value \in Seq(Nat)
    BY <2>1
  <2>3. v.value \in Seq(Int)
    BY <2>2, SeqMonotonic
  <2>4. Len(v.value) = IF v.type = TMR THEN 4 ELSE 1
    BY ValuesAssumption
  <2> QED
    BY <2>3, <2>4 DEF Fields
<1>5. Filled(s)
  BY <1>3, <1>4 DEF EngineInv, Filled
<1>6. v.name \notin DOMAIN truth
  <2>1. \A j \in 1 .. Len(list) : list[j].name # v.name
    BY <1>2 DEF Exists
  <2>2. DOMAIN truth = {list[j].name : j \in 1 .. Len(list)}
    BY NamesAre DEF ValuesInv, EngineInv
  <2> QED
    BY <2>1, <2>2
<1>7. ASSUME strange = FALSE, flattened = FALSE, NEW i \in 1 .. Len(s),
             s[i].name \in DOMAIN truth \ unsure
      PROVE  truth[s[i].name] = s[i].value
  <2>1. PICK j \in 1 .. Len(list) : s[i] = list[j]
    BY <1>3, <1>6, <1>7
  <2> QED
    BY <1>7, <2>1, SameTruth
<1>8. Filled(file.vars)'
  BY <1>2 DEF EngineInv, Filled
<1> QED
  BY <1>2, <1>3, <1>5, <1>7, <1>8, Assigned

LEMMA RemovedFollows ==
  ASSUME ValuesInv, EngineInv, NEW index \in 0 .. Len(list) - 1, Pv!RemoveVariable(index)
  PROVE  EngineInv'
<1>1. Len(list) \in Nat /\ DOMAIN list = 1 .. Len(list)
  BY TabledHas DEF ValuesInv
<1>2. PICK m \in 1 .. Len(list) : m = index + 1
  BY <1>1
<1>3. PICK s : s = RemoveAt(list, m)
  OBVIOUS
<1>4. /\ ~IsIO(list[m]) /\ Pv!Assign(s, nodes') /\ UNCHANGED <<strange, file>>
  BY <1>2, <1>3, SameList DEF Pv!RemoveVariable, Pv!nodeVars
<1>5. /\ Tabled(s) /\ Len(s) = Len(list) - 1
      /\ \A k \in 1 .. Len(list) - 1 : s[k] = IF k < m THEN list[k] ELSE list[k + 1]
  BY <1>3, <1>4, TableShrinks DEF ValuesInv
<1>6. \A k \in 1 .. Len(s) : \E j \in 1 .. Len(list) : s[k] = list[j]
  BY <1>1, <1>5
<1>7. Filled(s)
  BY <1>6 DEF EngineInv, Filled
<1>8. ASSUME strange = FALSE, flattened = FALSE, NEW i \in 1 .. Len(s),
             s[i].name \in DOMAIN truth \ unsure
      PROVE  truth[s[i].name] = s[i].value
  <2>1. PICK j \in 1 .. Len(list) : s[i] = list[j]
    BY <1>6
  <2> QED
    BY <1>8, <2>1, SameTruth
<1>9. Filled(file.vars)'
  BY <1>4 DEF EngineInv, Filled
<1> QED
  BY <1>4, <1>5, <1>7, <1>8, <1>9, Assigned

LEMMA LoadFollows ==
  ASSUME ValuesInv, EngineInv, Pv!Load
  PROVE  EngineInv'
<1>1. PICK s : s = file.vars
  OBVIOUS
<1>2. Tabled(s) /\ Filled(s) /\ list' = s /\ UNCHANGED <<strange, file>>
  BY <1>1, SameList, SortedStays DEF ValuesInv, EngineInv, Pv!Load, Pv!nodeVars
<1>3. DOMAIN s = 1 .. Len(s)
  BY <1>2, TabledHas
<1>4. PICK drawn : drawn = nodes'
  OBVIOUS
<1>5. /\ outputs' = Pv!OutputCells(s, drawn)
      /\ memory' \in Pv!Solutions(Pv!Image(s), outputs') /\ unsure' = Pv!Written(s, outputs')
      /\ DOMAIN truth' = Pv!NamesOf(s)
      /\ flattened' = (flattened \/ \E i \in DOMAIN s : Pv!IsNumber(s[i]))
      /\ \A n \in Pv!NamesOf(s) : truth'[n] =
           Pv!Read(Pv!Bytes(s[CHOOSE j \in DOMAIN s : s[j].name = n]), 0,
                   s[CHOOSE j \in DOMAIN s : s[j].name = n].type)
  BY <1>2, <1>4 DEF Pv!Load
<1>6. ASSUME NEW i \in 1 .. Len(s), strange = FALSE, flattened' = FALSE
      PROVE  truth'[s[i].name] = s[i].value
  <2>1. ~Pv!IsNumber(s[i])
    BY <1>3, <1>5, <1>6
  <2>2. s[i].name \in Pv!NamesOf(s) /\ (CHOOSE j \in DOMAIN s : s[j].name = s[i].name) = i
    BY <1>2, NamesAre
  <2>3. truth'[s[i].name] = Pv!Read(Pv!Bytes(s[i]), 0, s[i].type)
    BY <1>5, <2>2
  <2>4. Fields(s[i])
    BY <1>2 DEF Filled
  <2> QED
    BY <2>1, <2>3, <2>4, OwnBytes
<1>7. Filled(file.vars)'
  BY <1>2 DEF EngineInv, Filled
<1> QED
  BY <1>2, <1>5, <1>6, <1>7, HandedOver

\* A table with other values has the same cells.
SameShape(s, t) ==
  /\ Len(t) = Len(s) /\ DOMAIN t = DOMAIN s
  /\ \A i \in 1 .. Len(s) : t[i].name = s[i].name /\ t[i].type = s[i].type

LEMMA CellsSame ==
  ASSUME NEW s, Tabled(s), NEW t, SameShape(s, t)
  PROVE  /\ Firsts(t) = Firsts(s) /\ Pv!NamesOf(t) = Pv!NamesOf(s)
         /\ Pv!Offset(t, Len(t)) = Pv!Offset(s, Len(s))
         /\ \A i \in 1 .. Len(s) : \A m : Pv!ValueAt(t, m, i) = Pv!ValueAt(s, m, i)
<1>1. /\ Len(s) \in Nat /\ DOMAIN s = 1 .. Len(s) /\ Len(t) = Len(s) /\ DOMAIN t = DOMAIN s
      /\ \A i \in 1 .. Len(s) : t[i].name = s[i].name /\ t[i].type = s[i].type
  BY TabledHas DEF SameShape
<1>2. \A i \in 0 .. Len(s) : Pv!Offset(t, i) = Pv!Offset(s, i)
  BY <1>1, OffsetsSame
<1>3. Firsts(t) = Firsts(s)
  <2>1. \A j \in 0 .. Len(s) - 1 : j \in 0 .. Len(s)
    BY <1>1
  <2> QED
    BY <1>1, <1>2, <2>1 DEF Firsts
<1>4. Pv!NamesOf(t) = Pv!NamesOf(s)
  BY <1>1 DEF Pv!NamesOf
<1>5. ASSUME NEW i \in 1 .. Len(s), NEW m PROVE Pv!ValueAt(t, m, i) = Pv!ValueAt(s, m, i)
  <2>1. i - 1 \in 0 .. Len(s)
    BY <1>1
  <2> QED
    BY <1>1, <1>2, <2>1 DEF Pv!ValueAt
<1>6. Pv!Offset(t, Len(t)) = Pv!Offset(s, Len(s))
  BY <1>1, <1>2
<1> QED
  BY <1>3, <1>4, <1>5, <1>6

LEMMA OffsetIsNat ==
  ASSUME NEW s, Len(s) \in Nat, NEW i \in 1 .. Len(s)
  PROVE  /\ Pv!Offset(s, i - 1) \in Nat /\ Pv!Offset(s, Len(s)) \in Nat
         /\ Pv!Offset(s, i - 1) + Pv!Size(s[i]) <= Pv!Offset(s, Len(s))
<1>1. i - 1 \in 0 .. Len(s) /\ Len(s) \in 0 .. Len(s) /\ i <= Len(s)
  OBVIOUS
<1> QED
  BY <1>1, OffsetSteps, OffsetsGrow

\* The list shows what is read from memory.
LEMMA ShownFollows ==
  ASSUME ValuesInv, EngineInv, list' = Pv!WithValues(list, memory'), memory' \in Seq(Int),
         Len(memory') = Len(memory), UNCHANGED <<outputs, flattened, file>>, unsure' = {},
         DOMAIN truth' = DOMAIN truth, strange' \in BOOLEAN,
         strange' = FALSE /\ flattened = FALSE =>
           \A i \in 1 .. Len(list) : truth'[list[i].name] = Pv!ValueAt(list, memory', i)
  PROVE  EngineInv'
<1>1. PICK V, S : list \in Seq(S) /\ S = VarRecords(V)
  BY DEF ValuesInv, Tabled
<1>2. Tabled(list) /\ Len(list) \in Nat /\ DOMAIN list = 1 .. Len(list)
  BY TabledHas DEF ValuesInv
<1>3. PICK m, t : m = memory' /\ t = Pv!WithValues(list, m)
  OBVIOUS
<1>4. t = [i \in DOMAIN list |-> [list[i] EXCEPT !.value = Pv!ValueAt(list, m, i)]]
  BY <1>3 DEF Pv!WithValues
<1>5. ASSUME NEW i \in 1 .. Len(list)
      PROVE  /\ t[i].name = list[i].name /\ t[i].type = list[i].type
             /\ t[i].value = Pv!ValueAt(list, m, i)
  <2>1. PICK value : value = Pv!ValueAt(list, m, i)
    OBVIOUS
  <2>2. t[i] = [list[i] EXCEPT !.value = value] /\ list[i] \in VarRecords(V)
    BY <1>1, <1>2, <1>4, <2>1, ElementOfSeq
  <2>3. t[i].name = list[i].name /\ t[i].type = list[i].type /\ t[i].value = value
    BY <2>2 DEF VarRecords
  <2> QED
    BY <2>1, <2>3
<1>6. SameShape(list, t)
  <2>1. DOMAIN t = DOMAIN list
    BY <1>4
  <2>2. Tabled(t)
    <3>1. PICK value : value = [i \in DOMAIN list |-> Pv!ValueAt(list, m, i)]
      OBVIOUS
    <3>2. t = [i \in DOMAIN list |-> [list[i] EXCEPT !.value = value[i]]]
      BY <1>4, <3>1
    <3> QED
      BY <1>2, <3>2, OtherValues
  <2>3. Len(t) = Len(list)
    BY <1>2, <2>1, <2>2, TabledHas
  <2> QED
    BY <1>5, <2>1, <2>3 DEF SameShape
<1>7. m \in Seq(Int) /\ Len(m) = Len(memory)
  BY <1>3
<1>8. Filled(t)
  <2> SUFFICES ASSUME NEW i \in 1 .. Len(list) PROVE Fields(t[i])
    BY <1>6 DEF Filled, SameShape
  <2>1. Pv!Offset(list, i - 1) \in Nat
    BY <1>2, OffsetIsNat
  <2>2. PICK o \in Nat, type \in {list[i].type} : o = Pv!Offset(list, i - 1) /\ type = list[i].type
    BY <2>1
  <2>3. /\ Pv!Read(m, o, type) \in Seq(Int)
        /\ Len(Pv!Read(m, o, type)) = IF type = TMR THEN 4 ELSE 1
    BY <1>7, ReadFields
  <2>4. t[i].value = Pv!Read(m, o, type) /\ t[i].type = type
    BY <1>5, <2>2 DEF Pv!ValueAt
  <2> QED
    BY <2>3, <2>4 DEF Fields
<1>9. Laid(t, m) /\ outputs \subseteq Firsts(t) /\ DOMAIN truth' = Pv!NamesOf(t)
  BY <1>2, <1>6, <1>7, CellsSame DEF EngineInv, Laid
<1>10. ASSUME strange' = FALSE, flattened = FALSE PROVE Right(t, m, truth', {})
  <2> SUFFICES ASSUME NEW i \in 1 .. Len(list)
               PROVE  t[i].value = truth'[t[i].name] /\ Pv!ValueAt(t, m, i) = truth'[t[i].name]
    BY <1>6 DEF Right, SameShape
  <2>1. truth'[list[i].name] = Pv!ValueAt(list, m, i)
    BY <1>3, <1>10
  <2>2. Pv!ValueAt(t, m, i) = Pv!ValueAt(list, m, i)
    BY <1>2, <1>6, CellsSame
  <2> QED
    BY <1>5, <2>1, <2>2
<1>11. Filled(file.vars)'
  BY DEF EngineInv, Filled
<1>12. list' = t /\ memory' = m
  BY <1>3
<1> QED
  BY <1>8, <1>9, <1>10, <1>11, <1>12 DEF EngineInv

LEMMA CpuFollows ==
  ASSUME ValuesInv, EngineInv, Pv!CpuUpdate
  PROVE  EngineInv'
<1>1. /\ memory' \in Pv!Solutions(memory, outputs) /\ list' = Pv!WithValues(list, memory')
      /\ unsure' = {} /\ UNCHANGED <<strange, outputs, flattened, file>>
      /\ DOMAIN truth' = DOMAIN truth
      /\ \A n \in DOMAIN truth : truth'[n] =
           IF n \notin unsure \cup Pv!Written(list, outputs) THEN truth[n]
           ELSE list'[CHOOSE j \in DOMAIN list : list[j].name = n].value
  BY DEF Pv!CpuUpdate, Pv!nodeVars
<1>2. PICK x : x = memory'
  OBVIOUS
<1>3. /\ Len(list) \in Nat /\ DOMAIN list = 1 .. Len(list) /\ Tabled(list)
      /\ memory \in Seq(Int) /\ outputs \subseteq Firsts(list)
  BY TabledHas DEF ValuesInv, EngineInv, Laid
<1>4. x \in Seq(Int) /\ Len(x) = Len(memory) /\ x \in Pv!Solutions(memory, outputs)
  BY <1>1, <1>2, <1>3, SolutionIs
<1>5. ASSUME strange' = FALSE, flattened = FALSE, NEW i \in 1 .. Len(list)
      PROVE  truth'[list[i].name] = Pv!ValueAt(list, x, i)
  <2>1. PICK n : n = list[i].name
    OBVIOUS
  <2>2. n \in DOMAIN truth /\ (CHOOSE j \in DOMAIN list : list[j].name = n) = i
    BY <1>3, <2>1, NamesAre DEF EngineInv
  <2>3. CASE n \notin unsure \cup Pv!Written(list, outputs)
    <3>1. truth'[n] = truth[n]
      BY <1>1, <2>2, <2>3
    <3>2. strange = FALSE
      BY <1>1, <1>5
    <3>3. Pv!ValueAt(list, memory, i) = truth[n]
      BY <1>5, <2>1, <2>3, <3>2 DEF EngineInv, Right
    <3>4. Pv!Offset(list, i - 1) \notin outputs
      BY <1>3, <2>1, <2>3, WrittenAre
    <3>5. Pv!ValueAt(list, x, i) = Pv!ValueAt(list, memory, i)
      BY <1>3, <1>4, <3>4, CellsKept
    <3> QED
      BY <2>1, <3>1, <3>3, <3>5
  <2>4. CASE n \in unsure \cup Pv!Written(list, outputs)
    <3>1. truth'[n] = list'[i].value
      BY <1>1, <2>2, <2>4
    <3>2. PICK V : list \in Seq(VarRecords(V))
      BY <1>3 DEF Tabled
    <3>3. list'[i] = [list[i] EXCEPT !.value = Pv!ValueAt(list, x, i)]
      BY <1>1, <1>2, <1>3 DEF Pv!WithValues
    <3>4. list[i] \in VarRecords(V)
      BY <3>2, ElementOfSeq
    <3>5. list'[i].value = Pv!ValueAt(list, x, i)
      BY <3>3, <3>4 DEF VarRecords
    <3> QED
      BY <2>1, <3>1, <3>5
  <2> QED
    BY <2>3, <2>4
<1>6. strange' \in BOOLEAN
  BY <1>1 DEF EngineInv
<1> QED
  BY <1>1, <1>2, <1>4, <1>5, <1>6, ShownFollows

\* What the node runs, what it is given and what it sends are bytes, and a
\* setvar names the variable whose cell it was meant for.
Held(b) == b = [layout |-> b.layout, cells |-> b.cells] /\ b.cells \in Seq(Int)
Aimed(c) ==
  /\ c.value \in Int
  /\ \E i \in DOMAIN c.layout :
       c.layout[i].name = c.name /\ Pv!Offset(c.layout, i - 1) = c.offset

NodeInv ==
  /\ Held(board) /\ (stored # Pv!None => Held(stored)) /\ (answer # Pv!None => Held(answer))
  /\ (command # Pv!None => Aimed(command)) /\ misset = FALSE

LEMMA GetvarsFollows ==
  ASSUME ValuesInv, EngineInv, NodeInv, Pv!GetvarsCommand
  PROVE  EngineInv'
<1>1. /\ answer # Pv!None /\ list' = Pv!WithValues(list, memory') /\ unsure' = {}
      /\ memory' = [i \in DOMAIN memory |-> Pv!Byte(answer.cells, i - 1)]
      /\ UNCHANGED <<outputs, flattened, file>>
      /\ IF answer.layout = Pv!Layout(list)
         THEN truth' = [n \in DOMAIN truth |->
                Pv!Read(answer.cells,
                        Pv!Offset(answer.layout, (CHOOSE j \in DOMAIN list : list[j].name = n) - 1),
                        list[CHOOSE j \in DOMAIN list : list[j].name = n].type)]
              /\ UNCHANGED strange
         ELSE strange' = TRUE /\ UNCHANGED truth
  BY DEF Pv!GetvarsCommand
<1>2. PICK x, cells : x = memory' /\ cells = answer.cells
  OBVIOUS
<1>3. /\ Len(list) \in Nat /\ DOMAIN list = 1 .. Len(list) /\ Tabled(list) /\ memory \in Seq(Int)
      /\ Len(memory) = Pv!Offset(list, Len(list))
  BY TabledHas DEF ValuesInv, EngineInv, Laid
<1>4. PICK n \in Nat : n = Len(memory) /\ DOMAIN memory = 1 .. n
  BY <1>3, LenProperties
<1>5. cells \in Seq(Int)
  BY <1>1, <1>2 DEF NodeInv, Held
<1>6. ASSUME NEW o \in Nat PROVE Pv!Byte(cells, o) \in Int
  <2>1. o < Len(cells) => o + 1 \in 1 .. Len(cells)
    BY <1>5, LenProperties
  <2> QED
    BY <1>5, <2>1, ElementOfSeq DEF Pv!Byte
<1>7. x \in [1 .. n -> Int] /\ \A i \in 1 .. n : x[i] = Pv!Byte(cells, i - 1)
  <2>1. x = [i \in 1 .. n |-> Pv!Byte(cells, i - 1)]
    BY <1>1, <1>2, <1>4
  <2>2. \A i \in 1 .. n : i - 1 \in Nat
    OBVIOUS
  <2> QED
    BY <1>6, <2>1, <2>2
<1>8. x \in Seq(Int) /\ Len(x) = n
  <2>1. x \in Seq(Int)
    BY <1>7, SeqDef
  <2>2. DOMAIN x = 1 .. n /\ DOMAIN x = 1 .. Len(x) /\ Len(x) \in Nat
    BY <1>7, <2>1, LenProperties
  <2> QED
    BY <2>1, <2>2
<1>9. DOMAIN truth' = DOMAIN truth /\ strange' \in BOOLEAN
  BY <1>1 DEF EngineInv
<1>10. ASSUME strange' = FALSE, flattened = FALSE, NEW i \in 1 .. Len(list)
       PROVE  truth'[list[i].name] = Pv!ValueAt(list, x, i)
  <2>1. answer.layout = Pv!Layout(list)
    BY <1>1, <1>10
  <2>2. PICK s : s = answer.layout
    OBVIOUS
  <2>3. s = [j \in 1 .. Len(list) |-> [name |-> list[j].name, type |-> list[j].type]]
    BY <1>3, <2>1, <2>2 DEF Pv!Layout
  <2>4. Len(s) = Len(list) /\ \A j \in 1 .. Len(list) : s[j].type = list[j].type
    BY <1>3, <2>3
  <2>5. i - 1 \in 0 .. Len(list)
    BY <1>3
  <2>6. Pv!Offset(s, i - 1) = Pv!Offset(list, i - 1)
    BY <1>3, <2>4, <2>5, OffsetsSame
  <2>7. PICK o \in Nat, type \in {list[i].type} : o = Pv!Offset(list, i - 1) /\ type = list[i].type
    BY <1>3, OffsetIsNat
  <2>8. list[i].name \in DOMAIN truth
        /\ (CHOOSE j \in DOMAIN list : list[j].name = list[i].name) = i
    BY <1>3, NamesAre DEF EngineInv
  <2>9. truth'[list[i].name] = Pv!Read(cells, o, type)
    BY <1>1, <1>2, <2>1, <2>2, <2>6, <2>7, <2>8
  <2>10. SameCells(x, cells, o, type)
    <3> SUFFICES ASSUME NEW k \in 0 .. (IF type = TMR THEN 5 ELSE 0)
                 PROVE  Pv!Byte(x, o + k) = Pv!Byte(cells, o + k)
      BY DEF SameCells
    <3>1. k \in Nat /\ k < Pv!Size(list[i])
      BY <2>7, SizeIs
    <3>2. o + Pv!Size(list[i]) <= n
      BY <1>3, <1>4, <2>7, OffsetIsNat
    <3>3. PICK z \in Nat : z = Pv!Size(list[i])
      BY SizeIs
    <3>4. o + k < n /\ o + k \in Nat
      BY <3>1, <3>2, <3>3
    <3>5. PICK p \in Nat : p = o + k
      BY <3>4
    <3>6. p < Len(x) /\ p + 1 \in 1 .. n /\ p + 1 - 1 = p
      BY <1>8, <3>4, <3>5
    <3>7. x[p + 1] = Pv!Byte(cells, p)
      BY <1>7, <3>6
    <3>8. Pv!Byte(x, p) = x[p + 1]
      BY <3>6 DEF Pv!Byte
    <3> QED
      BY <3>5, <3>7, <3>8
  <2>11. Pv!Read(x, o, type) = Pv!Read(cells, o, type)
    BY <2>10, CellsRead
  <2> QED
    BY <2>7, <2>9, <2>11 DEF Pv!ValueAt
<1> QED
  BY <1>1, <1>2, <1>4, <1>8, <1>9, <1>10, ShownFollows

\* No two variables begin in the same cell.
LEMMA OffsetsDiffer ==
  ASSUME NEW s, Len(s) \in Nat, NEW i \in 1 .. Len(s), NEW j \in 1 .. Len(s), i # j
  PROVE  Pv!Offset(s, i - 1) # Pv!Offset(s, j - 1)
<1>1. PICK a \in Nat, y \in {1, 6} : a = Pv!Offset(s, i - 1) /\ y = Pv!Size(s[i])
  BY OffsetIsNat, SizeIs
<1>2. PICK b \in Nat, z \in {1, 6} : b = Pv!Offset(s, j - 1) /\ z = Pv!Size(s[j])
  BY OffsetIsNat, SizeIs
<1>3. CASE i < j
  <2>1. j - 1 \in 0 .. Len(s) /\ i <= j - 1
    BY <1>3
  <2>2. a + y <= b
    BY <1>1, <1>2, <2>1, OffsetsGrow
  <2> QED
    BY <1>1, <1>2, <2>2
<1>4. CASE j < i
  <2>1. i - 1 \in 0 .. Len(s) /\ j <= i - 1
    BY <1>4
  <2>2. b + z <= a
    BY <1>1, <1>2, <2>1, OffsetsGrow
  <2> QED
    BY <1>1, <1>2, <2>2
<1> QED
  BY <1>3, <1>4

\* A click on a symbol gives one variable another value.
LEMMA ToggleFollows ==
  ASSUME ValuesInv, EngineInv, NEW k \in 1 .. Len(nodes),
         nodes[k].op1 \in 0 .. Len(list) - 1, Pv!ToggleNode(k)
  PROVE  EngineInv'
<1>1. /\ Len(list) \in Nat /\ DOMAIN list = 1 .. Len(list) /\ Tabled(list) /\ memory \in Seq(Int)
      /\ Len(memory) = Pv!Offset(list, Len(list))
  BY TabledHas DEF ValuesInv, EngineInv, Laid
<1>2. PICK m \in 1 .. Len(list) : m = nodes[k].op1 + 1 /\ m - 1 = nodes[k].op1
  <2>1. PICK j \in 0 .. Len(list) - 1 : j = nodes[k].op1
    OBVIOUS
  <2>2. j + 1 \in 1 .. Len(list) /\ j + 1 - 1 = j
    BY <1>1
  <2> QED
    BY <2>1, <2>2
<1>3. PICK new : new = Pv!Toggled(list[m])
  OBVIOUS
<1>4. PICK o \in Nat : o = Pv!Offset(list, m - 1) /\ o + 1 \in 1 .. Len(memory)
  <2>1. PICK o \in Nat, z \in {1, 6} : o = Pv!Offset(list, m - 1) /\ z = Pv!Size(list[m])
    BY <1>1, OffsetIsNat, SizeIs
  <2>2. o + z <= Len(memory) /\ Len(memory) \in Nat
    BY <1>1, <2>1, OffsetIsNat
  <2> QED
    BY <2>1, <2>2
<1>5. PICK lag : lag = IF online \/ list[m].type = TMR THEN {list[m].name} ELSE {}
  OBVIOUS
<1>6. PICK old : old = IF online THEN memory ELSE [memory EXCEPT ![o + 1] = new[1]]
  OBVIOUS
<1>7. /\ list' = [list EXCEPT ![m].value = new] /\ memory' \in Pv!Solutions(old, outputs)
      /\ truth' = (IF lag = {} THEN [truth EXCEPT ![list[m].name] = new] ELSE truth)
      /\ unsure' = unsure \cup lag \cup Pv!Written(list, outputs)
      /\ UNCHANGED <<outputs, flattened, strange, file>>
  BY <1>2, <1>3, <1>4, <1>5, <1>6, SameList DEF Pv!ToggleNode
<1>8. PICK b \in Int : new = <<b>>
  <2>1. CASE Len(list[m].value) = 4
    BY <1>3, <2>1 DEF Pv!Toggled
  <2>2. CASE Len(list[m].value) # 4
    BY <1>3, <2>2 DEF Pv!Toggled
  <2> QED
    BY <2>1, <2>2
<1>9. old \in Seq(Int) /\ Len(old) = Len(memory)
  <2>1. CASE online
    BY <1>1, <1>6, <2>1
  <2>2. CASE ~online
    <3>1. old = [memory EXCEPT ![o + 1] = b]
      BY <1>6, <1>8, <2>2
    <3> QED
      BY <1>1, <1>4, <3>1
  <2> QED
    BY <2>1, <2>2
<1>10. PICK x : x = memory'
  OBVIOUS
<1>11. /\ x \in Pv!Solutions(old, outputs) /\ x \in Seq(Int) /\ Len(x) = Len(memory)
       /\ outputs \subseteq Firsts(list)
  BY <1>7, <1>9, <1>10, SolutionIs DEF EngineInv
<1>12. PICK t : t = list'
  OBVIOUS
<1>13. PICK V : list \in Seq(VarRecords(V)) /\ \A i \in 1 .. Len(list) : list[i] \in VarRecords(V)
  <2>1. PICK V : list \in Seq(VarRecords(V))
    BY <1>1 DEF Tabled
  <2> QED
    BY <2>1, ElementOfSeq
<1>14. ASSUME NEW i \in 1 .. Len(list)
       PROVE  /\ t[i].name = list[i].name /\ t[i].type = list[i].type
              /\ t[i].value = IF i = m THEN new ELSE list[i].value
  <2>1. list[i] \in VarRecords(V)
    BY <1>13
  <2>2. t[i] = IF i = m THEN [list[i] EXCEPT !.value = new] ELSE list[i]
    BY <1>1, <1>7, <1>12
  <2> QED
    BY <2>1, <2>2 DEF VarRecords
<1>15. SameShape(list, t)
  <2>1. DOMAIN t = DOMAIN list
    BY <1>7, <1>12
  <2>2. ValuesInv'
    BY SymbolToggled
  <2>3. Tabled(t)
    BY <1>12, <2>2 DEF ValuesInv
  <2>4. Len(t) = Len(list)
    BY <1>1, <2>1, <2>3, TabledHas
  <2> QED
    BY <1>14, <2>1, <2>4 DEF SameShape
<1>16. Filled(t)
  <2> SUFFICES ASSUME NEW i \in 1 .. Len(list) PROVE Fields(t[i])
    BY <1>15 DEF Filled, SameShape
  <2>1. CASE i = m
    <3>1. PICK v : v = t[i]
      OBVIOUS
    <3>2. v.value = <<b>>
      BY <1>8, <1>14, <2>1, <3>1
    <3>3. v.value \in Seq(Int) /\ Len(v.value) = 1
      BY <3>2
    <3> QED
      BY <3>1, <3>3 DEF Fields
  <2>2. CASE i # m
    <3>1. Fields(list[i])
      BY DEF EngineInv, Filled
    <3> QED
      BY <1>14, <2>2, <3>1 DEF Fields
  <2> QED
    BY <2>1, <2>2
<1>17. Laid(t, x) /\ outputs \subseteq Firsts(t) /\ Pv!NamesOf(t) = Pv!NamesOf(list)
  BY <1>1, <1>11, <1>15, CellsSame DEF Laid
<1>18. DOMAIN truth' = Pv!NamesOf(t)
  <2>1. DOMAIN truth = Pv!NamesOf(list)
    BY DEF EngineInv
  <2>2. DOMAIN truth' = DOMAIN truth
    BY <1>7
  <2> QED
    BY <1>17, <2>1, <2>2
<1>19. ASSUME strange = FALSE, flattened = FALSE PROVE Right(t, x, truth', unsure')
  <2> SUFFICES ASSUME NEW i \in 1 .. Len(list), list[i].name \notin unsure'
               PROVE  /\ t[i].value = truth'[list[i].name]
                      /\ Pv!ValueAt(list, x, i) = truth'[list[i].name]
    <3>1. \A i \in 1 .. Len(list) : Pv!ValueAt(t, x, i) = Pv!ValueAt(list, x, i)
      BY <1>1, <1>15, CellsSame
    <3> QED
      BY <1>14, <1>15, <3>1 DEF Right, SameShape
  <2>1. /\ list[i].name \notin unsure /\ list[i].name \notin lag
        /\ list[i].name \notin Pv!Written(list, outputs)
    BY <1>7
  <2>2. Pv!Offset(list, i - 1) \notin outputs
    BY <1>1, <2>1, WrittenAre
  <2>3. Pv!ValueAt(list, x, i) = Pv!ValueAt(list, old, i)
    BY <1>1, <1>9, <1>11, <2>2, CellsKept
  <2>4. CASE i = m
    <3>1. ~online /\ list[m].type # TMR /\ lag = {}
      BY <1>5, <2>1, <2>4
    <3>2. truth'[list[m].name] = new
      <4>1. list[m].name \in DOMAIN truth
        BY <1>1, NamesAre DEF EngineInv
      <4> QED
        BY <1>7, <3>1, <4>1
    <3>3. old = [memory EXCEPT ![o + 1] = b]
      BY <1>6, <1>8, <3>1
    <3>4. old[o + 1] = b /\ o < Len(old)
      BY <1>1, <1>4, <1>9, <3>3, SMTT(30)
    <3>5. Pv!Read(old, o, list[m].type) = <<b>>
      <4>1. Pv!TMR = TMR
        BY SameList
      <4> QED
        BY <3>1, <3>4, <4>1 DEF Pv!Read, Pv!Byte
    <3>6. Pv!ValueAt(list, old, m) = <<b>>
      BY <1>4, <3>5 DEF Pv!ValueAt
    <3> QED
      BY <1>8, <1>14, <2>3, <2>4, <3>2, <3>6
  <2>5. CASE i # m
    <3>1. list[i].name # list[m].name
      BY <1>1, <2>5 DEF Tabled
    <3>2. truth'[list[i].name] = truth[list[i].name]
      BY <1>7, <3>1
    <3>3. list[i].value = truth[list[i].name] /\ Pv!ValueAt(list, memory, i) = truth[list[i].name]
      BY <1>19, <2>1 DEF EngineInv, Right
    <3>4. Pv!ValueAt(list, old, i) = Pv!ValueAt(list, memory, i)
      <4>1. CASE online
        BY <1>6, <4>1
      <4>2. CASE ~online
        <5>1. PICK p \in Nat, type \in {list[i].type} : p = Pv!Offset(list, i - 1) /\ type = list[i].type
          BY <1>1, OffsetIsNat
        <5>2. PICK cells : cells = {o}
          OBVIOUS
        <5>3. cells \subseteq Firsts(list)
          <6>1. m - 1 \in 0 .. Len(list) - 1
            BY <1>1
          <6> QED
            BY <1>4, <5>2, <6>1 DEF Firsts
        <5>4. p # o
          BY <1>1, <1>4, <2>5, <5>1, OffsetsDiffer
        <5>5. ASSUME NEW j \in 0 .. (IF type = TMR THEN 5 ELSE 0)
              PROVE  p + j # o /\ p + j \in Nat
          <6>1. j \in 0 .. Pv!Size(list[i]) - 1
            BY <5>1, SizeIs
          <6>2. p + j \notin cells
            BY <1>1, <5>1, <5>2, <5>3, <5>4, <6>1, Unwritten
          <6> QED
            BY <5>2, <6>2
        <5>6. old = [memory EXCEPT ![o + 1] = b]
          BY <1>6, <1>8, <4>2
        <5>7. ASSUME NEW q \in Nat, q # o PROVE Pv!Byte(old, q) = Pv!Byte(memory, q)
          <6>1. q < Len(memory) => q + 1 \in DOMAIN memory /\ q + 1 # o + 1
            BY <1>1, <5>7, LenProperties
          <6>2. q < Len(memory) => old[q + 1] = memory[q + 1]
            BY <5>6, <6>1
          <6> QED
            BY <1>9, <6>2 DEF Pv!Byte
        <5>8. SameCells(old, memory, p, type)
          BY <5>5, <5>7 DEF SameCells
        <5> QED
          BY <5>1, <5>8, CellsRead DEF Pv!ValueAt
      <4> QED
        BY <4>1, <4>2
    <3> QED
      BY <1>14, <2>3, <2>5, <3>2, <3>3, <3>4
  <2> QED
    BY <2>4, <2>5
<1>20. Filled(file.vars)'
  BY <1>7 DEF EngineInv, Filled
<1>21. strange' \in BOOLEAN /\ flattened' \in BOOLEAN
  BY <1>7 DEF EngineInv
<1>22. list' = t /\ memory' = x
  BY <1>10, <1>12
<1>23. strange' = FALSE /\ flattened' = FALSE => Right(t, x, truth', unsure')
  BY <1>7, <1>19
<1> QED
  BY <1>7, <1>16, <1>17, <1>18, <1>20, <1>21, <1>22, <1>23 DEF EngineInv

\* A byte is put into a memory.
LEMMA CellWritten ==
  ASSUME NEW cells, cells \in Seq(Int), NEW c, NEW v \in Int
  PROVE  [cells EXCEPT ![c] = v] \in Seq(Int)
<1>1. PICK n \in Nat : cells \in [1 .. n -> Int]
  BY LenProperties
<1>2. [cells EXCEPT ![c] = v] \in [1 .. n -> Int]
  BY <1>1
<1> QED
  BY <1>2, SeqDef

\* Nothing of the engine changes but what the file holds.
LEMMA EngineLeft ==
  ASSUME EngineInv,
         UNCHANGED <<list, memory, outputs, truth, unsure, strange>>, Filled(file.vars)',
         flattened' \in BOOLEAN, flattened' = FALSE => flattened = FALSE
  PROVE  EngineInv'
<1>1. Filled(list)' /\ Laid(list, memory)'
  BY DEF EngineInv, Filled, Laid
<1>2. ASSUME strange' = FALSE, flattened' = FALSE PROVE Right(list, memory, truth, unsure)'
  BY <1>2 DEF EngineInv, Right
<1>3. outputs' \subseteq Firsts(list)' /\ DOMAIN truth' = Pv!NamesOf(list)' /\ strange' \in BOOLEAN
  BY DEF EngineInv, Firsts, Pv!NamesOf
<1> QED
  BY <1>1, <1>2, <1>3 DEF EngineInv

LEMMA SaveFollows ==
  ASSUME EngineInv, Pv!Save
  PROVE  EngineInv'
<1>1. /\ file' = [nodes |-> [k \in DOMAIN nodes |-> Pv!Exported(nodes[k])], vars |-> list]
      /\ UNCHANGED <<list, memory, outputs, truth, unsure, strange>>
      /\ flattened' = TRUE \/ flattened' = flattened
  BY DEF Pv!Save
<1>2. file'.vars = list
  BY <1>1
<1>3. Filled(file.vars)'
  BY <1>2 DEF EngineInv, Filled
<1>4. flattened' \in BOOLEAN
  BY <1>1 DEF EngineInv
<1>5. flattened' = FALSE => flattened = FALSE
  BY <1>1
<1> QED
  BY <1>1, <1>3, <1>4, <1>5, EngineLeft

LEMMA EngineKept ==
  ASSUME ValuesInv, EngineInv, NodeInv, [Pv!ValuesNext]_Pv!valueVars
  PROVE  EngineInv'
<1>1. ASSUME UNCHANGED <<Pv!engineVars, strange, file>> PROVE EngineInv'
  <2>1. UNCHANGED <<list, memory, outputs, truth, unsure, strange, flattened, file>>
    BY <1>1 DEF Pv!engineVars
  <2>2. Filled(file.vars)' /\ flattened' \in BOOLEAN
    BY <2>1 DEF EngineInv, Filled
  <2> QED
    BY <2>1, <2>2, EngineLeft
<1>2. CASE Pv!EditTable
  BY <1>2, AddedFollows, RemovedFollows DEF Pv!EditTable
<1>3. CASE Pv!Draw
  <2>1. UNCHANGED <<Pv!engineVars, strange, file>>
    BY <1>3 DEF Pv!Draw, Pv!ClickIcon, Pv!PropOk, Pv!PropCancel, Pv!nodeVars
  <2> QED
    BY <1>1, <2>1
<1>4. CASE Pv!CpuUpdate
  BY <1>4, CpuFollows
<1>5. CASE Pv!GetvarsCommand
  BY <1>5, GetvarsFollows
<1>6. ASSUME \/ Pv!Answer \/ Pv!SetVar \/ Pv!Reload
             \/ \E b \in BOOLEAN : Pv!SetMode(b)
             \/ \E i \in DOMAIN board.layout : Pv!BoardScan(i)
             \/ UNCHANGED Pv!valueVars
      PROVE  EngineInv'
  <2>1. UNCHANGED <<Pv!engineVars, strange, file>>
    BY <1>6 DEF Pv!Answer, Pv!SetVar, Pv!Reload, Pv!SetMode, Pv!BoardScan, Pv!nodeVars, Pv!valueVars
  <2> QED
    BY <1>1, <2>1
<1>7. CASE Pv!Exchange
  BY <1>4, <1>5, <1>6, <1>7 DEF Pv!Exchange
<1>8. CASE Pv!Save
  BY <1>8, SaveFollows
<1>9. CASE Pv!Load
  BY <1>9, LoadFollows
<1>10. ASSUME NEW at \in Places, Pv!MouseDown(at) PROVE EngineInv'
  <2>1. CASE tool \in Symbols \cup {"none"} /\ Pv!SetNode(at, tool)
    <3>1. UNCHANGED <<Pv!engineVars, strange, file>>
      BY <2>1 DEF Pv!SetNode, Pv!nodeVars
    <3> QED
      BY <1>1, <3>1
  <2>2. PICK k : k = Pv!FindNode(at)
    OBVIOUS
  <2>3. CASE k # 0 /\ tool = "select" /\ Pv!SelectCell(k)
    <3>1. UNCHANGED <<Pv!engineVars, strange, file>>
      BY <2>3 DEF Pv!SelectCell, Pv!nodeVars
    <3> QED
      BY <1>1, <3>1
  <2>4. CASE k # 0 /\ nodes[k].op1 \in 0 .. Len(list) - 1 /\ Pv!ToggleNode(k)
    <3>1. k \in 1 .. Len(nodes)
      BY <2>2, <2>4, NodeFound DEF ValuesInv
    <3> QED
      BY <2>4, <3>1, ToggleFollows
  <2> QED
    BY <1>10, <2>1, <2>2, <2>3, <2>4 DEF Pv!MouseDown
<1> QED
  BY <1>2, <1>3, <1>6, <1>7, <1>8, <1>9, <1>10 DEF Pv!ValuesNext

-----------------------------------------------------------------------------
(* The node.                                                               *)

LEMMA ImageIsBytes ==
  ASSUME NEW s, Len(s) \in Nat, Filled(s)
  PROVE  Pv!Image(s) \in Seq(Int)
<1>1. \A i \in 1 .. Len(s) : Pv!Bytes(s[i]) \in Seq(Int) /\ Len(Pv!Bytes(s[i])) = Pv!Size(s[i])
  BY BytesAre DEF Filled
<1> QED
  BY <1>1, ImageHas

LEMMA NodeLeft ==
  ASSUME NodeInv, UNCHANGED Pv!nodeVars
  PROVE  NodeInv'
<1>1. UNCHANGED <<board, stored, answer, command, misset>>
  BY DEF Pv!nodeVars
<1>2. Held(board)' /\ (stored' # Pv!None => Held(stored)') /\ (answer' # Pv!None => Held(answer)')
  BY <1>1 DEF NodeInv, Held
<1>3. command' # Pv!None => Aimed(command)'
  BY <1>1 DEF NodeInv, Aimed
<1> QED
  BY <1>1, <1>2, <1>3 DEF NodeInv

\* A setvar reaches the cell it names, as long as the node has its layout.
LEMMA VariableSet ==
  ASSUME NodeInv, Pv!SetVar
  PROVE  NodeInv'
<1>1. /\ command # Pv!None /\ command' = Pv!None /\ UNCHANGED <<stored, answer>>
      /\ board' = IF command.offset < Len(board.cells)
                  THEN [board EXCEPT !.cells[command.offset + 1] = command.value] ELSE board
      /\ misset' = (misset \/
           /\ board.layout = command.layout
           /\ ~ \E i \in DOMAIN board.layout :
                  board.layout[i].name = command.name
                  /\ Pv!Offset(board.layout, i - 1) = command.offset)
  BY DEF Pv!SetVar
<1>2. Aimed(command) /\ misset = FALSE /\ Held(board)
  BY <1>1 DEF NodeInv
<1>3. misset' = FALSE
  BY <1>1, <1>2 DEF Aimed
<1>4. PICK cells, layout, c, v : cells = board.cells /\ layout = board.layout
                                 /\ c = command.offset + 1 /\ v = command.value
  OBVIOUS
<1>4a. v \in Int
  BY <1>2, <1>4 DEF Aimed
<1>5. board = [layout |-> layout, cells |-> cells] /\ cells \in Seq(Int)
  BY <1>2, <1>4 DEF Held
<1>6. Held(board)'
  <2>1. CASE command.offset < Len(board.cells)
    <3>1. board' = [layout |-> layout, cells |-> [cells EXCEPT ![c] = v]]
      BY <1>1, <1>4, <1>5, <2>1
    <3>2. [cells EXCEPT ![c] = v] \in Seq(Int)
      BY <1>4a, <1>5, CellWritten
    <3> QED
      BY <3>1, <3>2 DEF Held
  <2>2. CASE ~(command.offset < Len(board.cells))
    BY <1>1, <1>2, <2>2 DEF Held
  <2> QED
    BY <2>1, <2>2
<1>7. (stored' # Pv!None => Held(stored)') /\ (answer' # Pv!None => Held(answer)')
  BY <1>1 DEF NodeInv, Held
<1> QED
  BY <1>1, <1>3, <1>6, <1>7 DEF NodeInv

LEMMA BoardScanned ==
  ASSUME NodeInv, NEW i, Pv!BoardScan(i)
  PROVE  NodeInv'
<1>1. PICK cells, layout, c : cells = board.cells /\ layout = board.layout
                              /\ c = Pv!Offset(board.layout, i - 1) + 1
  OBVIOUS
<1>2. board = [layout |-> layout, cells |-> cells] /\ cells \in Seq(Int)
  BY <1>1 DEF NodeInv, Held
<1>3. /\ board' = [board EXCEPT !.cells[c] = 1 - @]
      /\ UNCHANGED <<stored, answer, command, misset>>
  BY <1>1 DEF Pv!BoardScan
<1>4. board' = [layout |-> layout, cells |-> [cells EXCEPT ![c] = 1 - @]]
  BY <1>2, <1>3
<1>5. [cells EXCEPT ![c] = 1 - @] \in Seq(Int)
  <2>1. CASE c \in DOMAIN cells
    <3>1. c \in 1 .. Len(cells)
      BY <1>2, <2>1, LenProperties
    <3>2. cells[c] \in Int
      BY <1>2, <3>1, ElementOfSeq
    <3>3. PICK v \in Int : v = 1 - cells[c]
      BY <3>2
    <3>4. [cells EXCEPT ![c] = 1 - @] = [cells EXCEPT ![c] = v]
      BY <3>3
    <3> QED
      BY <1>2, <3>4, CellWritten
  <2>2. CASE c \notin DOMAIN cells
    <3>1. cells \in [1 .. Len(cells) -> Int]
      BY <1>2, LenProperties
    <3>2. [cells EXCEPT ![c] = 1 - @] = cells
      BY <2>2, <3>1
    <3> QED
      BY <1>2, <3>2
  <2> QED
    BY <2>1, <2>2
<1>6. Held(board)'
  BY <1>4, <1>5 DEF Held
<1>7. (stored' # Pv!None => Held(stored)') /\ (answer' # Pv!None => Held(answer)')
  BY <1>3 DEF NodeInv, Held
<1>8. command' # Pv!None => Aimed(command)'
  BY <1>3 DEF NodeInv, Aimed
<1> QED
  BY <1>3, <1>6, <1>7, <1>8 DEF NodeInv

\* A setvar is made with the cell of its variable.
LEMMA SetVarMade ==
  ASSUME ValuesInv, NodeInv, NEW k, nodes[k].op1 \in 0 .. Len(list) - 1, Pv!ToggleNode(k)
  PROVE  NodeInv'
<1>1. Len(list) \in Nat /\ DOMAIN list = 1 .. Len(list)
  BY TabledHas DEF ValuesInv
<1>2. PICK m \in 1 .. Len(list) : m = nodes[k].op1 + 1 /\ m - 1 = nodes[k].op1
  <2>1. PICK j \in 0 .. Len(list) - 1 : j = nodes[k].op1
    OBVIOUS
  <2>2. j + 1 \in 1 .. Len(list) /\ j + 1 - 1 = j
    BY <1>1
  <2> QED
    BY <2>1, <2>2
<1>3. PICK new : new = Pv!Toggled(list[m])
  OBVIOUS
<1>4. PICK layout : layout = Pv!Layout(list)
  BY SMTT(30)
<1>5. /\ UNCHANGED <<board, stored, answer, misset>>
      /\ command' = IF online
                    THEN [offset |-> Pv!Offset(list, m - 1), value |-> new[1],
                          name |-> list[m].name, layout |-> layout]
                    ELSE command
  BY <1>2, <1>3, <1>4 DEF Pv!ToggleNode
<1>6. new[1] \in Int
  <2>1. CASE Len(list[m].value) = 4
    BY <1>3, <2>1 DEF Pv!Toggled
  <2>2. CASE Len(list[m].value) # 4
    BY <1>3, <2>2 DEF Pv!Toggled
  <2> QED
    BY <2>1, <2>2
<1>7. command' # Pv!None => Aimed(command)'
  <2>1. CASE online
    <3>1. PICK c : c = command'
      OBVIOUS
    <3>2. /\ c.offset = Pv!Offset(list, m - 1) /\ c.value = new[1] /\ c.name = list[m].name
          /\ c.layout = layout
      BY <1>5, <2>1, <3>1
    <3>3. layout = [i \in 1 .. Len(list) |-> [name |-> list[i].name, type |-> list[i].type]]
      BY <1>1, <1>4 DEF Pv!Layout
    <3>4. /\ DOMAIN layout = 1 .. Len(list) /\ Len(layout) = Len(list)
          /\ \A i \in 1 .. Len(list) : layout[i].type = list[i].type
          /\ layout[m].name = list[m].name
      BY <1>1, <3>3
    <3>5. Pv!Offset(layout, m - 1) = Pv!Offset(list, m - 1)
      <4>1. m - 1 \in 0 .. Len(list)
        BY <1>1
      <4> QED
        BY <1>1, <3>4, <4>1, OffsetsSame
    <3>6. Aimed(c)
      BY <1>6, <3>2, <3>4, <3>5 DEF Aimed
    <3> QED
      BY <3>1, <3>6 DEF Aimed
  <2>2. CASE ~online
    BY <1>5, <2>2 DEF NodeInv, Aimed
  <2> QED
    BY <2>1, <2>2
<1>8. Held(board)' /\ (stored' # Pv!None => Held(stored)') /\ (answer' # Pv!None => Held(answer)')
  BY <1>5 DEF NodeInv, Held
<1> QED
  BY <1>5, <1>7, <1>8 DEF NodeInv

LEMMA NodeKept ==
  ASSUME ValuesInv, EngineInv, NodeInv, [Pv!ValuesNext]_Pv!valueVars
  PROVE  NodeInv'
<1>1. CASE Pv!EditTable
  <2>1. UNCHANGED Pv!nodeVars
    BY <1>1 DEF Pv!EditTable, Pv!AddVariable, Pv!RemoveVariable
  <2> QED
    BY <2>1, NodeLeft
<1>2. CASE Pv!Draw
  <2>1. UNCHANGED Pv!nodeVars
    BY <1>2 DEF Pv!Draw, Pv!ClickIcon, Pv!PropOk, Pv!PropCancel
  <2> QED
    BY <2>1, NodeLeft
<1>3. ASSUME \/ Pv!CpuUpdate \/ Pv!Load \/ \E b \in BOOLEAN : Pv!SetMode(b)
             \/ UNCHANGED Pv!valueVars
      PROVE  NodeInv'
  <2>1. UNCHANGED Pv!nodeVars
    BY <1>3 DEF Pv!CpuUpdate, Pv!Load, Pv!SetMode, Pv!valueVars
  <2> QED
    BY <2>1, NodeLeft
<1>4. CASE Pv!Answer
  <2>1. answer' = board /\ UNCHANGED <<board, stored, command, misset>>
    BY <1>4 DEF Pv!Answer
  <2>2. Held(board)' /\ Held(answer)' /\ (stored' # Pv!None => Held(stored)')
    BY <2>1 DEF NodeInv, Held
  <2>3. command' # Pv!None => Aimed(command)'
    BY <2>1 DEF NodeInv, Aimed
  <2> QED
    BY <2>1, <2>2, <2>3 DEF NodeInv
<1>5. CASE Pv!GetvarsCommand
  <2>1. answer' = Pv!None /\ UNCHANGED <<board, stored, command, misset>>
    BY <1>5 DEF Pv!GetvarsCommand
  <2>2. Held(board)' /\ (stored' # Pv!None => Held(stored)')
    BY <2>1 DEF NodeInv, Held
  <2>3. command' # Pv!None => Aimed(command)'
    BY <2>1 DEF NodeInv, Aimed
  <2> QED
    BY <2>1, <2>2, <2>3 DEF NodeInv
<1>6. CASE Pv!Reload
  <2>1. stored # Pv!None /\ board' = stored /\ stored' = Pv!None
        /\ UNCHANGED <<answer, command, misset>>
    BY <1>6 DEF Pv!Reload
  <2>2. Held(board)' /\ (answer' # Pv!None => Held(answer)')
    BY <2>1 DEF NodeInv, Held
  <2>3. command' # Pv!None => Aimed(command)'
    BY <2>1 DEF NodeInv, Aimed
  <2> QED
    BY <2>1, <2>2, <2>3 DEF NodeInv
<1>7. CASE Pv!Exchange
  BY <1>3, <1>4, <1>5, <1>6, <1>7, VariableSet, BoardScanned DEF Pv!Exchange
<1>8. CASE Pv!Save
  <2>1. /\ UNCHANGED <<board, answer, command, misset>>
        /\ stored' = stored \/ stored' = [layout |-> Pv!Layout(list), cells |-> Pv!Image(list)]
    BY <1>8 DEF Pv!Save
  <2>2. Pv!Image(list) \in Seq(Int)
    BY TabledHas, ImageIsBytes DEF ValuesInv, EngineInv
  <2>3. stored' # Pv!None => Held(stored)'
    BY <2>1, <2>2 DEF NodeInv, Held
  <2>4. Held(board)' /\ (answer' # Pv!None => Held(answer)')
    BY <2>1 DEF NodeInv, Held
  <2>5. command' # Pv!None => Aimed(command)'
    BY <2>1 DEF NodeInv, Aimed
  <2> QED
    BY <2>1, <2>3, <2>4, <2>5 DEF NodeInv
<1>9. ASSUME NEW at \in Places, Pv!MouseDown(at) PROVE NodeInv'
  <2>1. ASSUME \/ Pv!SetNode(at, tool) \/ Pv!SelectCell(Pv!FindNode(at)) PROVE NodeInv'
    <3>1. UNCHANGED Pv!nodeVars
      BY <2>1 DEF Pv!SetNode, Pv!SelectCell
    <3> QED
      BY <3>1, NodeLeft
  <2>2. PICK k : k = Pv!FindNode(at)
    OBVIOUS
  <2>3. CASE nodes[k].op1 \in 0 .. Len(list) - 1 /\ Pv!ToggleNode(k)
    BY <2>3, SetVarMade
  <2> QED
    BY <1>9, <2>1, <2>2, <2>3 DEF Pv!MouseDown
<1> QED
  BY <1>1, <1>2, <1>3, <1>7, <1>8, <1>9 DEF Pv!ValuesNext

\* At first the page and the node have what the project says.
LEMMA EngineBegins ==
  ASSUME ValuesInv, Pv!ValuesInit
  PROVE  EngineInv /\ NodeInv
<1>1. /\ list = Initial /\ memory = Pv!Image(list) /\ outputs = {} /\ unsure = {}
      /\ strange = FALSE /\ flattened = FALSE /\ misset = FALSE
      /\ board = [layout |-> Pv!Layout(list), cells |-> Pv!Image(list)]
      /\ stored = Pv!None /\ answer = Pv!None /\ command = Pv!None
      /\ file = [nodes |-> [k \in DOMAIN nodes |-> Pv!Exported(nodes[k])], vars |-> list]
      /\ truth = [n \in Pv!NamesOf(list) |-> (CHOOSE v \in Pv!Range(list) : v.name = n).value]
  BY DEF Pv!ValuesInit
<1>2. Len(list) \in Nat /\ DOMAIN list = 1 .. Len(list) /\ Tabled(list)
  BY TabledHas DEF ValuesInv
<1>3. PICK T : T = [name : Nat, type : Nat, value : Seq(Nat)]
  OBVIOUS
<1>4. list \in Seq(T)
  BY <1>1, <1>3, ValuesAssumption
<1>5. ASSUME NEW i \in 1 .. Len(list)
      PROVE  Fields(list[i]) /\ ~Pv!IsNumber(list[i])
  <2>1. list[i] \in T
    BY <1>4, ElementOfSeq
  <2>2. list[i].value \in Seq(Nat)
    BY <1>3, <2>1
  <2>3. list[i].value \in Seq(Int)
    BY <2>2, SeqMonotonic
  <2>4. Len(list[i].value) = IF list[i].type = TMR THEN 4 ELSE 1
    BY <1>1, <1>2, ValuesAssumption
  <2> QED
    BY <2>3, <2>4, SameList DEF Fields, Pv!IsNumber
<1>6. Filled(list)
  BY <1>5 DEF Filled
<1>7. PICK cells, m : cells = {} /\ m = memory
  OBVIOUS
<1>8. m \in Pv!Solutions(Pv!Image(list), cells)
  <2>1. PICK image : image = Pv!Image(list)
    OBVIOUS
  <2>2. image \in [1 .. Len(image) -> Int]
    BY <1>2, <1>6, <2>1, ImageIsBytes, LenProperties
  <2>3. image = [i \in DOMAIN image |-> IF i - 1 \in cells THEN 0 ELSE image[i]]
    BY <1>7, <2>2
  <2>4. PICK f : f = [q \in cells |-> 0]
    OBVIOUS
  <2>5. f \in [cells -> {0, 1}]
    BY <2>4
  <2>6. image = [i \in DOMAIN image |-> IF i - 1 \in cells THEN f[i - 1] ELSE image[i]]
    BY <1>7, <2>3
  <2>7. image \in Pv!Solutions(image, cells)
    BY <2>5, <2>6 DEF Pv!Solutions
  <2> QED
    BY <1>1, <1>7, <2>1, <2>7
<1>9. cells \subseteq Firsts(list)
  BY <1>7
<1>10. /\ Laid(list, m)
       /\ \A i \in 1 .. Len(list) :
            Pv!Offset(list, i - 1) \notin cells /\ ~Pv!IsNumber(list[i])
            => Pv!ValueAt(list, m, i) = list[i].value
  BY <1>2, <1>6, <1>8, <1>9, MadeAnew
<1>11. ASSUME NEW i \in 1 .. Len(list) PROVE truth[list[i].name] = list[i].value
  <2>1. list[i].name \in Pv!NamesOf(list) /\ list[i] \in Pv!Range(list)
    BY <1>2, NamesAre DEF Pv!Range
  <2>2. \A v \in Pv!Range(list) : v.name = list[i].name => v = list[i]
    BY <1>2 DEF Pv!Range, Tabled
  <2>3. (CHOOSE v \in Pv!Range(list) : v.name = list[i].name) = list[i]
    BY <2>1, <2>2
  <2> QED
    BY <1>1, <2>1, <2>3
<1>12. Right(list, m, truth, unsure)
  BY <1>5, <1>7, <1>10, <1>11 DEF Right
<1>13. file.vars = list
  BY <1>1
<1>14. EngineInv
  BY <1>1, <1>6, <1>7, <1>10, <1>12, <1>13 DEF EngineInv
<1>15. Held(board)
  <2>1. Pv!Image(list) \in Seq(Int)
    BY <1>2, <1>6, ImageIsBytes
  <2> QED
    BY <1>1, <2>1 DEF Held
<1>16. NodeInv
  BY <1>1, <1>15 DEF NodeInv
<1> QED
  BY <1>14, <1>16

LEMMA ValuesAreRight ==
  ASSUME ValuesInv, EngineInv, NodeInv
  PROVE  ValuesFollow
<1>1. DOMAIN list = 1 .. Len(list) /\ misset = FALSE /\ strange \in BOOLEAN /\ flattened \in BOOLEAN
  BY TabledHas DEF ValuesInv, EngineInv, NodeInv
<1>2. strange \/ flattened \/
        \A i \in DOMAIN list :
          \/ list[i].name \in unsure
          \/ /\ list[i].value = truth[list[i].name]
             /\ Pv!ValueAt(list, memory, i) = truth[list[i].name]
  BY <1>1 DEF EngineInv, Right
<1> QED
  BY <1>1, <1>2 DEF ValuesFollow, Pv!ValuesFollow

\* "Must be able to keep existing links and values" (Project.js:993): whatever
\* project is open and in whatever order its variables are added and removed,
\* toggled, computed, answered by the node, saved and loaded, the list and the
\* memory of the page have of each variable the value it was given, and a
\* toggle sets the variable it was meant for, up to answers in another layout
\* and timers that a click made numbers.
THEOREM ValuesAreFollowed == Pv!ValuesSpec => []ValuesFollow
<1> DEFINE FollowInv == ValuesInv /\ EngineInv /\ NodeInv
<1>1. Pv!ValuesInit => FollowInv
  BY ValuesBegin, EngineBegins
<1>2. FollowInv /\ [Pv!ValuesNext]_Pv!valueVars => FollowInv'
  BY ValuesKept, EngineKept, NodeKept
<1>3. FollowInv => ValuesFollow
  BY ValuesAreRight
<1> QED
  BY <1>1, <1>2, <1>3, PTL DEF Pv!ValuesSpec

-----------------------------------------------------------------------------
(* The parts together.                                                     *)

\* A behaviour of MCProject, whichever part it is about, is one of each
\* component that is proved about, so that what is proved of them holds in it.
THEOREM ProjectKeeps ==
  ProjectSpec => /\ Spec /\ HmiSpec /\ Pv!ValuesSpec
                 /\ [](TableHolds /\ EditorAgrees /\ DrawingKept /\ ValuesFollow)
<1>1. ProjectInit => Init /\ HmiInit /\ Pv!ValuesInit
  BY DEF ProjectInit
<1> DEFINE all == <<part, vars, configVars, hmiVars, pvVars>>
<1>2. [ProjectNext]_all => [Next]_vars
  <2>1. ASSUME TableNext PROVE Next
    BY <2>1 DEF TableNext
  <2>2. ASSUME TagsNext PROVE Next
    BY <2>2 DEF TagsNext, Next
  <2> QED
    BY <2>1, <2>2 DEF ProjectNext
<1>3. [ProjectNext]_all => [HmiNext]_hmiVars
  BY DEF ProjectNext
<1>4. [ProjectNext]_all => [Pv!ValuesNext]_Pv!valueVars
  <2>1. ASSUME DrawingNext PROVE Pv!ValuesNext
    BY <2>1 DEF DrawingNext, Pv!ValuesNext
  <2>2. ASSUME ValuesNext PROVE Pv!ValuesNext
    <3>1. ASSUME \E b \in BOOLEAN : b # online /\ Pv!SetMode(b) PROVE Pv!Exchange
      BY <3>1 DEF Pv!Exchange
    <3>2. ASSUME \E i \in DOMAIN board.layout : board.layout[i].type = BIT /\ Pv!BoardScan(i)
          PROVE  Pv!Exchange
      BY <3>2 DEF Pv!Exchange
    <3>3. ASSUME \E at \in Places \cap {1} : Pv!MouseDown(at) PROVE Pv!ValuesNext
      BY <3>3 DEF Pv!ValuesNext
    <3> QED
      BY <2>2, <3>1, <3>2, <3>3 DEF ValuesNext, Pv!ValuesNext, Pv!Exchange
  <2>3. UNCHANGED pvVars => UNCHANGED Pv!valueVars
    BY DEF pvVars, Pv!valueVars, Pv!drawingVars, Pv!engineVars, Pv!nodeVars
  <2> QED
    BY <2>1, <2>2, <2>3 DEF ProjectNext
<1> QED
  BY <1>1, <1>2, <1>3, <1>4, TableIsKept, EditorIsRight, DrawingIsKept,
     ValuesAreFollowed, PTL
  DEF ProjectSpec, Spec, HmiSpec, Pv!ValuesSpec

=============================================================================
