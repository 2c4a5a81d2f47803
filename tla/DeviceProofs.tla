---------------------------- MODULE DeviceProofs -----------------------------
(***************************************************************************)
(* Theorems about MultiSetValue, for any parameters, limits and requests:  *)
(* the limits hold whatever requests follow each other, and a request that *)
(* was accepted is written to the last entry and as a whole, unless it     *)
(* appends to one array twice. And about DeviceSerializer, for any         *)
(* parameters, languages and number of device requests: each sends all of  *)
(* what it is asked for once, while the device changes under it.           *)
(***************************************************************************)
EXTENDS MultiSetValue, DeviceSerializer, FiniteSetTheorems, SequenceTheorems, WellFoundedInduction, TLAPS

\* What tryMultiSetValue has found out about an entry, of the values the device
\* had then
Fits(e) ==
    /\ e.param \notin Arrays => e.index = kNone
    /\ e.index # kNone => ~e.whole
    /\ e.index \in {kNone, kEnd} \cup 0..(Len(before[e.param]) - 1)
    /\ WithinLimits(e.param, Written(before[e.param], e))

\* While a request is written: its entries fit, do not overlap, the arrays it
\* writes to twice are noted, what it has yet to write to once is as it was when
\* the request was validated, and everything is what the entries so far make of it.
Committing ==
    phase = "commit" =>
        /\ \A i \in DOMAIN src : Fits(src[i])
        /\ \A i, j \in DOMAIN src : i < j => ~Overlapping(src[i], src[j])
        /\ WrittenTwice(src) \subseteq shared
        /\ \A i \in next..Len(src) :
              src[i].param \in Arrays \ shared => value[src[i].param] = before[src[i].param]
        /\ \A p \in Params : HasTaken(p, next - 1)

\* The inductive invariant
IInv == LengthsRespected /\ Committing /\ DoesWhatItAccepts

-----------------------------------------------------------------------------
(* Total lengths *)

\* A set of natural numbers that is not empty has a least element; the inductions
\* below look at the least counterexample.
LEMMA LeastNatural ==
    ASSUME NEW T \in SUBSET Nat, T # {}
    PROVE  \E n \in T : \A m \in T : n <= m
<1> DEFINE R == OpToRel(<, Nat)
<1>1. IsWellFoundedOn(R, Nat)
  BY NatLessThanWellFounded
<1>2. PICK n \in T : \A m \in T : ~ (<<m, n>> \in R)
  <2> HIDE DEF R
  <2> QED BY <1>1, WFMin
<1>3. ASSUME NEW m \in T PROVE n <= m
  <2>1. m \in Nat /\ n \in Nat
    OBVIOUS
  <2>2. m < n => <<m, n>> \in R
    BY <2>1 DEF OpToRel
  <2>3. ~ (m < n)
    <3> HIDE DEF R
    <3> QED BY <1>2, <2>2
  <2> QED BY <2>1, <2>3
<1> QED BY <1>3

\* f[i] is the sum of the first i elements of s, for i up to n.
IsSum(f, s, n) ==
    /\ f[0] = 0
    /\ \A i \in 1..n : f[i] = f[i - 1] + s[i]

\* Every sequence of natural numbers has such sums, and they are natural numbers.
LEMMA SumExists ==
    ASSUME NEW s \in Seq(Nat)
    PROVE  \A n \in 0..Len(s) : \E f \in [0..n -> Nat] : IsSum(f, s, n)
<1> DEFINE Bad == {n \in 0..Len(s) : ~ \E f \in [0..n -> Nat] : IsSum(f, s, n)}
<1> SUFFICES ASSUME Bad # {} PROVE FALSE
  OBVIOUS
<1>1. PICK n \in Bad : \A m \in Bad : n <= m
  <2>1. Bad \in SUBSET Nat
    OBVIOUS
  <2> HIDE DEF Bad
  <2> QED BY <2>1, LeastNatural
<1>2. CASE n = 0
  <2> DEFINE f == [i \in 0..0 |-> 0]
  <2>1. f \in [0..0 -> Nat] /\ IsSum(f, s, 0)
    BY DEF IsSum
  <2> QED BY <1>2, <2>1
<1>3. CASE n # 0
  <2>1. n \in 0..Len(s) /\ Len(s) \in Nat
    OBVIOUS
  <2>2. n - 1 \in 0..Len(s) /\ n \in 1..Len(s) /\ ~ (n <= n - 1)
    BY <2>1, <1>3
  <2>3. n - 1 \notin Bad
    <3> HIDE DEF Bad
    <3> QED BY <1>1, <2>2
  <2>4. PICK f \in [0..(n - 1) -> Nat] : IsSum(f, s, n - 1)
    BY <2>2, <2>3
  <2> DEFINE g == [i \in 0..n |-> IF i = n THEN f[n - 1] + s[n] ELSE f[i]]
  <2>5. g \in [0..n -> Nat] /\ IsSum(g, s, n)
    <3>1. f \in [0..(n - 1) -> Nat] /\ f[0] = 0 /\ n - 1 \in 0..(n - 1) /\ s[n] \in Nat
      BY <2>2, <2>4 DEF IsSum
    <3>2. g \in [0..n -> Nat]
      BY <2>2, <3>1
    <3>3. g[0] = 0
      BY <2>2, <3>1
    <3>4. ASSUME NEW i \in 1..n PROVE g[i] = g[i - 1] + s[i]
      <4>1. i - 1 \in 0..n /\ i - 1 # n
        BY <2>2
      <4>2. CASE i = n
        BY <4>1, <4>2
      <4>3. CASE i # n
        <5>1. i \in 1..(n - 1)
          BY <2>2, <4>3
        <5> QED BY <4>1, <4>3, <5>1, <2>4 DEF IsSum
      <4> QED BY <4>2, <4>3
    <3> QED BY <3>2, <3>3, <3>4 DEF IsSum
  <2> QED BY <2>5
<1> QED BY <1>2, <1>3

\* s and t have the same first n elements.
SameUpTo(n, s, t) == \A i \in 1..n : s[i] = t[i]

\* The sums of a sequence begin with the sums of any sequence it begins with.
LEMMA SumUnique ==
    ASSUME NEW s, NEW t, Len(s) \in Nat, Len(t) \in Nat, Len(t) <= Len(s), SameUpTo(Len(t), s, t),
           NEW f, IsSum(f, s, Len(s)), NEW g, IsSum(g, t, Len(t))
    PROVE  \A i \in 0..Len(t) : f[i] = g[i]
<1> DEFINE Bad == {i \in 0..Len(t) : f[i] # g[i]}
<1> SUFFICES ASSUME Bad # {} PROVE FALSE
  OBVIOUS
<1>1. PICK i \in Bad : \A j \in Bad : i <= j
  <2>1. Bad \in SUBSET Nat
    OBVIOUS
  <2> HIDE DEF Bad
  <2> QED BY <2>1, LeastNatural
<1>2. i # 0
  BY DEF IsSum
<1>3. i - 1 \in 0..Len(t) /\ i - 1 \notin Bad /\ i \in 1..Len(t) /\ i \in 1..Len(s)
  BY <1>1, <1>2
<1>4. f[i] = f[i-1] + s[i] /\ g[i] = g[i-1] + t[i]
  BY <1>3 DEF IsSum
<1>5. s[i] = t[i]
  BY <1>3 DEF SameUpTo
<1> QED BY <1>1, <1>3, <1>4, <1>5

\* The recursion of Total computes such a sum: the total length of a value is a
\* natural number.
LEMMA TotalIsSum ==
    ASSUME NEW s \in Seq(Nat)
    PROVE  \E f \in [0..Len(s) -> Nat] : IsSum(f, s, Len(s)) /\ Total(s) = f[Len(s)]
<1> DEFINE sum[i \in 0..Len(s)] == IF i = 0 THEN 0 ELSE sum[i - 1] + s[i]
<1>1. PICK f \in [0..Len(s) -> Nat] : IsSum(f, s, Len(s))
  BY SumExists
<1>2. f = [i \in 0..Len(s) |-> IF i = 0 THEN 0 ELSE f[i - 1] + s[i]]
  BY <1>1 DEF IsSum
<1>3. sum = CHOOSE g : g = [i \in 0..Len(s) |-> IF i = 0 THEN 0 ELSE g[i - 1] + s[i]]
  OBVIOUS
<1>4. sum = [i \in 0..Len(s) |-> IF i = 0 THEN 0 ELSE sum[i - 1] + s[i]]
  <2> HIDE DEF sum
  <2> QED BY <1>2, <1>3
<1>5. IsSum(sum, s, Len(s))
  <2> HIDE DEF sum
  <2>1. Len(s) \in Nat
    OBVIOUS
  <2>2. \A i \in 0..Len(s) : sum[i] = IF i = 0 THEN 0 ELSE sum[i - 1] + s[i]
    BY <1>4
  <2> QED BY <2>1, <2>2 DEF IsSum
<1>6. sum[Len(s)] = f[Len(s)]
  <2> HIDE DEF sum
  <2>1. Len(s) \in Nat /\ SameUpTo(Len(s), s, s)
    BY DEF SameUpTo
  <2>2. Len(s) <= Len(s) /\ Len(s) \in 0..Len(s)
    BY <2>1
  <2> QED BY <1>1, <1>5, <2>1, <2>2, SumUnique
<1>7. Total(s) = sum[Len(s)]
  BY DEF Total
<1> HIDE DEF sum
<1> QED BY <1>1, <1>6, <1>7

\* Without its last string a value is not longer.
LEMMA TotalOfShorter ==
    ASSUME NEW s \in Seq(Nat), s # <<>>, NEW t \in Seq(Nat), Len(t) = Len(s) - 1,
           \A i \in 1..Len(t) : s[i] = t[i]
    PROVE  Total(s) \in Nat /\ Total(t) \in Nat /\ Total(t) <= Total(s)
<1>1. Len(s) \in 1..Len(s) /\ s[Len(s)] \in Nat /\ Len(t) \in 0..Len(s)
  OBVIOUS
<1>2. PICK f \in [0..Len(s) -> Nat] : IsSum(f, s, Len(s)) /\ Total(s) = f[Len(s)]
  BY TotalIsSum
<1>3. PICK g \in [0..Len(t) -> Nat] : IsSum(g, t, Len(t)) /\ Total(t) = g[Len(t)]
  BY TotalIsSum
<1>4. \A i \in 0..Len(t) : f[i] = g[i]
  <2>1. Len(t) \in Nat /\ Len(s) \in Nat /\ Len(t) <= Len(s)
    BY <1>1
  <2>2. IsSum(g, t, Len(t)) /\ IsSum(f, s, Len(s))
    BY <1>2, <1>3
  <2>3. SameUpTo(Len(t), s, t)
    BY DEF SameUpTo
  <2>4. \A u, v : IsSum(u, s, Len(s)) /\ IsSum(v, t, Len(t)) => \A i \in 0..Len(t) : u[i] = v[i]
    BY ONLY <2>1, <2>3, SumUnique
  <2> QED BY <2>2, <2>4, Zenon
<1>5. f[Len(s)] = f[Len(t)] + s[Len(s)] /\ f[Len(t)] \in Nat /\ f[Len(s)] \in Nat
  <2>1. f[Len(s)] = f[Len(s) - 1] + s[Len(s)]
    BY <1>1, <1>2 DEF IsSum
  <2>2. Len(t) \in 0..Len(s) /\ Len(s) \in 0..Len(s)
    BY <1>1
  <2> QED BY <2>1, <2>2
<1>6. g[Len(t)] = f[Len(t)]
  BY <1>4
<1> QED BY <1>1, <1>2, <1>3, <1>5, <1>6

\* popBack does not make the total length of an array grow.
LEMMA TotalOfFront ==
    ASSUME NEW s \in Seq(Nat), s # <<>>
    PROVE  LET t == SubSeq(s, 1, Len(s) - 1)
           IN  Total(s) \in Nat /\ Total(t) \in Nat /\ Total(t) <= Total(s)
<1> DEFINE t == SubSeq(s, 1, Len(s) - 1)
<1>1. Len(s) \in Nat \ {0} /\ \A i \in 1..(Len(s) - 1) : s[i] \in Nat
  OBVIOUS
<1>2. /\ t \in Seq(Nat)
      /\ Len(t) = IF 1 <= Len(s) - 1 THEN Len(s) - 1 - 1 + 1 ELSE 0
      /\ \A i \in 1..(Len(s) - 1 - 1 + 1) : t[i] = s[1 + i - 1]
  BY <1>1, SubSeqProperties
<1> HIDE DEF t
<1>3. Len(t) = Len(s) - 1
  <2>1. CASE Len(s) = 1
    BY <1>2, <2>1
  <2>2. CASE Len(s) # 1
    <3>1. 1 <= Len(s) - 1 /\ Len(s) - 1 - 1 + 1 = Len(s) - 1
      <4>1. Len(s) \in Nat /\ Len(s) # 0 /\ Len(s) # 1
        BY <1>1, <2>2
      <4>2. \A n \in Nat : n # 0 /\ n # 1 => 1 <= n - 1 /\ n - 1 - 1 + 1 = n - 1
        OBVIOUS
      <4> QED BY <4>1, <4>2
    <3> QED BY <1>2, <3>1
  <2> QED BY <2>1, <2>2
<1>4. ASSUME NEW i \in 1..Len(t) PROVE s[i] = t[i]
  <2>1. i \in 1..(Len(s) - 1 - 1 + 1) /\ 1 + i - 1 = i
    BY <1>1, <1>3
  <2> QED BY <1>2, <2>1
<1> QED BY <1>2, <1>3, <1>4, TotalOfShorter DEF t
-----------------------------------------------------------------------------
(* Entries *)

\* The value of an entry is a sequence of lengths, of one length when it is for
\* an element.
LEMMA EntryType ==
    ASSUME NEW e \in Entries
    PROVE  /\ e.param \in Params /\ e.index \in Int
           /\ e.value \in Seq(Lengths \cup {0})
           /\ ~e.whole => /\ Len(e.value) = 1
                          /\ e.value[1] \in Lengths \cup {0}
                          /\ e.value = <<e.value[1]>>
<1>1. e.param \in Params /\ e.index \in Indices
  BY DEF Entries
<1>2. e.index \in Int
  BY <1>1, RequestsAssumption DEF Indices, kNone, kEnd
<1>3. CASE e.whole = FALSE
  <2>1. e.value \in Strings
    BY <1>3 DEF Entries
  <2>2. PICK n \in Lengths : e.value = <<n>>
    BY <2>1 DEF Strings
  <2> QED BY <1>1, <1>2, <2>2
<1>4. CASE e.whole = TRUE
  <2>1. e.value \in WholeArrays
    BY <1>4 DEF Entries
  <2>2. PICK n \in 0..MaxIndex : e.value \in [1..n -> Lengths]
    BY <2>1 DEF WholeArrays
  <2>3. n \in Nat
    BY <2>2, RequestsAssumption
  <2> QED BY <1>1, <1>2, <1>4, <2>2, <2>3
<1> QED BY <1>3, <1>4 DEF Entries

\* What the concatenation with a sequence of one element is
LEMMA OneMore ==
    ASSUME NEW S, NEW v \in Seq(S), NEW w \in Seq(S), Len(w) = 1
    PROVE  /\ v \o w \in Seq(S)
           /\ Len(v \o w) = Len(v) + 1
           /\ \A k \in 1..Len(v) : (v \o w)[k] = v[k]
           /\ (v \o w)[Len(v) + 1] = w[1]
<1>1. /\ v \o w \in Seq(S)
      /\ Len(v \o w) = Len(v) + Len(w)
      /\ \A i \in 1..(Len(v) + Len(w)) :
            (v \o w)[i] = IF i <= Len(v) THEN v[i] ELSE w[i - Len(v)]
  BY ConcatProperties
<1>2. Len(v) \in Nat /\ Len(v) + 1 \in 1..(Len(v) + Len(w)) /\ Len(v) + 1 - Len(v) = 1
  OBVIOUS
<1> QED BY <1>1, <1>2

\* Writing an entry to a value gives a value: of the same length for an element,
\* longer by one for an append.
LEMMA WrittenType ==
    ASSUME NEW s \in Seq(Lengths \cup {0}), NEW e \in Entries, e.index # kNone => ~e.whole
    PROVE  /\ Written(s, e) \in Seq(Lengths \cup {0})
           /\ e.index = kEnd => Len(Written(s, e)) = Len(s) + 1
           /\ e.index \notin {kNone, kEnd} => Len(Written(s, e)) = Len(s)
<1>1. CASE e.index = kNone
  BY <1>1, EntryType DEF Written, kNone, kEnd
<1>2. CASE e.index = kEnd
  <2>1. /\ e.value \in Seq(Lengths \cup {0}) /\ Len(e.value) = 1 /\ e.index # kNone
    BY <1>2, EntryType DEF kNone, kEnd
  <2>2. Written(s, e) = s \o e.value
    BY <1>2, <2>1 DEF Written
  <2>3. s \o e.value \in Seq(Lengths \cup {0}) /\ Len(s \o e.value) = Len(s) + 1
    BY <2>1, OneMore
  <2> QED BY <1>2, <2>2, <2>3
<1>3. CASE e.index \notin {kNone, kEnd}
  <2>1. e.value[1] \in Lengths \cup {0}
    BY <1>3, EntryType
  <2>2. Written(s, e) = [s EXCEPT ![e.index + 1] = e.value[1]]
    BY <1>3 DEF Written
  <2>3. s \in [1..Len(s) -> Lengths \cup {0}] /\ Len(s) \in Nat
    OBVIOUS
  <2>4. Written(s, e) \in [1..Len(s) -> Lengths \cup {0}]
    BY <2>1, <2>2, <2>3
  <2>5. \A n \in Nat : \A f \in [1..n -> Lengths \cup {0}] : f \in Seq(Lengths \cup {0}) /\ Len(f) = n
    OBVIOUS
  <2>6. Written(s, e) \in Seq(Lengths \cup {0}) /\ Len(Written(s, e)) = Len(s)
    BY <2>3, <2>4, <2>5
  <2> QED BY <1>3, <2>6
<1> QED BY <1>1, <1>2, <1>3

\* Entries of one parameter overlap when one of them is for all of it, or when
\* both are for the same element.
LEMMA SamePlaceOverlaps ==
    ASSUME NEW d, NEW e, d.param = e.param,
           d.index = kNone \/ e.index = kNone \/ (d.index = e.index /\ d.index # kEnd)
    PROVE  Overlapping(d, e)
  BY DEF Overlapping, StartsWith, kNone, kEnd

\* The entries that name a place are finitely many, and one more entry adds
\* itself or nothing.
LEMMA NamingProperties ==
    ASSUME NEW p, NEW k, NEW n \in Nat
    PROVE  /\ IsFiniteSet(Naming(p, k, n)) /\ Cardinality(Naming(p, k, n)) \in Nat
           /\ Naming(p, k, n) \subseteq 1..n
           /\ n # 0 => Naming(p, k, n) =
                          IF src[n].param = p /\ src[n].index = k
                          THEN Naming(p, k, n - 1) \cup {n} ELSE Naming(p, k, n - 1)
<1>1. Naming(p, k, n) \in SUBSET (1..n)
  BY DEF Naming
<1>2. IsFiniteSet(Naming(p, k, n)) /\ Cardinality(Naming(p, k, n)) \in Nat
  <2>1. IsFiniteSet(1..n)
    BY FS_Interval
  <2>2. IsFiniteSet(Naming(p, k, n))
    BY <1>1, <2>1, FS_Subset
  <2> QED BY <2>2, FS_CardinalityType
<1>3. ASSUME n # 0
      PROVE  Naming(p, k, n) =
                 IF src[n].param = p /\ src[n].index = k
                 THEN Naming(p, k, n - 1) \cup {n} ELSE Naming(p, k, n - 1)
  <2>1. 1..n = (1..(n - 1)) \cup {n}
    BY <1>3
  <2>2. Naming(p, k, n) = {i \in (1..(n - 1)) \cup {n} : src[i].param = p /\ src[i].index = k}
    BY <2>1 DEF Naming
  <2> QED BY <2>2 DEF Naming
<1> QED BY <1>1, <1>2, <1>3

\* An append is at a place between the first and the last of the appends so far.
LEMMA AppendPlace ==
    ASSUME NEW p, NEW n \in Nat, NEW i \in Naming(p, kEnd, n)
    PROVE  Cardinality(Naming(p, kEnd, i)) \in 1..Cardinality(Naming(p, kEnd, n))
<1>1. i \in 1..n /\ i \in Naming(p, kEnd, i) /\ i \in Nat
  BY DEF Naming
<1>2. Naming(p, kEnd, i) \in SUBSET Naming(p, kEnd, n)
  BY <1>1 DEF Naming
<1>3. /\ IsFiniteSet(Naming(p, kEnd, i)) /\ Cardinality(Naming(p, kEnd, i)) \in Nat
      /\ IsFiniteSet(Naming(p, kEnd, n)) /\ Cardinality(Naming(p, kEnd, n)) \in Nat
  BY <1>1, NamingProperties
<1>4. Cardinality(Naming(p, kEnd, i)) # 0
  BY <1>1, <1>3, FS_EmptySet
<1>5. Cardinality(Naming(p, kEnd, i)) <= Cardinality(Naming(p, kEnd, n))
  BY <1>2, <1>3, FS_Subset
<1> QED BY <1>3, <1>4, <1>5

-----------------------------------------------------------------------------
(* The steps *)

\* A value is what the entries so far make of it as long as no entry names it.
LEMMA HasTakenElsewhere ==
    ASSUME NEW q \in Params, NEW n \in Nat \ {0}, HasTaken(q, n - 1), src[n].param # q,
           value'[q] = value[q], UNCHANGED <<src, before>>
    PROVE  HasTaken(q, n)'
<1>1. \A k : Naming(q, k, n) = Naming(q, k, n - 1)
  BY NamingProperties
<1>2. \A k, m : Naming(q, k, m)' = Naming(q, k, m)
  BY DEF Naming
<1> QED BY <1>1, <1>2 DEF HasTaken

\* An entry that is written takes effect, and leaves the effect of the entries
\* before it.
LEMMA EntryTaken ==
    ASSUME IInv, CommitEntry,
           NEW CONSTANT n, n = next, NEW CONSTANT e, e = src[n], NEW CONSTANT p, p = e.param
    PROVE  HasTaken(p, n)'
<1> USE DEF IInv, LengthsRespected
<1>1. /\ phase = "commit" /\ n \in 1..Len(src) /\ e \in Entries /\ n \in Nat \ {0}
      /\ value' = [value EXCEPT ![p] = Written(@, e)]
      /\ UNCHANGED <<src, before>>
  <2>1. phase = "commit" /\ n \in DOMAIN src /\ UNCHANGED <<src, before>>
    BY DEF CommitEntry
  <2>2. n \in 1..Len(src) /\ e \in Entries /\ n \in Nat \ {0}
    BY <2>1 DEF TypeOK
  <2> QED BY <2>1, <2>2 DEF CommitEntry
<1>2. /\ p \in Params
      /\ value[p] \in Seq(Lengths \cup {0}) /\ before[p] \in Seq(Lengths \cup {0})
      /\ value'[p] = Written(value[p], e)
  BY <1>1, EntryType DEF TypeOK
<1>2a. Len(value[p]) \in Nat /\ Len(before[p]) \in Nat
  BY <1>2
<1>3. Fits(e) /\ HasTaken(p, n - 1)
  BY <1>1, <1>2 DEF Committing
<1>4. ASSUME NEW i \in 1..(n - 1), src[i].param = p
      PROVE  /\ src[i].index # kNone /\ e.index # kNone
             /\ src[i].index = e.index => e.index = kEnd
  <2>1. ~Overlapping(src[i], e)
    BY <1>1, <1>4 DEF Committing, TypeOK
  <2> QED BY <1>4, <2>1, SamePlaceOverlaps
<1>5. /\ \A k, m : Naming(p, k, m)' = Naming(p, k, m)
      /\ \A k : Naming(p, k, n) = IF e.index = k THEN Naming(p, k, n - 1) \cup {n}
                                                 ELSE Naming(p, k, n - 1)
  BY <1>1, NamingProperties DEF Naming
<1>6. /\ Naming(p, kNone, n - 1) = {}
      /\ e.index # kEnd => Naming(p, e.index, n - 1) = {}
  BY <1>4 DEF Naming
<1>7. CASE e.index = kNone
  <2>1. Naming(p, kNone, n) = {n}
    BY <1>5, <1>6, <1>7
  <2>2. value'[p] = e.value
    BY <1>2, <1>7 DEF Written
  <2>3. Naming(p, kNone, n)' = {n} /\ value'[p] = src'[n].value
    BY <1>1, <1>5, <2>1, <2>2
  <2> QED BY <2>3 DEF HasTaken
<1>8. CASE e.index = kEnd
  <2> DEFINE A == Naming(p, kEnd, n - 1)
  <2>1. /\ Naming(p, kNone, n) = {}
        /\ Naming(p, kEnd, n) = A \cup {n}
        /\ \A k \in Nat : Naming(p, k, n) = Naming(p, k, n - 1)
    <3>1. kEnd # kNone /\ \A k \in Nat : k # kEnd
      BY DEF kNone, kEnd
    <3> QED BY <1>5, <1>6, <1>8, <3>1
  <2>2. IsFiniteSet(A) /\ Cardinality(A) \in Nat /\ n \notin A
    BY <1>1, NamingProperties
  <2>3. Cardinality(Naming(p, kEnd, n)) = Cardinality(A) + 1
    <3> HIDE DEF A
    <3>1. Cardinality(A \cup {n}) = Cardinality(A) + 1
      BY <2>2, FS_AddElement
    <3> QED BY <2>1, <3>1
  <2>4. /\ Len(value[p]) = Len(before[p]) + Cardinality(A)
        /\ \A k \in 1..Len(before[p]) :
              IF Naming(p, k - 1, n - 1) = {}
              THEN value[p][k] = before[p][k]
              ELSE \A i \in Naming(p, k - 1, n - 1) : value[p][k] = src[i].value[1]
        /\ \A i \in A :
              value[p][Len(before[p]) + Cardinality(Naming(p, kEnd, i))] = src[i].value[1]
    BY <1>3, <1>6 DEF HasTaken
  <2>5. /\ Len(value'[p]) = Len(value[p]) + 1
        /\ \A k \in 1..Len(value[p]) : value'[p][k] = value[p][k]
        /\ value'[p][Len(value[p]) + 1] = e.value[1]
    <3>1. e.value \in Seq(Lengths \cup {0}) /\ Len(e.value) = 1
      BY <1>1, <1>3, <1>8, EntryType DEF Fits, kNone, kEnd
    <3>2. value'[p] = value[p] \o e.value
      BY <1>2, <1>8 DEF Written, kNone, kEnd
    <3>3. \A v \in Seq(Lengths \cup {0}), w \in Seq(Lengths \cup {0}) : Len(w) = 1 =>
              /\ Len(v \o w) = Len(v) + 1
              /\ \A k \in 1..Len(v) : (v \o w)[k] = v[k]
              /\ (v \o w)[Len(v) + 1] = w[1]
      BY OneMore
    <3>4. /\ Len(value[p] \o e.value) = Len(value[p]) + 1
          /\ \A k \in 1..Len(value[p]) : (value[p] \o e.value)[k] = value[p][k]
          /\ (value[p] \o e.value)[Len(value[p]) + 1] = e.value[1]
      <4> DEFINE v == value[p]
                 w == e.value
      <4>1. v \in Seq(Lengths \cup {0}) /\ w \in Seq(Lengths \cup {0}) /\ Len(w) = 1
        BY <1>2, <3>1
      <4> HIDE DEF v, w
      <4>2. /\ Len(v \o w) = Len(v) + 1
            /\ \A k \in 1..Len(v) : (v \o w)[k] = v[k]
            /\ (v \o w)[Len(v) + 1] = w[1]
        BY <3>3, <4>1
      <4> QED BY <4>2 DEF v, w
    <3> QED BY <3>2, <3>4
  <2>6. Len(value'[p]) = Len(before[p]) + Cardinality(Naming(p, kEnd, n))
    <3> HIDE DEF A
    <3>1. Len(value'[p]) = Len(value[p]) + 1 /\ Len(value[p]) = Len(before[p]) + Cardinality(A)
      BY <2>4, <2>5
    <3> QED BY <1>2a, <2>2, <2>3, <3>1
  <2>7. ASSUME NEW k \in 1..Len(before[p])
        PROVE  IF Naming(p, k - 1, n) = {}
               THEN value'[p][k] = before[p][k]
               ELSE \A i \in Naming(p, k - 1, n) : value'[p][k] = src[i].value[1]
    <3>1. k \in 1..Len(value[p]) /\ k - 1 \in Nat
      BY <1>2, <2>2, <2>4
    <3> QED BY <2>1, <2>4, <2>5, <3>1
  <2>8. ASSUME NEW i \in Naming(p, kEnd, n)
        PROVE  value'[p][Len(before[p]) + Cardinality(Naming(p, kEnd, i))] = src[i].value[1]
    <3>1. CASE i \in A
      <4>1. Cardinality(Naming(p, kEnd, i)) \in 1..Cardinality(A)
        BY <1>1, <3>1, AppendPlace
      <4>2. Len(before[p]) + Cardinality(Naming(p, kEnd, i)) \in 1..Len(value[p])
        BY <1>2, <2>2, <2>4, <4>1
      <4> QED BY <2>4, <2>5, <3>1, <4>2
    <3>2. CASE i = n
      <4>1. Len(before[p]) + Cardinality(Naming(p, kEnd, i)) = Len(value[p]) + 1
        <5> HIDE DEF A
        <5>1. Len(value[p]) = Len(before[p]) + Cardinality(A)
          BY <2>4
        <5> QED BY <1>2a, <2>2, <2>3, <3>2, <5>1
      <4> QED BY <2>5, <3>2, <4>1
    <3> QED BY <2>1, <3>1, <3>2
  <2> HIDE DEF A
  <2>9. /\ Naming(p, kNone, n)' = {} /\ src' = src /\ before' = before
        /\ \A k, m : Naming(p, k, m)' = Naming(p, k, m)
    BY <1>1, <1>5, <2>1
  <2> QED BY <2>6, <2>7, <2>8, <2>9 DEF HasTaken
<1>9. CASE e.index \notin {kNone, kEnd}
  <2>1. /\ Naming(p, kNone, n) = {}
        /\ Naming(p, kEnd, n) = Naming(p, kEnd, n - 1)
        /\ Naming(p, e.index, n) = {n}
        /\ \A k : k # e.index => Naming(p, k, n) = Naming(p, k, n - 1)
    BY <1>5, <1>6, <1>9
  <2>2. /\ Len(value[p]) = Len(before[p]) + Cardinality(Naming(p, kEnd, n - 1))
        /\ \A k \in 1..Len(before[p]) :
              IF Naming(p, k - 1, n - 1) = {}
              THEN value[p][k] = before[p][k]
              ELSE \A i \in Naming(p, k - 1, n - 1) : value[p][k] = src[i].value[1]
        /\ \A i \in Naming(p, kEnd, n - 1) :
              value[p][Len(before[p]) + Cardinality(Naming(p, kEnd, i))] = src[i].value[1]
    BY <1>3, <1>6 DEF HasTaken
  <2>3. e.index \in 0..(Len(before[p]) - 1)
    BY <1>3, <1>9 DEF Fits
  <2>4. Cardinality(Naming(p, kEnd, n - 1)) \in Nat
    BY <1>1, NamingProperties
  <2>5. /\ Len(value'[p]) = Len(value[p])
        /\ value'[p][e.index + 1] = e.value[1]
        /\ \A k \in 1..Len(value[p]) : k # e.index + 1 => value'[p][k] = value[p][k]
    <3>1. value'[p] = [value[p] EXCEPT ![e.index + 1] = e.value[1]]
      BY <1>2, <1>9 DEF Written
    <3>2. e.index + 1 \in 1..Len(value[p])
      BY <1>2, <2>2, <2>3, <2>4
    <3>3. \A v \in Seq(Lengths \cup {0}) : \A j \in 1..Len(v) : \A x :
              /\ Len([v EXCEPT ![j] = x]) = Len(v)
              /\ [v EXCEPT ![j] = x][j] = x
              /\ \A k \in 1..Len(v) : k # j => [v EXCEPT ![j] = x][k] = v[k]
      OBVIOUS
    <3> QED BY <1>2, <3>1, <3>2, <3>3
  <2>6. Len(value'[p]) = Len(before[p]) + Cardinality(Naming(p, kEnd, n))
    BY <2>1, <2>2, <2>5
  <2>7. ASSUME NEW k \in 1..Len(before[p])
        PROVE  IF Naming(p, k - 1, n) = {}
               THEN value'[p][k] = before[p][k]
               ELSE \A i \in Naming(p, k - 1, n) : value'[p][k] = src[i].value[1]
    <3>1. k \in 1..Len(value[p])
      BY <1>2, <2>2, <2>4
    <3>2. CASE k = e.index + 1
      <4>1. k - 1 = e.index
        BY <2>3, <3>2
      <4> QED BY <2>1, <2>5, <3>2, <4>1
    <3>3. CASE k # e.index + 1
      <4>1. k - 1 # e.index
        BY <2>3, <3>3
      <4> QED BY <2>1, <2>2, <2>5, <3>1, <3>3, <4>1
    <3> QED BY <3>2, <3>3
  <2>8. ASSUME NEW i \in Naming(p, kEnd, n)
        PROVE  value'[p][Len(before[p]) + Cardinality(Naming(p, kEnd, i))] = src[i].value[1]
    <3>1. Cardinality(Naming(p, kEnd, i)) \in 1..Cardinality(Naming(p, kEnd, n - 1))
      BY <1>1, <2>1, AppendPlace
    <3>2. /\ Len(before[p]) + Cardinality(Naming(p, kEnd, i)) \in 1..Len(value[p])
          /\ Len(before[p]) + Cardinality(Naming(p, kEnd, i)) # e.index + 1
      <4>1. Len(value[p]) = Len(before[p]) + Cardinality(Naming(p, kEnd, n - 1))
        BY <2>2
      <4> DEFINE b == Len(before[p])
                 c == Cardinality(Naming(p, kEnd, i))
                 d == Cardinality(Naming(p, kEnd, n - 1))
                 x == e.index
                 y == Len(value[p])
      <4>2. b \in Nat /\ d \in Nat /\ x \in 0..(b - 1) /\ c \in 1..d /\ y = b + d
        BY <1>2a, <2>3, <2>4, <3>1, <4>1
      <4> HIDE DEF b, c, d, x, y
      <4>3. b + c \in 1..y /\ b + c # x + 1
        BY <4>2
      <4> QED BY <4>3 DEF b, c, d, x, y
    <3> QED BY <2>1, <2>2, <2>5, <3>2
  <2> QED BY <1>1, <1>5, <2>1, <2>6, <2>7, <2>8 DEF HasTaken
<1> QED BY <1>7, <1>8, <1>9

\* A request that is accepted is remembered with the values it was validated with.
LEMMA TryStep ==
    ASSUME IInv, NEW n \in 0..MaxEntries, NEW s \in [1..n -> Entries], NEW a \in SUBSET Params,
           TryMultiSetValue(s, a), Accepted(s, a)
    PROVE  IInv'
<1> USE DEF IInv, LengthsRespected, DoesWhatItAccepts
<1>1. /\ phase' = "commit" /\ src' = s /\ next' = 1 /\ before' = value /\ value' = value
      /\ shared' = shared \cup WrittenTwice(s)
  BY DEF TryMultiSetValue
<1>2. n \in Nat /\ s \in Seq(Entries) /\ Len(s) = n /\ DOMAIN s = 1..n
  BY RequestsAssumption
<1>3. TypeOK'
  <2>1. shared' \subseteq Arrays
    BY <1>1 DEF TypeOK, WrittenTwice
  <2>2. next' \in 1..(Len(src') + 1)
    BY <1>1, <1>2
  <2> QED BY <1>1, <1>2, <2>1, <2>2 DEF TypeOK
<1>4. MaxLengthRespected' /\ TotalLengthRespected'
  BY <1>1 DEF MaxLengthRespected, TotalLengthRespected, WithinLimits
<1>5. ASSUME NEW i \in DOMAIN s PROVE Fits(s[i])'
  <2>1. ValidateSetValue(s[i], a) /\ s[i] \in Entries
    BY <1>2 DEF Accepted
  <2>2. s[i].param \notin Arrays => s[i].index = kNone
    BY <2>1 DEF ValidateSetValue, IndexApplies
  <2>3. s[i].index # kNone => ~s[i].whole
    BY <2>1 DEF ValidateSetValue, IndexApplies
  <2>4. s[i].index \in {kNone, kEnd} \cup 0..(Len(value[s[i].param]) - 1)
    BY <2>1 DEF ValidateSetValue, IndexApplies
  <2>5. WithinLimits(s[i].param, Written(value[s[i].param], s[i]))
    BY <2>1 DEF ValidateSetValue
  <2> QED BY <1>1, <2>2, <2>3, <2>4, <2>5 DEF Fits, WithinLimits, Written
<1>6. ASSUME NEW p \in Params PROVE HasTaken(p, next - 1)'
  <2>1. next' - 1 = 0
    BY <1>1
  <2>2. \A k : Naming(p, k, 0)' = {}
    BY DEF Naming
  <2>3. Len(before'[p]) \in Nat /\ value'[p] = before'[p] /\ Cardinality({}) = 0
    BY <1>1, FS_EmptySet DEF TypeOK
  <2>4. HasTaken(p, 0)'
    <3>1. Len(value'[p]) = Len(before'[p]) + Cardinality({})
      BY <2>3
    <3>2. ~ \E i : i \in {}
      OBVIOUS
    <3> QED BY <2>2, <2>3, <3>1, <3>2 DEF HasTaken
  <2> QED BY <2>1, <2>4 DEF HasTaken, Naming
<1>7. Committing'
  <2>1. \A i \in DOMAIN src' : Fits(src[i])'
    BY <1>1, <1>5
  <2>2. \A i, j \in DOMAIN src' : i < j => ~Overlapping(src'[i], src'[j])
    BY <1>1 DEF Accepted
  <2>3. WrittenTwice(src') \subseteq shared'
    BY <1>1 DEF WrittenTwice
  <2> QED BY <1>1, <1>6, <2>1, <2>2, <2>3 DEF Committing
<1>8. DoesWhatItAccepts'
  BY <1>1 DEF CommitsWhatItAccepts, AppliesEveryEntry
<1> QED BY <1>3, <1>4, <1>7, <1>8

\* An entry that is written keeps the limits: it was validated with the value it
\* finds, unless its array is written to twice.
LEMMA CommitEntryStep ==
    ASSUME IInv, CommitEntry PROVE IInv'
<1> USE DEF IInv, LengthsRespected, DoesWhatItAccepts
<1> DEFINE e == src[next]
           p == e.param
<1>1. /\ phase = "commit" /\ next \in DOMAIN src /\ ~AppendFails(e)
      /\ value' = [value EXCEPT ![p] = Written(@, e)] /\ next' = next + 1
      /\ UNCHANGED <<phase, src, before, shared>>
  BY DEF CommitEntry
<1>2. next \in 1..Len(src) /\ e \in Entries /\ next \in Nat \ {0} /\ Len(src) \in Nat
  BY <1>1 DEF TypeOK
<1>3. /\ p \in Params
      /\ value[p] \in Seq(Lengths \cup {0}) /\ before[p] \in Seq(Lengths \cup {0})
      /\ value'[p] = Written(value[p], e)
      /\ \A q \in Params : q # p => value'[q] = value[q]
  BY <1>1, <1>2, EntryType DEF TypeOK
<1>4. Fits(e)
  BY <1>1 DEF Committing
<1>5. Written(value[p], e) \in Seq(Lengths \cup {0})
  BY <1>2, <1>3, <1>4, WrittenType DEF Fits
<1>6. TypeOK'
  <2>1. value' \in [Params -> Seq(Lengths \cup {0})]
    BY <1>1, <1>3, <1>5 DEF TypeOK
  <2>2. next' \in 1..(Len(src') + 1)
    BY <1>1, <1>2
  <2> QED BY <1>1, <2>1, <2>2 DEF TypeOK
<1>7. MaxLengthRespected'
  <2> SUFFICES ASSUME NEW q \in Params
               PROVE  IF q \in Arrays THEN Len(value'[q]) <= MaxLength[q]
                                      ELSE WithinLimits(q, value'[q])
    BY <1>1 DEF MaxLengthRespected, WithinLimits
  <2>1. CASE q # p
    BY <1>3, <2>1 DEF MaxLengthRespected
  <2>2. CASE q = p /\ e.index = kNone
    <3>1. value'[q] = e.value /\ WithinLimits(q, e.value)
      BY <1>3, <1>4, <2>2 DEF Fits, Written
    <3> QED BY <3>1 DEF WithinLimits
  <2>3. CASE q = p /\ e.index = kEnd
    <3>1. Len(value[p]) < MaxLength[p] /\ p \in Arrays
      BY <1>1, <1>4, <2>3 DEF AppendFails, RoomAtTheEnd, Fits, kNone, kEnd
    <3>2. Len(value'[p]) = Len(value[p]) + 1
      BY <1>2, <1>3, <1>4, <2>3, WrittenType DEF Fits
    <3>3. Len(value[p]) \in Nat /\ MaxLength[p] \in Nat
      BY <1>3, LimitsAssumption
    <3> QED BY <2>3, <3>1, <3>2, <3>3
  <2>4. CASE q = p /\ e.index \notin {kNone, kEnd}
    <3>1. Len(value'[p]) = Len(value[p]) /\ p \in Arrays
      BY <1>2, <1>3, <1>4, <2>4, WrittenType DEF Fits
    <3> QED BY <2>4, <3>1 DEF MaxLengthRespected
  <2> QED BY <2>1, <2>2, <2>3, <2>4
<1>8. TotalLengthRespected'
  <2> SUFFICES ASSUME NEW q \in Arrays, q \notin shared
               PROVE  Total(value'[q]) <= TotalLength[q]
    BY <1>1 DEF TotalLengthRespected
  <2>1. q \in Params
    BY ParamsAssumption
  <2>2. CASE q # p
    BY <1>3, <2>1, <2>2 DEF TotalLengthRespected
  <2>3. CASE q = p
    <3>1. value[p] = before[p]
      BY <1>1, <1>2, <2>3 DEF Committing
    <3>2. WithinLimits(q, Written(before[p], e))
      BY <1>4, <2>3 DEF Fits
    <3>3. WithinLimits(q, value'[q])
      BY <1>3, <2>3, <3>1, <3>2
    <3> QED BY <3>3 DEF WithinLimits
  <2> QED BY <2>2, <2>3
<1>9. \A i \in (next + 1)..Len(src) :
          src[i].param \in Arrays \ shared => value'[src[i].param] = before[src[i].param]
  <2> SUFFICES ASSUME NEW i \in (next + 1)..Len(src), src[i].param \in Arrays, src[i].param \notin shared
               PROVE  value'[src[i].param] = before[src[i].param]
    OBVIOUS
  <2>1. i \in next..Len(src) /\ i \in DOMAIN src /\ next < i
    BY <1>2 DEF TypeOK
  <2>2. src[i].param # p
    BY <1>1, <2>1 DEF Committing, WrittenTwice
  <2>3. src[i].param \in Params
    BY ParamsAssumption
  <2> HIDE DEF p, e
  <2> QED BY <1>1, <1>3, <2>1, <2>2, <2>3 DEF Committing
<1>10. ASSUME NEW q \in Params PROVE HasTaken(q, next - 1)'
  <2>1. PICK n : n = next
    OBVIOUS
  <2>2. HasTaken(q, n)'
    <3>1. CASE q = p
      BY <2>1, <3>1, EntryTaken
    <3>2. CASE q # p
      <4>1. n \in Nat \ {0} /\ HasTaken(q, n - 1) /\ src[n].param # q
        BY <1>1, <1>2, <2>1, <3>2 DEF Committing
      <4>2. value'[q] = value[q]
        BY <1>3, <3>2
      <4> QED BY <1>1, <4>1, <4>2, HasTakenElsewhere
    <3> QED BY <3>1, <3>2
  <2>3. n = next' - 1
    BY <1>1, <1>2, <2>1
  <2> QED BY <2>2, <2>3 DEF HasTaken, Naming
<1>11. Committing'
  <2>1. \A i \in DOMAIN src' : Fits(src[i])'
    BY <1>1 DEF Committing, Fits, WithinLimits, Written
  <2>2. \A i, j \in DOMAIN src' : i < j => ~Overlapping(src'[i], src'[j])
    BY <1>1 DEF Committing
  <2>3. WrittenTwice(src') \subseteq shared'
    BY <1>1 DEF Committing
  <2> QED BY <1>1, <1>9, <1>10, <2>1, <2>2, <2>3 DEF Committing
<1>12. DoesWhatItAccepts'
  BY <1>1 DEF CommitsWhatItAccepts, AppliesEveryEntry
<1> QED BY <1>6, <1>7, <1>8, <1>11, <1>12

\* An append only fails after another to the same array: alone it was validated
\* with the room there is.
LEMMA CommitCrashesStep ==
    ASSUME IInv, CommitCrashes PROVE IInv'
<1> USE DEF IInv, LengthsRespected, DoesWhatItAccepts
<1> DEFINE e == src[next]
           p == e.param
<1>1. /\ phase = "commit" /\ next \in DOMAIN src /\ AppendFails(e) /\ phase' = "crashed"
      /\ UNCHANGED <<value, src, next, before, shared>>
  BY DEF CommitCrashes
<1>2. next \in 1..Len(src) /\ e \in Entries /\ next - 1 \in Nat /\ next \in Nat
  BY <1>1 DEF TypeOK
<1>3. /\ p \in Params /\ e.index = kEnd
      /\ value[p] \in Seq(Lengths \cup {0}) /\ before[p] \in Seq(Lengths \cup {0})
  BY <1>1, <1>2, EntryType DEF TypeOK, AppendFails
<1>4. Fits(e) /\ HasTaken(p, next - 1) /\ p \in Arrays
  BY <1>1, <1>3 DEF Committing, Fits, kNone, kEnd
<1>5. Len(before[p]) < MaxLength[p] /\ ~ (Len(value[p]) < MaxLength[p])
  <2>1. Len(Written(before[p], e)) = Len(before[p]) + 1
    BY <1>2, <1>3, <1>4, WrittenType DEF Fits
  <2>2. Len(Written(before[p], e)) <= MaxLength[p]
    BY <1>4 DEF Fits, WithinLimits
  <2>3. Len(before[p]) \in Nat /\ MaxLength[p] \in Nat
    BY <1>3, LimitsAssumption
  <2>4. Len(before[p]) < MaxLength[p]
    BY <2>1, <2>2, <2>3
  <2> QED BY <1>1, <2>4 DEF AppendFails, RoomAtTheEnd
<1>6. Naming(p, kNone, next - 1) = {}
  <2> SUFFICES ASSUME NEW i \in 1..(next - 1), src[i].param = p, src[i].index = kNone
               PROVE  FALSE
    BY DEF Naming
  <2>1. ~Overlapping(src[i], e)
    BY <1>1, <1>2 DEF Committing, TypeOK
  <2> QED BY <2>1, SamePlaceOverlaps
<1>7. Naming(p, kEnd, next - 1) # {}
  <2>1. Len(value[p]) = Len(before[p]) + Cardinality(Naming(p, kEnd, next - 1))
    BY <1>4, <1>6 DEF HasTaken
  <2>2. Cardinality({}) = 0 /\ Len(before[p]) \in Nat
    BY <1>3, FS_EmptySet
  <2> SUFFICES ASSUME Naming(p, kEnd, next - 1) = {} PROVE FALSE
    OBVIOUS
  <2>3. Cardinality(Naming(p, kEnd, next - 1)) = 0
    BY <2>2
  <2> HIDE DEF p
  <2>4. Len(value[p]) = Len(before[p])
    BY <2>1, <2>2, <2>3
  <2> QED BY <1>5, <2>4
<1>8. PICK i \in 1..(next - 1) : src[i].param = p /\ src[i].index = kEnd
  BY <1>7 DEF Naming
<1>9. i \in DOMAIN src /\ i < next
  BY <1>1, <1>2 DEF TypeOK
<1>10. CommitsWhatItAccepts'
  BY <1>1, <1>3, <1>8, <1>9 DEF CommitsWhatItAccepts
<1>11. AppliesEveryEntry' /\ Committing'
  BY <1>1 DEF AppliesEveryEntry, Committing
<1>12. TypeOK' /\ MaxLengthRespected' /\ TotalLengthRespected'
  BY <1>1 DEF TypeOK, MaxLengthRespected, TotalLengthRespected, WithinLimits
<1> QED BY <1>10, <1>11, <1>12

\* popBack keeps the limits: an array without its last element is not longer.
LEMMA PopBackStep ==
    ASSUME IInv, NEW p \in Params, PopBack(p) PROVE IInv'
<1> USE DEF IInv, LengthsRespected, DoesWhatItAccepts
<1> DEFINE t == SubSeq(value[p], 1, Len(value[p]) - 1)
<1>1. /\ phase = "idle" /\ p \in Arrays /\ value[p] # <<>>
      /\ value' = [value EXCEPT ![p] = t] /\ before' = value'
      /\ UNCHANGED <<phase, src, next, shared>>
  BY DEF PopBack
<1>2. value[p] \in Seq(Lengths \cup {0}) /\ value[p] \in Seq(Nat) /\ Len(value[p]) \in Nat
  <2>1. value[p] \in Seq(Lengths \cup {0}) /\ Lengths \cup {0} \subseteq Nat
    BY RequestsAssumption DEF TypeOK
  <2>2. ASSUME NEW S, S \subseteq Nat, NEW v \in Seq(S) PROVE v \in Seq(Nat) /\ Len(v) \in Nat
    <3>1. Len(v) \in Nat /\ v \in [1..Len(v) -> S]
      OBVIOUS
    <3>2. v \in [1..Len(v) -> Nat]
      BY <2>2, <3>1
    <3>3. \A n \in Nat : \A f \in [1..n -> Nat] : f \in Seq(Nat)
      OBVIOUS
    <3> QED BY <3>1, <3>2, <3>3
  <2> HIDE DEF t
  <2> QED BY <2>1, <2>2
<1>3. t \in Seq(Lengths \cup {0}) /\ Len(t) <= Len(value[p])
  <2>1. \A i \in 1..(Len(value[p]) - 1) : value[p][i] \in Lengths \cup {0}
    BY <1>2
  <2>2. /\ t \in Seq(Lengths \cup {0})
        /\ Len(t) = IF 1 <= Len(value[p]) - 1 THEN Len(value[p]) - 1 - 1 + 1 ELSE 0
    BY <1>2, <2>1, SubSeqProperties
  <2> HIDE DEF t
  <2> QED BY <1>2, <2>2
<1>4. Total(value[p]) \in Nat /\ Total(t) \in Nat /\ Total(t) <= Total(value[p])
  BY <1>1, <1>2, TotalOfFront
<1> HIDE DEF t
<1>5. value'[p] = t /\ \A q \in Params : q # p => value'[q] = value[q]
  BY <1>1 DEF TypeOK
<1>6. TypeOK'
  BY <1>1, <1>3 DEF TypeOK
<1>7. MaxLengthRespected'
  <2>1. ASSUME NEW q \in Params, q # p
        PROVE  IF q \in Arrays THEN Len(value'[q]) <= MaxLength[q] ELSE WithinLimits(q, value'[q])
    BY <1>5, <2>1 DEF MaxLengthRespected
  <2>2. Len(value'[p]) <= MaxLength[p]
    <3>1. Len(value[p]) <= MaxLength[p] /\ MaxLength[p] \in Nat /\ Len(t) \in Nat
      BY <1>1, <1>3, LimitsAssumption DEF MaxLengthRespected
    <3> QED BY <1>2, <1>3, <1>5, <3>1
  <2> QED BY <1>1, <2>1, <2>2 DEF MaxLengthRespected, WithinLimits
<1>8. TotalLengthRespected'
  <2> SUFFICES ASSUME NEW q \in Arrays, q \notin shared
               PROVE  Total(value'[q]) <= TotalLength[q]
    BY <1>1 DEF TotalLengthRespected
  <2>1. q \in Params /\ TotalLength[q] \in Nat /\ Total(value[q]) <= TotalLength[q]
    BY ParamsAssumption, LimitsAssumption DEF TotalLengthRespected
  <2>2. CASE q # p
    BY <1>5, <2>1, <2>2
  <2>3. CASE q = p
    BY <1>4, <1>5, <2>1, <2>3
  <2> QED BY <2>2, <2>3
<1>9. Committing' /\ DoesWhatItAccepts'
  BY <1>1 DEF Committing, CommitsWhatItAccepts, AppliesEveryEntry
<1> QED BY <1>6, <1>7, <1>8, <1>9

\* What the entries make of a value depends on the request and the values only.
LEMMA HasTakenUnchanged ==
    ASSUME NEW p, NEW n, value' = value, src' = src, before' = before
    PROVE  HasTaken(p, n)' = HasTaken(p, n)
<1>1. \A k, m : Naming(p, k, m)' = Naming(p, k, m)
  BY DEF Naming
<1> QED BY <1>1 DEF HasTaken

\* The invariant holds of the initial values.
LEMMA InvInit == Init => IInv
<1> SUFFICES ASSUME Init PROVE IInv
  OBVIOUS
<1>1. TypeOK
  <2>1. <<>> \in Seq(Lengths \cup {0}) /\ <<0>> \in Seq(Lengths \cup {0}) /\ Len(<<>>) = 0
    OBVIOUS
  <2>2. value \in [Params -> Seq(Lengths \cup {0})] /\ before = value
    BY <2>1 DEF Init
  <2>3. src \in Seq(Entries) /\ Len(src) = 0 /\ next = 1
    BY DEF Init
  <2>4. next \in 1..(Len(src) + 1)
    BY <2>3
  <2> QED BY <2>2, <2>3, <2>4 DEF Init, TypeOK
<1>2. MaxLengthRespected
  BY LimitsAssumption DEF Init, MaxLengthRespected, WithinLimits
<1>3. TotalLengthRespected
  <2> SUFFICES ASSUME NEW p \in Arrays PROVE Total(value[p]) <= TotalLength[p]
    BY DEF TotalLengthRespected
  <2>1. value[p] = <<>> /\ p \in Params /\ TotalLength[p] \in Nat
    BY ParamsAssumption, LimitsAssumption DEF Init
  <2>2. <<>> \in Seq(Nat) /\ Len(<<>>) = 0
    OBVIOUS
  <2>3. PICK f \in [0..Len(<<>>) -> Nat] : IsSum(f, <<>>, Len(<<>>)) /\ Total(<<>>) = f[Len(<<>>)]
    BY <2>2, TotalIsSum
  <2>4. Total(<<>>) = 0
    BY <2>2, <2>3 DEF IsSum
  <2> QED BY <2>1, <2>4
<1>4. Committing /\ DoesWhatItAccepts
  BY DEF Init, Committing, DoesWhatItAccepts, CommitsWhatItAccepts, AppliesEveryEntry
<1> QED BY <1>1, <1>2, <1>3, <1>4 DEF IInv, LengthsRespected

\* Every step of the device keeps the invariant.
LEMMA InvStep == IInv /\ [Next]_vars => IInv'
<1> SUFFICES ASSUME IInv, [Next]_vars PROVE IInv'
  OBVIOUS
<1> USE DEF IInv, LengthsRespected, DoesWhatItAccepts
<1>1. ASSUME UNCHANGED vars PROVE IInv'
  <2>1. value' = value /\ phase' = phase /\ src' = src /\ next' = next /\ before' = before /\ shared' = shared
    BY <1>1 DEF vars
  <2>2. TypeOK' /\ MaxLengthRespected' /\ TotalLengthRespected' /\ CommitsWhatItAccepts'
    BY <2>1 DEF TypeOK, MaxLengthRespected, TotalLengthRespected, WithinLimits, CommitsWhatItAccepts
  <2>3. \A p \in Params : \A n : HasTaken(p, n)' = HasTaken(p, n)
    BY <2>1, HasTakenUnchanged
  <2>4. AppliesEveryEntry'
    BY <2>1, <2>3 DEF AppliesEveryEntry
  <2>5. \A i : Fits(src[i])' = Fits(src[i])
    BY <2>1 DEF Fits, WithinLimits, Written
  <2>6. Committing'
    BY <2>1, <2>3, <2>5 DEF Committing
  <2> QED BY <2>2, <2>4, <2>6
<1>2. ASSUME NEW n \in 0..MaxEntries, NEW s \in [1..n -> Entries], NEW a \in SUBSET Params,
             TryMultiSetValue(s, a)
      PROVE  IInv'
  <2>1. CASE Accepted(s, a)
    BY <1>2, <2>1, TryStep
  <2>2. CASE ~Accepted(s, a)
    BY <1>1, <1>2, <2>2 DEF TryMultiSetValue
  <2> QED BY <2>1, <2>2
<1>3. CASE CommitEntry
  BY <1>3, CommitEntryStep
<1>4. CASE CommitCrashes
  BY <1>4, CommitCrashesStep
<1>5. CASE CommitReturns
  <2>1. /\ phase = "commit" /\ next > Len(src) /\ phase' = "done"
        /\ UNCHANGED <<value, src, next, before, shared>>
    BY <1>5 DEF CommitReturns
  <2>2. next - 1 = Len(src)
    BY <2>1 DEF TypeOK
  <2>3. \A p \in Params : HasTaken(p, Len(src))
    BY <2>1, <2>2 DEF Committing
  <2>4. AppliesEveryEntry'
    <3>1. \A p \in Params : \A n : HasTaken(p, n)' = HasTaken(p, n)
      BY <2>1, HasTakenUnchanged
    <3> QED BY <2>1, <2>3, <3>1 DEF AppliesEveryEntry
  <2> QED BY <2>1, <2>4 DEF TypeOK, MaxLengthRespected, TotalLengthRespected, WithinLimits, Committing,
            CommitsWhatItAccepts
<1>6. CASE Unlock
  <2>1. /\ phase' = "idle" /\ src' = <<>> /\ next' = 1 /\ before' = value
        /\ UNCHANGED <<value, shared>>
    BY <1>6 DEF Unlock
  <2>2. <<>> \in Seq(Entries) /\ 1 \in 1..(Len(<<>>) + 1)
    OBVIOUS
  <2>3. TypeOK'
    BY <2>1, <2>2 DEF TypeOK
  <2> QED BY <2>1, <2>3 DEF MaxLengthRespected, TotalLengthRespected, WithinLimits, Committing,
            CommitsWhatItAccepts, AppliesEveryEntry
<1>7. ASSUME NEW p \in Params, PopBack(p) PROVE IInv'
  BY <1>7, PopBackStep
<1> QED BY <1>1, <1>2, <1>3, <1>4, <1>5, <1>6, <1>7 DEF Next

\* The invariant is one.
LEMMA Inductive == Spec => []IInv
  BY InvInit, InvStep, PTL DEF Spec

\* Whatever requests follow each other, values stay within max_length and
\* total_length, the latter unless a request wrote to one array twice.
THEOREM SetLengthsRespected == Spec => []LengthsRespected
<1>1. IInv => LengthsRespected
  BY DEF IInv
<1> QED BY <1>1, Inductive, PTL

\* commitMultiSetValue writes all of what tryMultiSetValue accepted, entry by
\* entry and nothing else, unless the request appends to one array twice.
THEOREM SetDoesWhatItAccepts == Spec => []DoesWhatItAccepts
<1>1. IInv => DoesWhatItAccepts
  BY DEF IInv
<1> QED BY <1>1, Inductive, PTL

-----------------------------------------------------------------------------
(* The device serializer and the language packs *)

MapNames == {"menus", "packs", "constraints", "commands", "params"}

\* The keys a map may ever have, and the ones of them that a call must send
PossibleKeys(map) ==
    [menus |-> Menus, packs |-> Languages, constraints |-> Constraints, commands |-> Commands, params |-> ToSet(Tops)][map]
Wanted(map, x) == IF map = "packs" THEN x.packs ELSE {k \in PossibleKeys(map) : Sends(map, k, x)}

SentKey(e) == <<e[1], e[2]>>
Told(x) == {SentKey(x.sent[i]) : i \in DOMAIN x.sent}

\* The places of the maps that a call has not come to
Later(x) ==
    IF x.map = "done" THEN {}
    ELSE {j \in DOMAIN MapsOf(x.dl) : \A i \in DOMAIN MapsOf(x.dl) : MapsOf(x.dl)[i] = x.map => i < j}
\* The keys of its map that it stands at or may come to
Here(x) == {x.at} \cup x.todo

IsCall(x) ==
    /\ x = [map |-> x.map, todo |-> x.todo, at |-> x.at, authz |-> x.authz, dl |-> x.dl, subscribed |-> x.subscribed,
            sent |-> x.sent, disturbed |-> x.disturbed, packs |-> x.packs, dangling |-> x.dangling]
    /\ x.disturbed \in BOOLEAN /\ x.dangling \in BOOLEAN
    /\ x.map = "done" => x.at = "none"

\* A call whose iterator is valid and that no new language has disturbed
Live(x) == x.map \notin {"idle", "crashed"} /\ ~x.dangling /\ ~x.disturbed

\* A call crashes by an iterator that dangles, which is never at a shipped pack, and comes to
\* its end only without.
CrashInv(x) == (x.map = "crashed" => x.dangling) /\ (x.dangling => x.at \notin Shipped /\ x.map # "done")

\* Where a live call is: nothing has been sent at the start, and the device is sent first;
Begun(x) ==
    IF x.map = "start" THEN x.sent = <<>> /\ x.todo = {}
    ELSE x.sent # <<>> /\ SentKey(x.sent[1]) = <<"device", "">>
\* inside a map it stands at a key to send, which is not among the ones to come;
Standing(x) ==
    x.map \in {"start", "done"}
    \/ /\ \E j \in DOMAIN MapsOf(x.dl) : MapsOf(x.dl)[j] = x.map
       /\ x.at \in PossibleKeys(x.map) /\ Sends(x.map, x.at, x)
       /\ x.todo \subseteq PossibleKeys(x.map) /\ x.at \notin x.todo
\* everything has been sent at most once,
SentOnce(x) ==
    /\ x.sent \in Seq(ToSet(x.sent))
    /\ \A i, j \in DOMAIN x.sent : SentKey(x.sent[i]) = SentKey(x.sent[j]) => i = j
\* and nothing of what is to come;
NotSentYet(x) ==
    \A t \in Told(x) : /\ \A j \in Later(x) : t[1] # MapsOf(x.dl)[j]
                       /\ ~(t[1] = x.map /\ t[2] \in Here(x))
\* only what is asked for has been sent, but for languages,
OnlyWanted(x) ==
    \A t \in Told(x) : \/ t = <<"device", "">> \/ t \in {"packs"} \X Languages
                       \/ \E j \in DOMAIN MapsOf(x.dl) : \E k \in Wanted(MapsOf(x.dl)[j], x) : t = <<MapsOf(x.dl)[j], k>>
\* and all of it has been sent or is to come.
AllWanted(x) ==
    \A j \in DOMAIN MapsOf(x.dl) : \A k \in Wanted(MapsOf(x.dl)[j], x) :
        <<MapsOf(x.dl)[j], k>> \in Told(x) \/ j \in Later(x) \/ (MapsOf(x.dl)[j] = x.map /\ k \in Here(x))
CallInv(x) == Begun(x) /\ Standing(x) /\ SentOnce(x) /\ NotSentYet(x) /\ OnlyWanted(x) /\ AllWanted(x)

\* The language packs: pointers of shipped ones never change hands
LanguageInv ==
    /\ program \in DOMAIN Programs
    /\ LanguagesOwned
    /\ DOMAIN added \cap Shipped = {}
    /\ DOMAIN added \subseteq Languages
    /\ words = [p \in Languages \X (0..2) |-> words[p]]

\* The inductive invariant
SerializerIInv ==
    /\ LanguageInv
    /\ calls = [c \in Serializers |-> calls[c]]
    /\ \A c \in Serializers : /\ IsCall(calls[c]) /\ CrashInv(calls[c]) /\ calls[c].packs \subseteq DOMAIN packs
                              /\ Live(calls[c]) => CallInv(calls[c])

LEMMA MapsOfIs ==
    ASSUME NEW dl
    PROVE  /\ DOMAIN MapsOf(dl) \subseteq 1..5
           /\ \A j \in DOMAIN MapsOf(dl) : MapsOf(dl)[j] \in MapNames
           /\ \A i, j \in DOMAIN MapsOf(dl) : MapsOf(dl)[i] = MapsOf(dl)[j] => i = j
<1>1. CASE dl = "FULL"
  BY <1>1 DEF MapsOf, MapNames
<1>2. CASE dl = "COMMANDS"
  BY <1>2 DEF MapsOf, MapNames
<1>3. CASE dl = "NONE"
  BY <1>3 DEF MapsOf, MapNames
<1>4. CASE dl \notin {"FULL", "COMMANDS", "NONE"}
  BY <1>4 DEF MapsOf, MapNames
<1> QED BY <1>1, <1>2, <1>3, <1>4

\* What a call sends depends on its request alone.
LEMMA SendsSame ==
    ASSUME NEW x, NEW y, y.authz = x.authz, y.dl = x.dl, y.subscribed = x.subscribed, NEW map, NEW k
    PROVE  Sends(map, k, y) = Sends(map, k, x)
BY DEF Sends

\* What is wanted, map by map
LEMMA WantedIs ==
    ASSUME NEW x
    PROVE  /\ Wanted("menus", x) = Menus
           /\ Wanted("packs", x) = x.packs
           /\ Wanted("constraints", x) = Constraints
           /\ Wanted("commands", x) = {k \in Commands : readAuthz(x.authz, k)}
           /\ \A k : k \in Wanted("params", x) <=>
                /\ k \in ToSet(Tops) /\ readAuthz(x.authz, k)
                /\ \/ x.dl = "FULL" \/ Descriptors[k].minimal_set
                   \/ x.dl = "SUBSCRIPTIONS" /\ <<Descriptors[k].oid>> \in x.subscribed
BY DEF Wanted, PossibleKeys, Sends

\* Due, by the maps of the detail level
Listed(t, x) ==
    t = <<"device", "">> \/ \E j \in DOMAIN MapsOf(x.dl) : \E k \in Wanted(MapsOf(x.dl)[j], x) : t = <<MapsOf(x.dl)[j], k>>

LEMMA DueIs ==
    ASSUME NEW x, NEW t
    PROVE  t \in Due(x) <=> Listed(t, x)
<1>0. SUFFICES t \in Due(x) <=>
              \/ t = <<"device", "">>
              \/ \E j \in DOMAIN MapsOf(x.dl) : \E k \in Wanted(MapsOf(x.dl)[j], x) : t = <<MapsOf(x.dl)[j], k>>
  BY DEF Listed
<1> DEFINE Of(map) == \E k \in Wanted(map, x) : t = <<map, k>>
<1>1. t \in {"menus"} \X Menus <=> Of("menus")
  BY WantedIs
<1>2. t \in {"packs"} \X x.packs <=> Of("packs")
  BY WantedIs
<1>3. t \in {"constraints"} \X Constraints <=> Of("constraints")
  BY WantedIs
<1>4. t \in {"commands"} \X {k \in Commands : readAuthz(x.authz, k)} <=> Of("commands")
  BY WantedIs
<1>5. x.dl \notin {"COMMANDS", "NONE"} =>
        (t \in {y \in {"params"} \X ToSet(Tops) :
                  /\ readAuthz(x.authz, y[2])
                  /\ \/ x.dl = "FULL"
                     \/ x.dl \notin {"COMMANDS", "NONE"} /\ Descriptors[y[2]].minimal_set
                     \/ x.dl = "SUBSCRIPTIONS" /\ <<Descriptors[y[2]].oid>> \in x.subscribed} <=> Of("params"))
  BY WantedIs
<1> HIDE DEF Of
<1>6. CASE x.dl = "FULL"
  <2>1. t \in Due(x) <=> t = <<"device", "">> \/ Of("menus") \/ Of("packs") \/ Of("constraints") \/ Of("commands") \/ Of("params")
    BY <1>1, <1>2, <1>3, <1>4, <1>5, <1>6 DEF Due
  <2>2. MapsOf(x.dl) = <<"menus", "packs", "constraints", "commands", "params">>
    BY <1>6 DEF MapsOf
  <2>3. (\E j \in DOMAIN MapsOf(x.dl) : Of(MapsOf(x.dl)[j])) <=>
           Of("menus") \/ Of("packs") \/ Of("constraints") \/ Of("commands") \/ Of("params")
    BY <2>2
  <2> QED BY <2>1, <2>3 DEF Of
<1>7. CASE x.dl = "COMMANDS"
  <2>1. t \in Due(x) <=> t = <<"device", "">> \/ Of("commands")
    BY <1>4, <1>7 DEF Due
  <2>2. (\E j \in DOMAIN MapsOf(x.dl) : Of(MapsOf(x.dl)[j])) <=> Of("commands")
    BY <1>7 DEF MapsOf
  <2> QED BY <2>1, <2>2 DEF Of
<1>8. CASE x.dl = "NONE"
  <2>1. t \in Due(x) <=> t = <<"device", "">>
    BY <1>8 DEF Due
  <2>2. ~(\E j \in DOMAIN MapsOf(x.dl) : Of(MapsOf(x.dl)[j]))
    BY <1>8 DEF MapsOf
  <2> QED BY <2>1, <2>2 DEF Of
<1>9. CASE x.dl \notin {"FULL", "COMMANDS", "NONE"}
  <2>1. t \in Due(x) <=> t = <<"device", "">> \/ Of("params")
    BY <1>5, <1>9 DEF Due
  <2>2. (\E j \in DOMAIN MapsOf(x.dl) : Of(MapsOf(x.dl)[j])) <=> Of("params")
    BY <1>9 DEF MapsOf
  <2> QED BY <2>1, <2>2 DEF Of
<1> QED BY <1>6, <1>7, <1>8, <1>9

\* The keys a map has now, between the wanted and the possible ones
LEMMA KeysBetween ==
    ASSUME LanguageInv, NEW map \in MapNames, NEW x, x.packs \subseteq DOMAIN packs
    PROVE  /\ Keys(map) \subseteq PossibleKeys(map)
           /\ \A k \in Wanted(map, x) : k \in Keys(map) /\ Sends(map, k, x)
           /\ \A k \in Keys(map) : Sends(map, k, x) /\ map # "packs" => k \in Wanted(map, x)
<1>1. DOMAIN packs \subseteq Languages
  BY DEF LanguageInv, LanguagesOwned, Languages
<1>2. CASE map = "packs"
  BY <1>1, <1>2 DEF Keys, PossibleKeys, Wanted, Sends
<1>3. CASE map = "menus"
  BY <1>3 DEF Keys, PossibleKeys, Wanted
<1>4. CASE map = "constraints"
  BY <1>4 DEF Keys, PossibleKeys, Wanted
<1>5. CASE map = "commands"
  BY <1>5 DEF Keys, PossibleKeys, Wanted
<1>6. CASE map = "params"
  BY <1>6 DEF Keys, PossibleKeys, Wanted
<1> QED BY <1>2, <1>3, <1>4, <1>5, <1>6 DEF MapNames

\* One more component: how what has been sent grows
Longer(s, e, z) ==
    /\ z # <<>> /\ Len(s) \in Nat
    /\ DOMAIN s = 1..Len(s) /\ DOMAIN z = DOMAIN s \cup {Len(s) + 1}
    /\ z[Len(s) + 1] = e
    /\ \A i \in DOMAIN s : z[i] = s[i]
LEMMA AppendSent ==
    ASSUME NEW s, s \in Seq(ToSet(s)), NEW e, NEW z, z = Append(s, e)
    PROVE  z \in Seq(ToSet(z)) /\ Longer(s, e, z)
<1> DEFINE S == ToSet(s) \cup {e}
<1>1. s \in Seq(S)
  BY DEF ToSet
<1>2. /\ z \in Seq(S) /\ z # <<>>
      /\ Len(z) = Len(s) + 1
      /\ \A i \in 1..Len(s) : z[i] = s[i]
      /\ z[Len(s) + 1] = e
  <2> HIDE DEF S
  <2>1. e \in S
    BY DEF S
  <2> QED BY <1>1, <2>1, AppendProperties
<1>3. /\ Len(s) \in Nat /\ DOMAIN s = 1..Len(s) /\ DOMAIN z = 1..Len(z) /\ Len(z) \in Nat
  <2> HIDE DEF S
  <2> QED BY <1>1, <1>2
<1>4. DOMAIN z = DOMAIN s \cup {Len(s) + 1}
  <2> HIDE DEF S
  <2> QED BY <1>2, <1>3
<1>5. z \in Seq(ToSet(z))
  <2>1. S \subseteq ToSet(z)
    BY <1>2, <1>3, <1>4 DEF ToSet
  <2> HIDE DEF S
  <2> QED BY <1>2, <2>1, SeqMonotonic
<1> HIDE DEF S
<1> QED BY <1>2, <1>3, <1>4, <1>5 DEF Longer

\* Where a call can stand next
InHere(x, y) == \E k \in x.todo : Sends(x.map, k, x) /\ y.map = x.map /\ y.at = k /\ y.todo = x.todo \ {k}
NoMore(x) == \A k \in x.todo : ~Sends(x.map, k, x)
AtEnd(x, y) == NoMore(x) /\ Ahead(x) = {} /\ y.map = "done" /\ y.at = "none" /\ y.todo = {}
InMap(x, y, m) ==
    /\ NoMore(x) /\ m \in Ahead(x) /\ \A j \in Ahead(x) : m <= j
    /\ \E k \in Keys(MapsOf(x.dl)[m]) : /\ Sends(MapsOf(x.dl)[m], k, x) /\ y.at = k /\ y.todo = Keys(MapsOf(x.dl)[m]) \ {k}
    /\ y.map = MapsOf(x.dl)[m]
SameRequest(x, y) ==
    /\ y.authz = x.authz /\ y.dl = x.dl /\ y.subscribed = x.subscribed /\ y.disturbed = x.disturbed /\ y.packs = x.packs
    /\ y.dangling = x.dangling

LEMMA NextMapIs ==
    ASSUME NEW x, Ahead(x) # {}
    PROVE  \E m \in Ahead(x) : NextMap(x) = MapsOf(x.dl)[m] /\ \A j \in Ahead(x) : m <= j
<1>1. Ahead(x) \in SUBSET Nat
  BY MapsOfIs DEF Ahead
<1>2. \E n \in Ahead(x) : \A m \in Ahead(x) : n <= m
  BY <1>1, LeastNatural
<1> DEFINE n == CHOOSE j \in Ahead(x) : \A k \in Ahead(x) : j <= k
<1>3. n \in Ahead(x) /\ \A j \in Ahead(x) : n <= j
  BY <1>2
<1>4. NextMap(x) = MapsOf(x.dl)[n]
  BY DEF NextMap
<1> HIDE DEF n
<1> QED BY <1>3, <1>4

LEMMA OnwardsIs ==
    ASSUME NEW x, IsCall(x), x.map # "done", NEW y \in Onwards(x), NEW e, NEW z, z = [y EXCEPT !.sent = Append(@, e)]
    PROVE  /\ IsCall(z) /\ SameRequest(x, z) /\ z.sent = Append(x.sent, e)
           /\ InHere(x, z) \/ AtEnd(x, z) \/ \E m \in Ahead(x) : InMap(x, z, m)
<1> DEFINE s == Append(x.sent, e)
           here == {k \in x.todo : Sends(x.map, k, x)}
           Record(map, todo, at) == [map |-> map, todo |-> todo, at |-> at, authz |-> x.authz, dl |-> x.dl, subscribed |-> x.subscribed,
                                     sent |-> s, disturbed |-> x.disturbed, packs |-> x.packs, dangling |-> x.dangling]
<1>0. x.disturbed \in BOOLEAN /\ x.dangling \in BOOLEAN
  BY DEF IsCall
<1>1. ASSUME NEW map, NEW todo, NEW at, z = Record(map, todo, at), map = "done" => at = "none"
      PROVE  IsCall(z) /\ SameRequest(x, z) /\ z.sent = s /\ z.map = map /\ z.todo = todo /\ z.at = at
  <2>1. /\ z.map = map /\ z.todo = todo /\ z.at = at /\ z.authz = x.authz /\ z.dl = x.dl /\ z.subscribed = x.subscribed
        /\ z.sent = s /\ z.disturbed = x.disturbed /\ z.packs = x.packs /\ z.dangling = x.dangling
    BY <1>1
  <2>2. z = [map |-> z.map, todo |-> z.todo, at |-> z.at, authz |-> z.authz, dl |-> z.dl, subscribed |-> z.subscribed,
             sent |-> z.sent, disturbed |-> z.disturbed, packs |-> z.packs, dangling |-> z.dangling]
    BY <1>1, <2>1
  <2> HIDE DEF Record
  <2> QED BY <1>0, <1>1, <2>1, <2>2 DEF IsCall, SameRequest
<1>2. CASE here # {}
  <2>1. PICK k \in here : y = [x EXCEPT !.at = k, !.todo = @ \ {k}]
    BY <1>2 DEF Onwards
  <2>2. z = Record(x.map, x.todo \ {k}, k)
    BY <2>1 DEF IsCall
  <2>3. IsCall(z) /\ SameRequest(x, z) /\ z.sent = s /\ z.map = x.map /\ z.todo = x.todo \ {k} /\ z.at = k
    <3> HIDE DEF Record
    <3> QED BY <1>1, <2>2
  <2> QED BY <2>3 DEF InHere
<1>3. CASE here = {} /\ Ahead(x) = {}
  <2>1. y = [x EXCEPT !.map = "done", !.todo = {}, !.at = "none"]
    BY <1>3 DEF Onwards
  <2>2. z = Record("done", {}, "none")
    BY <2>1 DEF IsCall
  <2>3. IsCall(z) /\ SameRequest(x, z) /\ z.sent = s /\ z.map = "done" /\ z.todo = {} /\ z.at = "none"
    <3> HIDE DEF Record
    <3> QED BY <1>1, <2>2
  <2> QED BY <1>3, <2>3 DEF AtEnd, NoMore
<1>4. CASE here = {} /\ Ahead(x) # {}
  <2>1. PICK m \in Ahead(x) : NextMap(x) = MapsOf(x.dl)[m] /\ \A j \in Ahead(x) : m <= j
    BY <1>4, NextMapIs
  <2>2. PICK k \in {i \in Keys(NextMap(x)) : Sends(NextMap(x), i, x)} :
          y = [x EXCEPT !.map = NextMap(x), !.at = k, !.todo = Keys(NextMap(x)) \ {k}]
    BY <1>4 DEF Onwards
  <2>3. z = Record(NextMap(x), Keys(NextMap(x)) \ {k}, k)
    BY <2>2 DEF IsCall
  <2>4. NextMap(x) # "done"
    BY <2>1, MapsOfIs DEF Ahead, MapNames
  <2>5. IsCall(z) /\ SameRequest(x, z) /\ z.sent = s /\ z.map = NextMap(x) /\ z.todo = Keys(NextMap(x)) \ {k} /\ z.at = k
    <3> HIDE DEF Record
    <3> QED BY <1>1, <2>3, <2>4
  <2> QED BY <1>4, <2>1, <2>2, <2>5 DEF InMap, NoMore
<1> QED BY <1>2, <1>3, <1>4

LEMMA PairParts == \A a, b : <<a, b>>[1] = a /\ <<a, b>>[2] = b
OBVIOUS

\* getNext of a live call sends the key it stood at and goes on, and nothing is lost, repeated
\* or skipped.
LEMMA Moves ==
    ASSUME LanguageInv, NEW x, Live(x), x.map # "done", x.packs \subseteq DOMAIN packs, CallInv(x),
           NEW z, SameRequest(x, z), z.sent = Append(x.sent, Component(x)),
           InHere(x, z) \/ AtEnd(x, z) \/ \E m \in Ahead(x) : InMap(x, z, m)
    PROVE  CallInv(z)
<1> DEFINE maps == MapsOf(x.dl)
           e == SentKey(Component(x))
<1>1. MapsOf(z.dl) = maps /\ DOMAIN maps \subseteq 1..5
  BY MapsOfIs DEF SameRequest
<1>2. \A j \in DOMAIN maps : maps[j] \in MapNames
  BY MapsOfIs
<1>3. \A i, j \in DOMAIN maps : maps[i] = maps[j] => i = j
  BY MapsOfIs
<1>4. \A map, k : Sends(map, k, z) = Sends(map, k, x)
  BY SendsSame DEF SameRequest
<1>5. \A map : Wanted(map, z) = Wanted(map, x)
  BY <1>4 DEF Wanted, SameRequest
<1>6. e = IF x.map = "start" THEN <<"device", "">> ELSE <<x.map, x.at>>
  BY DEF SentKey, Component
<1>7. x.map = "start" \/ \E j \in DOMAIN maps : maps[j] = x.map
  BY DEF CallInv, Standing
<1>8. x.map = "start" => x.todo = {} /\ Told(x) = {}
  BY DEF CallInv, Begun, Told
<1>9. /\ z.sent \in Seq(ToSet(z.sent)) /\ z.sent # <<>>
      /\ DOMAIN z.sent = DOMAIN x.sent \cup {Len(x.sent) + 1} /\ Len(x.sent) \in Nat /\ DOMAIN x.sent = 1..Len(x.sent)
      /\ z.sent[Len(x.sent) + 1] = Component(x)
      /\ \A i \in DOMAIN x.sent : z.sent[i] = x.sent[i]
  <2>1. x.sent \in Seq(ToSet(x.sent))
    BY DEF CallInv, SentOnce
  <2>2. z.sent \in Seq(ToSet(z.sent)) /\ Longer(x.sent, Component(x), z.sent)
    BY <2>1, AppendSent
  <2> QED BY <2>2 DEF Longer
<1>10. Told(z) = Told(x) \cup {e}
  BY <1>9 DEF Told
<1>11. e \notin Told(x)
  <2>1. x.map # "start" => e[1] = x.map /\ e[2] = x.at
    BY <1>6, PairParts
  <2>2. \A t \in Told(x) : ~(t[1] = x.map /\ t[2] \in Here(x))
    BY DEF CallInv, NotSentYet
  <2>3. x.at \in Here(x)
    BY DEF Here
  <2> QED BY <1>8, <2>1, <2>2, <2>3
<1>12. Later(x) = {j \in DOMAIN maps : \A i \in DOMAIN maps : maps[i] = x.map => i < j}
  BY DEF Later
<1>13. Ahead(x) = {j \in Later(x) : \E k \in Keys(maps[j]) : Sends(maps[j], k, x)}
  BY <1>12 DEF Ahead
<1>14. InHere(x, z) => Later(z) = Later(x)
  BY <1>1 DEF InHere, Later
<1>15. AtEnd(x, z) => Later(z) = {}
  BY DEF AtEnd, Later
<1>16. ASSUME NEW m \in Ahead(x), InMap(x, z, m) PROVE Later(z) = {j \in DOMAIN maps : m < j} /\ Later(z) \subseteq Later(x)
  <2>1. z.map = maps[m] /\ m \in Later(x) /\ z.map # "done"
    BY <1>16, <1>13, <1>12, <1>2 DEF InMap, MapNames
  <2>2. Later(z) = {j \in DOMAIN maps : \A i \in DOMAIN maps : maps[i] = maps[m] => i < j}
    BY <2>1, <1>1 DEF Later
  <2>3. m \in DOMAIN maps
    BY <2>1, <1>12
  <2>4. \A i \in DOMAIN maps : i \in Int
    BY <1>1
  <2>5. \A j \in DOMAIN maps : (\A i \in DOMAIN maps : maps[i] = maps[m] => i < j) <=> m < j
    BY <2>3, <2>4, <1>3
  <2>6. ASSUME NEW j \in DOMAIN maps, m < j PROVE j \in Later(x)
    <3> HIDE DEF maps
    <3> QED BY <2>1, <2>3, <2>4, <2>6, <1>12
  <2> QED BY <2>2, <2>5, <2>6
<1>17. Later(z) \subseteq Later(x)
  BY <1>14, <1>15, <1>16
<1> HIDE DEF maps, e
<1>18. \A j \in Later(x) : maps[j] # x.map /\ maps[j] # "device" /\ j \in DOMAIN maps
  <2>1. \A j \in DOMAIN maps : j \in Int
    BY <1>1
  <2> QED BY <2>1, <1>12, <1>2 DEF MapNames
<1>19. x.map # "start" => e = <<x.map, x.at>> /\ e[1] = x.map /\ e[2] = x.at /\ x.map \in MapNames /\ x.map # "device" /\ x.map # "done"
  <2>1. x.map # "start" => e[1] = x.map /\ e[2] = x.at
    BY <1>6, PairParts
  <2> QED BY <2>1, <1>6, <1>7, <1>2 DEF MapNames
<1>20. x.map = "start" => e = <<"device", "">> /\ e[1] = "device"
  <2>1. <<"device", "">>[1] = "device"
    OBVIOUS
  <2> QED BY <2>1, <1>6
<1>21. z.map # "start"
  <2>1. CASE InHere(x, z)
    BY <2>1, <1>8 DEF InHere
  <2>2. CASE AtEnd(x, z)
    BY <2>2 DEF AtEnd
  <2>3. ASSUME NEW m \in Ahead(x), InMap(x, z, m) PROVE z.map # "start"
    BY <2>3, <1>13, <1>18, <1>2 DEF InMap, MapNames, maps
  <2> QED BY <2>1, <2>2, <2>3
<1>22. Begun(z)
  <2>1. CASE x.map = "start"
    <3>1. x.sent = <<>>
      BY <2>1 DEF CallInv, Begun
    <3>2. z.sent[1] = Component(x)
      BY <3>1, <1>9
    <3> QED BY <3>2, <2>1, <1>20, <1>21, <1>9 DEF Begun, e
  <2>2. CASE x.map # "start"
    <3>1. x.sent # <<>> /\ SentKey(x.sent[1]) = <<"device", "">>
      BY <2>2 DEF CallInv, Begun
    <3>2. 1 \in DOMAIN x.sent
      <4>1. x.sent \in Seq(ToSet(x.sent))
        BY DEF CallInv, SentOnce
      <4>2. Len(x.sent) \in Nat \ {0}
        BY <3>1, <4>1, EmptySeq
      <4> QED BY <4>2, <1>9
    <3> QED BY <3>1, <3>2, <1>9, <1>21 DEF Begun
  <2> QED BY <2>1, <2>2
<1>23. Standing(z)
  <2>1. CASE InHere(x, z)
    <3>1. x.map # "start"
      BY <2>1, <1>8 DEF InHere
    <3>2. x.todo \subseteq PossibleKeys(x.map) /\ \E j \in DOMAIN maps : maps[j] = x.map
      BY <3>1 DEF CallInv, Standing, maps
    <3> QED BY <2>1, <3>2, <1>1, <1>4 DEF InHere, Standing
  <2>2. CASE AtEnd(x, z)
    BY <2>2 DEF AtEnd, Standing
  <2>3. ASSUME NEW m \in Ahead(x), InMap(x, z, m) PROVE Standing(z)
    <3>1. m \in DOMAIN maps /\ maps[m] \in MapNames
      BY <1>13, <1>18, <1>2
    <3>2. Keys(maps[m]) \subseteq PossibleKeys(maps[m])
      BY <3>1, KeysBetween
    <3>3. z.map = maps[m] /\ z.at \in Keys(maps[m]) /\ Sends(maps[m], z.at, x) /\ z.todo = Keys(maps[m]) \ {z.at}
      BY <2>3 DEF InMap, maps
    <3> QED BY <3>1, <3>2, <3>3, <1>1, <1>4 DEF Standing
  <2> QED BY <2>1, <2>2, <2>3
<1>24. SentOnce(z)
  <2>1. \A i \in DOMAIN x.sent : SentKey(z.sent[i]) \in Told(x) /\ SentKey(z.sent[i]) = SentKey(x.sent[i])
    BY <1>9 DEF Told
  <2>2. SentKey(z.sent[Len(x.sent) + 1]) \notin Told(x)
    BY <1>9, <1>11 DEF e
  <2>3. \A i, j \in DOMAIN x.sent : SentKey(x.sent[i]) = SentKey(x.sent[j]) => i = j
    BY DEF CallInv, SentOnce
  <2>4. \A i, j \in DOMAIN z.sent : SentKey(z.sent[i]) = SentKey(z.sent[j]) => i = j
    BY <2>1, <2>2, <2>3, <1>9
  <2> QED BY <2>4, <1>9 DEF SentOnce
<1>25. NotSentYet(z)
  <2> SUFFICES ASSUME NEW t \in Told(z)
               PROVE  (\A j \in Later(z) : t[1] # maps[j]) /\ ~(t[1] = z.map /\ t[2] \in Here(z))
    BY <1>1 DEF NotSentYet
  <2>1. t \in Told(x) => (\A j \in Later(x) : t[1] # maps[j]) /\ ~(t[1] = x.map /\ t[2] \in Here(x))
    BY DEF CallInv, NotSentYet, maps
  <2>2. \A j \in Later(x) : t[1] # maps[j]
    <3>1. t = e => t[1] = "device" \/ t[1] = x.map
      BY <1>19, <1>20
    <3> QED BY <2>1, <3>1, <1>10, <1>18
  <2>3. CASE InHere(x, z)
    <3>1. Here(z) \subseteq x.todo /\ x.todo \subseteq Here(x) /\ z.map = x.map /\ x.map # "start"
      BY <2>3, <1>8 DEF InHere, Here
    <3>2. x.at \notin x.todo
      BY <3>1 DEF CallInv, Standing, Live
    <3>3. t = e => t[2] = x.at
      BY <3>1, <1>19
    <3> QED BY <2>1, <2>2, <3>1, <3>2, <3>3, <1>10, <1>17
  <2>4. CASE AtEnd(x, z)
    <3>1. t \in Told(x) => t[1] \in MapNames \cup {"device"}
      <4>1. t \in Told(x) => \/ t = <<"device", "">> \/ t \in {"packs"} \X Languages
                             \/ \E j \in DOMAIN maps : \E k \in Wanted(maps[j], x) : t = <<maps[j], k>>
        BY DEF CallInv, OnlyWanted, maps
      <4>2. t \in {"packs"} \X Languages => t[1] = "packs"
        OBVIOUS
      <4>3. t = <<"device", "">> => t[1] = "device"
        BY PairParts, Zenon
      <4>4. ASSUME NEW j \in DOMAIN maps, NEW k, t = <<maps[j], k>> PROVE t[1] \in MapNames
        BY <4>4, <1>2, PairParts
      <4>5. (\E j \in DOMAIN maps : \E k \in Wanted(maps[j], x) : t = <<maps[j], k>>) => t[1] \in MapNames
        BY <4>4
      <4> QED BY <4>1, <4>2, <4>3, <4>5 DEF MapNames
    <3>2. t[1] \in MapNames \cup {"device"}
      BY <3>1, <1>10, <1>19, <1>20
    <3> QED BY <2>2, <2>4, <3>2, <1>17 DEF AtEnd, MapNames
  <2>5. ASSUME NEW m \in Ahead(x), InMap(x, z, m) PROVE ~(t[1] = z.map)
    BY <2>2, <2>5, <1>13 DEF InMap, maps
  <2> QED BY <2>2, <2>3, <2>4, <2>5, <1>17
<1>26. OnlyWanted(z)
  <2> SUFFICES ASSUME NEW t \in Told(z)
               PROVE  \/ t = <<"device", "">> \/ t \in {"packs"} \X Languages
                      \/ \E j \in DOMAIN MapsOf(z.dl) : \E k \in Wanted(MapsOf(z.dl)[j], z) : t = <<MapsOf(z.dl)[j], k>>
    BY Zenon DEF OnlyWanted
  <2>1. CASE t \in Told(x)
    <3>1. \/ t = <<"device", "">> \/ t \in {"packs"} \X Languages
          \/ \E j \in DOMAIN maps : \E k \in Wanted(maps[j], x) : t = <<maps[j], k>>
      BY <2>1 DEF CallInv, OnlyWanted, maps
    <3> QED BY <3>1, <1>1, <1>5, Zenon
  <2>2. CASE t = e /\ x.map = "start"
    BY <2>2, <1>20
  <2>3. CASE t = e /\ x.map # "start"
    <3>1. x.at \in PossibleKeys(x.map) /\ Sends(x.map, x.at, x)
      BY <2>3 DEF CallInv, Standing
    <3>2. x.map # "packs" => x.at \in Wanted(x.map, x)
      BY <3>1 DEF Wanted
    <3>3. x.map = "packs" => x.at \in Languages
      BY <3>1 DEF PossibleKeys
    <3>4. PICK j \in DOMAIN maps : maps[j] = x.map
      BY <2>3, <1>7 DEF maps
    <3>5. x.map = "packs" => t \in {"packs"} \X Languages
      BY <2>3, <3>3, <1>19
    <3>6. x.map # "packs" => \E k \in Wanted(maps[j], x) : t = <<maps[j], k>>
      BY <2>3, <3>2, <3>4, <1>19
    <3> QED BY <3>4, <3>5, <3>6, <1>1, <1>5, Zenon
  <2> QED BY <2>1, <2>2, <2>3, <1>10
<1>27. AllWanted(z)
  <2> SUFFICES ASSUME NEW j \in DOMAIN maps, NEW k \in Wanted(maps[j], x)
               PROVE  <<maps[j], k>> \in Told(z) \/ j \in Later(z) \/ (maps[j] = z.map /\ k \in Here(z))
    BY <1>1, <1>5 DEF AllWanted
  <2>1. <<maps[j], k>> \in Told(x) \/ j \in Later(x) \/ (maps[j] = x.map /\ k \in Here(x))
    BY DEF CallInv, AllWanted, maps
  <2>2. k \in Keys(maps[j]) /\ Sends(maps[j], k, x)
    BY <1>2, KeysBetween
  <2>3. j \in Later(x) => j \in Ahead(x)
    BY <2>2, <1>13
  <2>4. maps[j] = x.map => x.map # "start"
    BY <1>2 DEF MapNames
  <2>5. maps[j] = x.map /\ k = x.at => <<maps[j], k>> \in Told(z)
    BY <2>4, <1>10, <1>19
  <2>6. CASE InHere(x, z)
    BY <2>1, <2>5, <2>6, <1>10, <1>14 DEF InHere, Here
  <2>7. CASE AtEnd(x, z)
    BY <2>1, <2>2, <2>3, <2>5, <2>7, <1>10 DEF AtEnd, NoMore, Here
  <2>8. ASSUME NEW m \in Ahead(x), InMap(x, z, m)
        PROVE  <<maps[j], k>> \in Told(z) \/ j \in Later(z) \/ (maps[j] = z.map /\ k \in Here(z))
    <3>1. CASE j \in Later(x)
      <4>1. m <= j /\ m \in Int /\ j \in Int
        <5>1. m <= j
          BY <2>3, <2>8, <3>1 DEF InMap
        <5>2. m \in DOMAIN maps
          BY <1>13, <1>18
        <5> QED BY <5>1, <5>2, <1>1
      <4>2. m < j => j \in Later(z)
        BY <2>8, <1>16
      <4>3. m = j => maps[j] = z.map /\ k \in Here(z)
        BY <2>2, <2>8 DEF InMap, Here, maps
      <4> QED BY <4>1, <4>2, <4>3
    <3>2. CASE j \notin Later(x)
      BY <2>1, <2>2, <2>5, <2>8, <3>2, <1>10 DEF InMap, NoMore, Here
    <3> QED BY <3>1, <3>2
  <2> QED BY <2>6, <2>7, <2>8
<1> QED BY <1>22, <1>23, <1>24, <1>25, <1>26, <1>27 DEF CallInv

\* A language goes: what a live call still owes is less by it.
LEMMA Forgets ==
    ASSUME LanguageInv, NEW x, x.packs \subseteq DOMAIN packs, CallInv(x), NEW l, NEW z,
           z.packs = x.packs \ {l}, z.map = x.map, z.at = x.at, z.sent = x.sent,
           z.authz = x.authz, z.dl = x.dl, z.subscribed = x.subscribed,
           z.todo = (IF x.map = "packs" THEN x.todo \ {l} ELSE x.todo), x.map = "packs" => x.at # l
    PROVE  CallInv(z)
<1>1. \A map, k : Sends(map, k, z) = Sends(map, k, x)
  BY SendsSame
<1>2. \A map : map # "packs" => Wanted(map, z) = Wanted(map, x)
  BY <1>1 DEF Wanted
<1>3. Wanted("packs", z) = x.packs \ {l} /\ Wanted("packs", x) = x.packs
  BY DEF Wanted
<1>4. x.packs \subseteq Languages
  BY DEF LanguageInv, LanguagesOwned, Languages
<1>5. Told(z) = Told(x) /\ Later(z) = Later(x) /\ MapsOf(z.dl) = MapsOf(x.dl)
  BY DEF Told, Later
<1>6. z.todo \subseteq x.todo /\ Here(z) \subseteq Here(x)
  BY DEF Here
<1>7. Begun(z)
  BY <1>6 DEF CallInv, Begun
<1>8. Standing(z)
  BY <1>1, <1>5, <1>6 DEF CallInv, Standing
<1>9. SentOnce(z)
  BY DEF CallInv, SentOnce
<1>10. NotSentYet(z)
  BY <1>5, <1>6 DEF CallInv, NotSentYet
<1>11. OnlyWanted(z)
  <2> SUFFICES ASSUME NEW t \in Told(z)
               PROVE  \/ t = <<"device", "">> \/ t \in {"packs"} \X Languages
                      \/ \E j \in DOMAIN MapsOf(z.dl) : \E k \in Wanted(MapsOf(z.dl)[j], z) : t = <<MapsOf(z.dl)[j], k>>
    BY Zenon DEF OnlyWanted
  <2>1. \/ t = <<"device", "">> \/ t \in {"packs"} \X Languages
        \/ \E j \in DOMAIN MapsOf(x.dl) : \E k \in Wanted(MapsOf(x.dl)[j], x) : t = <<MapsOf(x.dl)[j], k>>
    BY <1>5 DEF CallInv, OnlyWanted
  <2>2. ASSUME NEW j \in DOMAIN MapsOf(x.dl), NEW k \in Wanted(MapsOf(x.dl)[j], x), t = <<MapsOf(x.dl)[j], k>>
        PROVE  t \in {"packs"} \X Languages \/ k \in Wanted(MapsOf(x.dl)[j], z)
    <3>1. CASE MapsOf(x.dl)[j] = "packs"
      BY <2>2, <3>1, <1>3, <1>4
    <3>2. CASE MapsOf(x.dl)[j] # "packs"
      BY <3>2, <1>2
    <3> QED BY <3>1, <3>2
  <2> QED BY <2>1, <2>2, <1>5, Zenon
<1>12. AllWanted(z)
  <2> SUFFICES ASSUME NEW j \in DOMAIN MapsOf(x.dl), NEW k \in Wanted(MapsOf(x.dl)[j], z)
               PROVE  <<MapsOf(x.dl)[j], k>> \in Told(x) \/ j \in Later(x) \/ (MapsOf(x.dl)[j] = x.map /\ k \in Here(z))
    BY <1>5, Zenon DEF AllWanted
  <2>1. k \in Wanted(MapsOf(x.dl)[j], x) /\ (MapsOf(x.dl)[j] = "packs" => k # l)
    BY <1>2, <1>3
  <2>2. <<MapsOf(x.dl)[j], k>> \in Told(x) \/ j \in Later(x) \/ (MapsOf(x.dl)[j] = x.map /\ k \in Here(x))
    BY <2>1 DEF CallInv, AllWanted
  <2>3. MapsOf(x.dl)[j] = x.map /\ k \in Here(x) => k \in Here(z)
    BY <2>1 DEF Here
  <2> QED BY <2>2, <2>3
<1> QED BY <1>7, <1>8, <1>9, <1>10, <1>11, <1>12 DEF CallInv

\* A call that has not begun has everything before it.
LEMMA Starts ==
    ASSUME NEW x, x.map = "start", x.sent = <<>>, x.todo = {}
    PROVE  CallInv(x)
<1>1. Told(x) = {} /\ Begun(x) /\ Standing(x)
  BY DEF Told, Begun, Standing
<1>2. Later(x) = DOMAIN MapsOf(x.dl)
  <2>1. \A i \in DOMAIN MapsOf(x.dl) : MapsOf(x.dl)[i] # "start"
    BY MapsOfIs DEF MapNames
  <2> QED BY <2>1 DEF Later
<1>3. SentOnce(x)
  BY EmptySeq DEF SentOnce
<1>4. NotSentYet(x) /\ OnlyWanted(x) /\ AllWanted(x)
  BY <1>1, <1>2 DEF NotSentYet, OnlyWanted, AllWanted
<1> QED BY <1>1, <1>3, <1>4 DEF CallInv

\* An idle call, and one that crashed
LEMMA IdleRecord ==
    Idle = [map |-> Idle.map, todo |-> Idle.todo, at |-> Idle.at, authz |-> Idle.authz, dl |-> Idle.dl, subscribed |-> Idle.subscribed,
            sent |-> Idle.sent, disturbed |-> Idle.disturbed, packs |-> Idle.packs, dangling |-> Idle.dangling]
BY Zenon DEF Idle

LEMMA IdleIs ==
    /\ Idle.map = "idle" /\ Idle.todo = {} /\ Idle.at = "none" /\ Idle.sent = <<>> /\ Idle.disturbed = FALSE /\ Idle.packs = {}
    /\ Idle.dangling = FALSE
BY Zenon DEF Idle

LEMMA CrashedIsCall ==
    ASSUME NEW at, NEW x, x = [Idle EXCEPT !.map = "crashed", !.at = at, !.dangling = TRUE]
    PROVE  IsCall(x) /\ x.map = "crashed" /\ x.packs = {} /\ x.at = at /\ x.dangling
<1>1. x = [map |-> "crashed", todo |-> Idle.todo, at |-> at, authz |-> Idle.authz, dl |-> Idle.dl, subscribed |-> Idle.subscribed,
           sent |-> Idle.sent, disturbed |-> Idle.disturbed, packs |-> Idle.packs, dangling |-> TRUE]
  BY IdleRecord
<1>2. x = [map |-> x.map, todo |-> x.todo, at |-> x.at, authz |-> x.authz, dl |-> x.dl, subscribed |-> x.subscribed,
           sent |-> x.sent, disturbed |-> x.disturbed, packs |-> x.packs, dangling |-> x.dangling]
  BY <1>1
<1>3. x.map = "crashed" /\ x.packs = Idle.packs /\ x.disturbed = Idle.disturbed /\ x.at = at /\ x.dangling = TRUE
  BY <1>1
<1> QED BY <1>2, <1>3, IdleIs DEF IsCall

LEMMA AddLanguageStep ==
    ASSUME SerializerIInv, NEW q \in Programs[program], AddLanguage(q)
    PROVE  SerializerIInv'
<1> DEFINE l == q.language
           has == l \in DOMAIN packs
           pack == Other(l)
           code == IF (q.method = "POST" /\ has) \/ (q.method = "PUT" /\ ~has) THEN PERMISSION_DENIED
                   ELSE IF ~writeAuthzScope(q.authz, "adm") THEN PERMISSION_DENIED
                   ELSE IF q.words = "unnamed" THEN INVALID_ARGUMENT
                   ELSE IF has /\ q.language \notin DOMAIN added THEN PERMISSION_DENIED ELSE OK
           With(f, v) == [i \in DOMAIN f \cup {l} |-> IF i = l THEN v ELSE f[i]]
<1>0. LanguageInv
  BY DEF SerializerIInv
<1>1. CASE UNCHANGED <<languageVars, calls>>
  <2>1. UNCHANGED <<program, packs, added, words, calls>>
    BY <1>1 DEF AddLanguage, languageVars
  <2> QED BY <2>1 DEF SerializerIInv, LanguageInv, LanguagesOwned
<1>2. CASE ~UNCHANGED <<languageVars, calls>>
  <2>0. code = OK => ~(has /\ l \notin DOMAIN added)
    BY DEF OK, PERMISSION_DENIED, INVALID_ARGUMENT
  <2>1. /\ q.op = "AddLanguage" /\ ~(has /\ l \notin DOMAIN added) /\ program' = program
        /\ packs' = With(packs, pack) /\ added' = With(added, pack)
        /\ words' = [words EXCEPT ![pack] = q.words]
        /\ \E todo \in [Serializers -> SUBSET DOMAIN packs'] :
             calls' = [c \in Serializers |-> IF has \/ ~Disturbed(c) THEN calls[c]
                                             ELSE [calls[c] EXCEPT !.todo = todo[c] \ {calls[c].at}, !.disturbed = TRUE]]
    <3>1. q.op = "AddLanguage" /\ program' = program
      BY DEF AddLanguage
    <3>2. code = OK
      BY <1>2, Zenon DEF AddLanguage
    <3>3. packs' = With(packs, pack) /\ added' = With(added, pack) /\ words' = [words EXCEPT ![pack] = q.words]
      BY <3>2, Zenon DEF AddLanguage
    <3>4. \E todo \in [Serializers -> SUBSET DOMAIN packs'] :
             calls' = [c \in Serializers |-> IF has \/ ~Disturbed(c) THEN calls[c]
                                             ELSE [calls[c] EXCEPT !.todo = todo[c] \ {calls[c].at}, !.disturbed = TRUE]]
      BY <3>2, Zenon DEF AddLanguage
    <3> QED BY <2>0, <3>1, <3>2, <3>3, <3>4, Zenon
  <2>2. l \in Languages
    <3>1. l \in {r.language : r \in {y \in Programs[program] : y.op = "AddLanguage"}}
      BY <2>1
    <3>2. program \in DOMAIN Programs
      BY <1>0 DEF LanguageInv
    <3> QED BY <3>1, <3>2 DEF Languages
  <2>3. l \notin Shipped
    BY <2>1, <1>0 DEF LanguageInv, LanguagesOwned
  <2>4. DOMAIN packs' = DOMAIN packs \cup {l} /\ DOMAIN added' = DOMAIN added \cup {l}
    BY <2>1
  <2>5. /\ packs'[l] = pack /\ added'[l] = pack
        /\ \A i \in DOMAIN packs : i # l => packs'[i] = packs[i]
        /\ \A i \in DOMAIN added : i # l => added'[i] = added[i]
    BY <2>1
  <2>6. pack \in {<<l, 1>>, <<l, 2>>}
    BY DEF Other
  <2> HIDE DEF pack, With
  <2>7. LanguageInv'
    <3>1. program' \in DOMAIN Programs /\ DOMAIN added' \cap Shipped = {} /\ DOMAIN added' \subseteq Languages
      BY <2>1, <2>2, <2>3, <2>4, <1>0 DEF LanguageInv
    <3>2. words' = [p \in Languages \X (0..2) |-> words'[p]]
      BY <2>1, <1>0 DEF LanguageInv
    <3>3. \A i \in DOMAIN packs' : IF i \in Shipped THEN packs'[i] = <<i, 0>> ELSE i \in DOMAIN added' /\ added'[i] = packs'[i]
      BY <2>3, <2>4, <2>5, <1>0 DEF LanguageInv, LanguagesOwned
    <3>4. DOMAIN added' \cup Shipped = DOMAIN packs'
      BY <2>4, <1>0 DEF LanguageInv, LanguagesOwned
    <3>5. ASSUME NEW i \in Shipped PROVE words'[packs'[i]] = "shipped"
      <4>1. packs'[i] = packs[i] /\ packs[i] = <<i, 0>> /\ words[<<i, 0>>] = "shipped"
        BY <2>3, <2>4, <2>5, <1>0 DEF LanguageInv, LanguagesOwned
      <4>2. <<i, 0>> # pack
        BY <2>3, <2>6
      <4>3. <<i, 0>> \in Languages \X (0..2)
        BY DEF Languages
      <4>4. words'[<<i, 0>>] = words[<<i, 0>>]
        BY <2>1, <4>2, <4>3, <1>0 DEF LanguageInv
      <4> QED BY <4>1, <4>4
    <3>6. LanguagesOwned'
      BY <3>3, <3>4, <3>5 DEF LanguagesOwned
    <3> QED BY <3>1, <3>2, <3>6 DEF LanguageInv
  <2>8. PICK todo : calls' = [c \in Serializers |-> IF has \/ ~Disturbed(c) THEN calls[c]
                                                   ELSE [calls[c] EXCEPT !.todo = todo[c] \ {calls[c].at}, !.disturbed = TRUE]]
    BY <2>1
  <2>9. ASSUME NEW c \in Serializers
        PROVE  IsCall(calls'[c]) /\ CrashInv(calls'[c]) /\ calls'[c].packs \subseteq DOMAIN packs' /\ (Live(calls'[c]) => CallInv(calls'[c]))
    <3>1. IsCall(calls[c]) /\ CrashInv(calls[c]) /\ calls[c].packs \subseteq DOMAIN packs' /\ (Live(calls[c]) => CallInv(calls[c]))
      BY <2>4 DEF SerializerIInv
    <3>2. CASE has \/ ~Disturbed(c)
      BY <2>8, <3>1, <3>2
    <3>3. CASE ~(has \/ ~Disturbed(c))
      <4> DEFINE x == calls[c]
                 T == todo[c] \ {x.at}
      <4>1. calls'[c] = [x EXCEPT !.todo = T, !.disturbed = TRUE]
        BY <2>8, <3>3
      <4>2. IsCall(x) /\ x.map = "packs"
        BY <3>1, <3>3 DEF Disturbed
      <4> HIDE DEF x, T
      <4>3. calls'[c] = [map |-> x.map, todo |-> T, at |-> x.at, authz |-> x.authz, dl |-> x.dl, subscribed |-> x.subscribed,
                         sent |-> x.sent, disturbed |-> TRUE, packs |-> x.packs, dangling |-> x.dangling]
        BY <4>1, <4>2 DEF IsCall
      <4>4. /\ IsCall(calls'[c]) /\ calls'[c].packs = x.packs /\ calls'[c].disturbed
            /\ calls'[c].map = x.map /\ calls'[c].at = x.at /\ calls'[c].dangling = x.dangling
        BY <4>2, <4>3 DEF IsCall
      <4> QED BY <4>4, <3>1 DEF Live, CrashInv, x
    <3> QED BY <3>2, <3>3
  <2>10. calls' = [c \in Serializers |-> calls'[c]]
    BY <2>8
  <2> QED BY <2>7, <2>9, <2>10 DEF SerializerIInv
<1> QED BY <1>1, <1>2

LEMMA RemoveLanguageStep ==
    ASSUME SerializerIInv, NEW q \in Programs[program], RemoveLanguage(q)
    PROVE  SerializerIInv'
<1> DEFINE l == q.language
           code == IF ~writeAuthzScope(q.authz, "adm") THEN PERMISSION_DENIED
                   ELSE IF q.language \in DOMAIN packs /\ q.language \notin DOMAIN added THEN PERMISSION_DENIED
                   ELSE IF q.language \notin DOMAIN packs THEN NOT_FOUND ELSE OK
           After(x) == IF x.map # "packs" THEN [x EXCEPT !.packs = @ \ {l}]
                       ELSE [x EXCEPT !.todo = @ \ {l}, !.packs = @ \ {l}, !.dangling = @ \/ x.at = l]
<1>0. LanguageInv
  BY DEF SerializerIInv
<1>1. CASE UNCHANGED <<languageVars, calls>>
  <2>1. UNCHANGED <<program, packs, added, words, calls>>
    BY <1>1 DEF RemoveLanguage, languageVars
  <2> QED BY <2>1 DEF SerializerIInv, LanguageInv, LanguagesOwned
<1>2. CASE ~UNCHANGED <<languageVars, calls>>
  <2>1. code = OK => l \in DOMAIN added
    BY DEF OK, PERMISSION_DENIED, NOT_FOUND
  <2>2. code = OK
    BY <1>2, Zenon DEF RemoveLanguage
  <2>3. /\ added' = [i \in DOMAIN added \ {l} |-> added[i]] /\ packs' = [i \in DOMAIN packs \ {l} |-> packs[i]]
        /\ words' = words
    BY <2>2, Zenon DEF RemoveLanguage, removeLanguage
  <2>4. calls' = [c \in Serializers |-> After(calls[c])]
    BY <2>2, Zenon DEF RemoveLanguage
  <2>5. program' = program
    BY DEF RemoveLanguage
  <2>6. l \in DOMAIN added /\ l \notin Shipped
    BY <2>1, <2>2, <1>0 DEF LanguageInv
  <2>7. LanguageInv'
    <3>1. LanguagesOwned'
      BY <2>3, <2>6, <1>0 DEF LanguageInv, LanguagesOwned
    <3> QED BY <2>3, <2>5, <3>1, <1>0 DEF LanguageInv
  <2>8. ASSUME NEW c \in Serializers
        PROVE  IsCall(calls'[c]) /\ CrashInv(calls'[c]) /\ calls'[c].packs \subseteq DOMAIN packs' /\ (Live(calls'[c]) => CallInv(calls'[c]))
    <3> DEFINE x == calls[c]
               z == calls'[c]
    <3>1. IsCall(x) /\ CrashInv(x) /\ x.packs \subseteq DOMAIN packs /\ (Live(x) => CallInv(x))
      BY DEF SerializerIInv
    <3>2. z = After(x)
      BY <2>4
    <3> HIDE DEF x, z
    <3>3. z = [map |-> x.map, todo |-> IF x.map = "packs" THEN x.todo \ {l} ELSE x.todo,
               at |-> x.at, authz |-> x.authz, dl |-> x.dl,
               subscribed |-> x.subscribed, sent |-> x.sent, disturbed |-> x.disturbed, packs |-> x.packs \ {l},
               dangling |-> x.dangling \/ (x.map = "packs" /\ x.at = l)]
      BY <3>1, <3>2 DEF IsCall
    <3>4. /\ z.map = x.map /\ z.todo = (IF x.map = "packs" THEN x.todo \ {l} ELSE x.todo)
          /\ z.at = x.at /\ z.dangling = (x.dangling \/ (x.map = "packs" /\ x.at = l)) /\ z.authz = x.authz /\ z.dl = x.dl
          /\ z.subscribed = x.subscribed /\ z.sent = x.sent /\ z.packs = x.packs \ {l} /\ z.disturbed = x.disturbed
      BY <3>3, Zenon
    <3>5. z = [map |-> z.map, todo |-> z.todo, at |-> z.at, authz |-> z.authz, dl |-> z.dl, subscribed |-> z.subscribed,
               sent |-> z.sent, disturbed |-> z.disturbed, packs |-> z.packs, dangling |-> z.dangling]
      BY <3>3, <3>4, Zenon
    <3>6. x.disturbed \in BOOLEAN /\ x.dangling \in BOOLEAN /\ (x.map = "done" => x.at = "none")
      BY <3>1 DEF IsCall
    <3>7. IsCall(z)
      BY <3>4, <3>5, <3>6 DEF IsCall
    <3>8. z.packs \subseteq DOMAIN packs'
      BY <2>3, <3>1, <3>4
    <3>9. ASSUME Live(z) PROVE CallInv(z)
      <4>1. z.at = x.at /\ (x.map = "packs" => x.at # l) /\ Live(x)
        BY <3>4, <3>9 DEF Live
      <4> QED BY <3>1, <3>4, <4>1, <1>0, Forgets
    <3>10. CrashInv(z)
      BY <2>6, <3>1, <3>4 DEF CrashInv
    <3> QED BY <3>7, <3>8, <3>9, <3>10 DEF z
  <2>9. calls' = [c \in Serializers |-> calls'[c]]
    BY <2>4
  <2> QED BY <2>7, <2>8, <2>9 DEF SerializerIInv
<1> QED BY <1>1, <1>2

\* A step of one call
LEMMA OneCallStep ==
    ASSUME SerializerIInv, UNCHANGED <<program, languageVars>>, NEW c \in Serializers, NEW z,
           calls' = [calls EXCEPT ![c] = z], IsCall(z), CrashInv(z), z.packs \subseteq DOMAIN packs, Live(z) => CallInv(z)
    PROVE  SerializerIInv'
<1>1. LanguageInv' /\ packs' = packs
  BY DEF SerializerIInv, LanguageInv, LanguagesOwned, languageVars
<1>2. calls' = [d \in Serializers |-> calls'[d]] /\ calls'[c] = z /\ \A d \in Serializers \ {c} : calls'[d] = calls[d]
  BY DEF SerializerIInv
<1>3. ASSUME NEW d \in Serializers
      PROVE  IsCall(calls'[d]) /\ CrashInv(calls'[d]) /\ calls'[d].packs \subseteq DOMAIN packs' /\ (Live(calls'[d]) => CallInv(calls'[d]))
  <2>1. CASE d = c
    BY <2>1, <1>1, <1>2
  <2>2. CASE d # c
    <3>1. calls'[d] = calls[d]
      BY <2>2, <1>2
    <3> QED BY <3>1, <1>1 DEF SerializerIInv
  <2> QED BY <2>1, <2>2
<1> QED BY <1>1, <1>2, <1>3 DEF SerializerIInv

LEMMA DeviceRequestStep ==
    ASSUME SerializerIInv, NEW q, NEW c \in Serializers, DeviceRequest(q, c)
    PROVE  SerializerIInv'
<1>1. UNCHANGED <<program, languageVars>>
  BY DEF DeviceRequest
<1>2. CASE UNCHANGED calls
  <2>1. UNCHANGED <<program, packs, added, words, calls>>
    BY <1>1, <1>2 DEF languageVars
  <2> QED BY <2>1 DEF SerializerIInv, LanguageInv, LanguagesOwned
<1>3. CASE ~UNCHANGED calls
  <2> DEFINE start == "start"
             r == q.authz
             d == q.dl
             s == q.subscribed
             p == DOMAIN packs
             z == [Idle EXCEPT !.map = start, !.authz = r, !.dl = d, !.subscribed = s, !.packs = p]
  <2>1. calls' = [calls EXCEPT ![c] = z]
    BY <1>3, Zenon DEF DeviceRequest
  <2>2. z = [Idle EXCEPT !.map = start, !.authz = r, !.dl = d, !.subscribed = s, !.packs = p]
    OBVIOUS
  <2> HIDE DEF start, r, d, s, p, z
  <2>3. z = [map |-> start, todo |-> Idle.todo, at |-> Idle.at, authz |-> r, dl |-> d, subscribed |-> s,
             sent |-> Idle.sent, disturbed |-> Idle.disturbed, packs |-> p, dangling |-> Idle.dangling]
    BY <2>2, IdleRecord
  <2>4. z = [map |-> "start", todo |-> Idle.todo, at |-> Idle.at, authz |-> q.authz, dl |-> q.dl, subscribed |-> q.subscribed,
             sent |-> Idle.sent, disturbed |-> Idle.disturbed, packs |-> DOMAIN packs, dangling |-> Idle.dangling]
    BY <2>3, Zenon DEF start, r, d, s, p
  <2>5. /\ z.map = "start" /\ z.todo = {} /\ z.at = "none" /\ z.authz = q.authz /\ z.dl = q.dl /\ z.subscribed = q.subscribed
        /\ z.sent = <<>> /\ z.disturbed = FALSE /\ z.packs = DOMAIN packs /\ z.dangling = FALSE
    BY <2>4, IdleIs, Zenon
  <2>6. z = [map |-> z.map, todo |-> z.todo, at |-> z.at, authz |-> z.authz, dl |-> z.dl, subscribed |-> z.subscribed,
             sent |-> z.sent, disturbed |-> z.disturbed, packs |-> z.packs, dangling |-> z.dangling]
    BY <2>4, <2>5, Zenon
  <2>7. IsCall(z)
    BY <2>5, <2>6 DEF IsCall
  <2>8. CallInv(z) /\ CrashInv(z) /\ z.packs \subseteq DOMAIN packs
    BY <2>5, Starts DEF CrashInv
  <2> QED BY <2>1, <2>7, <2>8, <1>1, OneCallStep
<1> QED BY <1>2, <1>3

LEMMA GetNextStep ==
    ASSUME SerializerIInv, NEW c \in Serializers, GetNext(c)
    PROVE  SerializerIInv'
<1> DEFINE x == calls[c]
<1>1. UNCHANGED <<program, languageVars>> /\ x.map \notin {"idle", "done", "crashed"}
  BY DEF GetNext
<1>2. LanguageInv /\ IsCall(x) /\ CrashInv(x) /\ x.packs \subseteq DOMAIN packs /\ (Live(x) => CallInv(x))
  BY DEF SerializerIInv
<1>3. CASE x.dangling
  <2> DEFINE z == [Idle EXCEPT !.map = "crashed", !.at = x.at, !.dangling = TRUE]
  <2>1. calls' = [calls EXCEPT ![c] = z]
    BY <1>3 DEF GetNext
  <2>2. IsCall(z) /\ z.map = "crashed" /\ z.packs = {} /\ z.at = x.at /\ z.dangling
    BY CrashedIsCall
  <2> HIDE DEF z
  <2>3. CrashInv(z)
    BY <2>2, <1>2, <1>3 DEF CrashInv
  <2> QED BY <2>1, <2>2, <2>3, <1>1, OneCallStep DEF Live
<1>4. CASE ~x.dangling
  <2>1. PICK y \in Onwards(x) : calls' = [calls EXCEPT ![c] = [y EXCEPT !.sent = Append(@, Component(x))]]
    BY <1>4 DEF GetNext
  <2> DEFINE z == [y EXCEPT !.sent = Append(@, Component(x))]
  <2>2. z = [y EXCEPT !.sent = Append(@, Component(x))]
    OBVIOUS
  <2>3. calls' = [calls EXCEPT ![c] = z]
    BY <2>1
  <2> HIDE DEF z, x
  <2>4. /\ IsCall(z) /\ SameRequest(x, z) /\ z.sent = Append(x.sent, Component(x))
        /\ InHere(x, z) \/ AtEnd(x, z) \/ \E m \in Ahead(x) : InMap(x, z, m)
    BY <2>2, <1>1, <1>2, OnwardsIs
  <2>5. z.packs \subseteq DOMAIN packs /\ CrashInv(z)
    <3>1. z.map # "crashed"
      BY <2>4, <1>1, MapsOfIs DEF InHere, AtEnd, InMap, Ahead, MapNames
    <3> QED BY <2>4, <1>2, <1>4, <3>1 DEF SameRequest, CrashInv
  <2>6. ASSUME Live(z) PROVE CallInv(z)
    <3>1. Live(x)
      BY <2>4, <2>6, <1>1, <1>4 DEF Live, SameRequest
    <3> QED BY <2>4, <3>1, <1>1, <1>2, Moves
  <2> QED BY <2>3, <2>4, <2>5, <2>6, <1>1, OneCallStep
<1> QED BY <1>3, <1>4

LEMMA FinishStep ==
    ASSUME SerializerIInv, NEW c \in Serializers, Finish(c)
    PROVE  SerializerIInv'
<1>1. UNCHANGED <<program, languageVars>> /\ calls' = [calls EXCEPT ![c] = Idle]
  BY DEF Finish
<1>2. IsCall(Idle) /\ CrashInv(Idle) /\ Idle.packs = {} /\ ~Live(Idle)
  BY IdleRecord, IdleIs DEF IsCall, Live, CrashInv
<1> QED BY <1>1, <1>2, OneCallStep

\* The three facts of the inductive invariant
LEMMA SerializerIInvInit == SerializerInit => SerializerIInv
<1> SUFFICES ASSUME SerializerInit PROVE SerializerIInv
  OBVIOUS
<1>1. /\ DOMAIN packs = Shipped /\ DOMAIN added = {} /\ program \in DOMAIN Programs
      /\ \A l \in Shipped : packs[l] = <<l, 0>>
      /\ words = [p \in Languages \X (0..2) |-> "shipped"]
      /\ calls = [c \in Serializers |-> Idle]
  BY DEF SerializerInit
<1>2. \A l \in Shipped : words[packs[l]] = "shipped"
  <2>1. ASSUME NEW l \in Shipped PROVE words[packs[l]] = "shipped"
    <3>1. <<l, 0>> \in Languages \X (0..2)
      BY DEF Languages
    <3>2. \A p \in Languages \X (0..2) : words[p] = "shipped"
      BY <1>1
    <3>3. words[<<l, 0>>] = "shipped"
      BY <3>1, <3>2
    <3> QED BY <1>1, <3>3
  <2> QED BY <2>1
<1>3. LanguagesOwned
  BY <1>1, <1>2 DEF LanguagesOwned
<1>4. LanguageInv
  BY <1>1, <1>3 DEF LanguageInv
<1>5. IsCall(Idle) /\ CrashInv(Idle) /\ Idle.packs = {} /\ ~Live(Idle)
  BY IdleRecord, IdleIs DEF IsCall, Live, CrashInv
<1> QED BY <1>1, <1>4, <1>5 DEF SerializerIInv

LEMMA SerializerIInvStep == SerializerIInv /\ [SerializerNext]_<<program, languageVars, calls>> => SerializerIInv'
<1> SUFFICES ASSUME SerializerIInv, [SerializerNext]_<<program, languageVars, calls>> PROVE SerializerIInv'
  OBVIOUS
<1>1. ASSUME NEW q \in Programs[program], AddLanguage(q) PROVE SerializerIInv'
  BY <1>1, AddLanguageStep
<1>2. ASSUME NEW q \in Programs[program], RemoveLanguage(q) PROVE SerializerIInv'
  BY <1>2, RemoveLanguageStep
<1>3. ASSUME UNCHANGED <<program, languageVars, calls>> PROVE SerializerIInv'
  BY <1>3 DEF SerializerIInv, LanguageInv, LanguagesOwned, languageVars
<1>4. ASSUME NEW q \in Programs[program], getLanguagePack(q) \/ ListLanguages(q) PROVE SerializerIInv'
  <2>1. UNCHANGED <<program, languageVars, calls>>
    BY <1>4 DEF getLanguagePack, ListLanguages, Reads
  <2> QED BY <2>1, <1>3
<1>5. ASSUME NEW q \in Programs[program], NEW c \in Serializers, DeviceRequest(q, c) PROVE SerializerIInv'
  BY <1>5, DeviceRequestStep
<1>6. ASSUME NEW c \in Serializers, GetNext(c) PROVE SerializerIInv'
  BY <1>6, GetNextStep
<1>7. ASSUME NEW c \in Serializers, Finish(c) PROVE SerializerIInv'
  BY <1>7, FinishStep
<1> QED BY <1>1, <1>2, <1>3, <1>4, <1>5, <1>6, <1>7 DEF SerializerNext

LEMMA SerializerIInvEnough == SerializerIInv => SerializedComplete
<1> SUFFICES ASSUME SerializerIInv PROVE SerializedComplete
  OBVIOUS
<1>1. LanguagesOwned
  BY DEF SerializerIInv, LanguageInv
<1>2. ASSUME NEW c \in Serializers, calls[c].map = "done", ~calls[c].disturbed
      PROVE  LET sent == [i \in DOMAIN calls[c].sent |-> <<calls[c].sent[i][1], calls[c].sent[i][2]>>]
             IN  /\ IsInjective(sent) /\ sent[1] = <<"device", "">>
                 /\ Due(calls[c]) \subseteq ToSet(sent)
                 /\ ToSet(sent) \ Due(calls[c]) \subseteq {"packs"} \X Languages
  <2> DEFINE x == calls[c]
             sent == [i \in DOMAIN x.sent |-> <<x.sent[i][1], x.sent[i][2]>>]
  <2>1. CallInv(x) /\ x.map = "done" /\ x.at = "none"
    BY <1>2 DEF SerializerIInv, IsCall, CrashInv, Live
  <2> HIDE DEF x
  <2>2. \A i \in DOMAIN x.sent : sent[i] = SentKey(x.sent[i])
    BY DEF SentKey
  <2>3. DOMAIN sent = DOMAIN x.sent
    OBVIOUS
  <2>4. ToSet(sent) = Told(x)
    BY <2>2, <2>3 DEF ToSet, Told
  <2>5. IsInjective(sent)
    <3>1. \A i, j \in DOMAIN x.sent : SentKey(x.sent[i]) = SentKey(x.sent[j]) => i = j
      BY <2>1 DEF CallInv, SentOnce
    <3> HIDE DEF sent
    <3>2. ASSUME NEW i \in DOMAIN sent, NEW j \in DOMAIN sent, sent[i] = sent[j] PROVE i = j
      <4>1. i \in DOMAIN x.sent /\ j \in DOMAIN x.sent
        BY <2>3
      <4>2. SentKey(x.sent[i]) = SentKey(x.sent[j])
        BY <2>2, <3>2, <4>1
      <4> QED BY <3>1, <4>1, <4>2
    <3> QED BY <3>2 DEF IsInjective
  <2>6. x.sent # <<>> /\ SentKey(x.sent[1]) = <<"device", "">> /\ x.sent \in Seq(ToSet(x.sent))
    BY <2>1 DEF CallInv, Begun, SentOnce
  <2>7. 1 \in DOMAIN x.sent
    <3>1. Len(x.sent) \in Nat \ {0}
      BY <2>6, EmptySeq
    <3>2. DOMAIN x.sent = 1..Len(x.sent)
      BY <2>6, LenProperties
    <3> QED BY <3>1, <3>2
  <2>8. sent[1] = <<"device", "">> /\ <<"device", "">> \in Told(x)
    BY <2>2, <2>6, <2>7 DEF Told
  <2> HIDE DEF sent
  <2>9. ASSUME NEW t \in Due(x) PROVE t \in Told(x)
    <3>1. \/ t = <<"device", "">>
          \/ \E j \in DOMAIN MapsOf(x.dl) : \E k \in Wanted(MapsOf(x.dl)[j], x) : t = <<MapsOf(x.dl)[j], k>>
      <4>1. Listed(t, x)
        BY DueIs
      <4> QED BY <4>1 DEF Listed
    <3>2. ASSUME NEW j \in DOMAIN MapsOf(x.dl), NEW k \in Wanted(MapsOf(x.dl)[j], x) PROVE <<MapsOf(x.dl)[j], k>> \in Told(x)
      <4>1. MapsOf(x.dl)[j] # "done"
        BY MapsOfIs DEF MapNames
      <4>2. Later(x) = {}
        BY <2>1 DEF Later
      <4> QED BY <4>1, <4>2, <2>1 DEF CallInv, AllWanted
    <3> QED BY <3>1, <3>2, <2>8, Zenon
  <2>10. ASSUME NEW t \in Told(x), t \notin Due(x) PROVE t \in {"packs"} \X Languages
    <3>1. \/ t = <<"device", "">> \/ t \in {"packs"} \X Languages
          \/ \E j \in DOMAIN MapsOf(x.dl) : \E k \in Wanted(MapsOf(x.dl)[j], x) : t = <<MapsOf(x.dl)[j], k>>
      BY <2>1 DEF CallInv, OnlyWanted
    <3>2. ~Listed(t, x)
      BY <2>10, DueIs
    <3> QED BY <3>1, <3>2 DEF Listed
  <2>11. Due(x) \subseteq ToSet(sent) /\ ToSet(sent) \ Due(x) \subseteq {"packs"} \X Languages
    BY <2>4, <2>9, <2>10
  <2> QED BY <2>5, <2>8, <2>11 DEF sent, x
<1>3. ASSUME NEW c \in Serializers, calls[c].map = "crashed" PROVE calls[c].dangling /\ calls[c].at \notin Shipped
  BY <1>3 DEF SerializerIInv, CrashInv
<1> QED BY <1>1, <1>2, <1>3 DEF SerializedComplete

\* For any params, commands, menus, constraints, languages, detail levels, clients and number
\* of device requests, and whatever sets of requests the clients make in between (the other
\* requests of Device leave the variables of SerializerSpec alone): a device request that no
\* new language disturbed has, when it is done, sent everything it is due exactly once, the
\* device first; it crashes only when a pack that is not shipped is removed while its
\* coroutine stands at it; and no pointer to a language pack outlives its pack
\* (getDeviceSerializer, addLanguage, removeLanguage).
THEOREM DeviceSerializedComplete == SerializerSpec => []SerializedComplete
BY SerializerIInvInit, SerializerIInvStep, SerializerIInvEnough, PTL DEF SerializerSpec
=============================================================================
