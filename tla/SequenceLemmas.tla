--------------------------- MODULE SequenceLemmas ---------------------------
(***************************************************************************)
(* Facts about natural numbers and sequences that the proofs of several    *)
(* components need and the library of the proof system does not state.     *)
(***************************************************************************)
EXTENDS Integers, SequencesExt, SequenceTheorems, FiniteSetTheorems, WellFoundedInduction, TLAPS

-----------------------------------------------------------------------------
(* Natural numbers *)

(* A set of natural numbers that is not empty has a smallest element. *)
LEMMA Smallest ==
  ASSUME NEW S \in SUBSET Nat, NEW n \in S
  PROVE  \E m \in S : \A k \in S : m <= k
<1> DEFINE F == {0 .. k : k \in {j \in S : j <= n}}
<1>1. IsWellFoundedOn(StrictSubsetOrdering(0 .. n), FiniteSubsetsOf(0 .. n))
  BY FS_StrictSubsetOrderingWellFounded
<1>2. F \subseteq FiniteSubsetsOf(0 .. n) /\ F # {}
  <2>1. ASSUME NEW k \in S, k <= n PROVE 0 .. k \subseteq 0 .. n /\ IsFiniteSet(0 .. k)
    <3>1. k \in Int /\ 0 \in Int
      BY <2>1
    <3>2. IsFiniteSet(0 .. k)
      BY ONLY <3>1, FS_Interval
    <3> QED
      BY <2>1, <3>2
  <2> QED
    BY <2>1 DEF FiniteSubsetsOf
<1> HIDE DEF F
<1>3. PICK x \in F : \A y \in F : <<y, x>> \notin StrictSubsetOrdering(0 .. n)
  BY <1>1, <1>2, WFMin
<1>4. PICK m \in S : m <= n /\ x = 0 .. m
  BY DEF F
<1>5. ASSUME NEW k \in S, k < m PROVE FALSE
  <2>1. 0 .. k \in F
    BY <1>4, <1>5 DEF F
  <2>2. <<0 .. k, x>> \in StrictSubsetOrdering(0 .. n)
    BY <1>4, <1>5 DEF StrictSubsetOrdering
  <2> QED
    BY <1>3, <2>1, <2>2
<1> QED
  BY <1>5

(* Induction: a set with 0 in it that is closed under + 1 has every natural  *)
(* number in it.                                                             *)
LEMMA NatInduct ==
  ASSUME NEW S, 0 \in S, \A n \in Nat : n \in S => n + 1 \in S
  PROVE  Nat \subseteq S
<1> SUFFICES ASSUME NEW x \in Nat, x \notin S PROVE FALSE
  OBVIOUS
<1> DEFINE B == {n \in Nat : n \notin S}
<1>1. PICK m \in B : \A k \in B : m <= k
  BY Smallest
<1>2. m - 1 \in Nat /\ m - 1 \notin B
  BY <1>1
<1> QED
  BY <1>1, <1>2

-----------------------------------------------------------------------------
(* The elements of a sequence *)

(* ToSet by indices. *)
LEMMA Elements ==
  ASSUME NEW S, NEW s \in Seq(S)
  PROVE  /\ Len(s) \in Nat /\ DOMAIN s = 1 .. Len(s)
         /\ \A i \in 1 .. Len(s) : s[i] \in S /\ s[i] \in ToSet(s)
         /\ ToSet(s) \subseteq S
         /\ s = <<>> <=> ToSet(s) = {}
<1>1. Len(s) \in Nat /\ DOMAIN s = 1 .. Len(s) /\ \A i \in 1 .. Len(s) : s[i] \in S
  BY LenProperties, ElementOfSeq
<1>2. s = <<>> <=> Len(s) = 0
  BY EmptySeq
<1>3. s = <<>> <=> ToSet(s) = {}
  <2>1. CASE Len(s) = 0
    BY <1>1, <1>2, <2>1 DEF ToSet
  <2>2. CASE Len(s) # 0
    <3>1. 1 \in DOMAIN s
      BY <1>1, <2>2
    <3> QED
      BY <1>2, <2>2, <3>1 DEF ToSet
  <2> QED
    BY <2>1, <2>2
<1> QED
  BY <1>1, <1>3 DEF ToSet

(* The first element and the others. *)
LEMMA HeadTailElements ==
  ASSUME NEW S, NEW s \in Seq(S), s # <<>>
  PROVE  /\ Head(s) \in ToSet(s) /\ Head(s) \in S /\ Tail(s) \in Seq(S)
         /\ ToSet(s) = {Head(s)} \cup ToSet(Tail(s))
         /\ IsInjective(s) => IsInjective(Tail(s)) /\ Head(s) \notin ToSet(Tail(s))
<1>1. /\ Tail(s) \in Seq(S) /\ Len(s) \in Nat \ {0} /\ Len(Tail(s)) = Len(s) - 1
      /\ DOMAIN s = 1 .. Len(s) /\ DOMAIN Tail(s) = 1 .. Len(s) - 1
      /\ \A i \in 1 .. Len(s) - 1 : Tail(s)[i] = s[i + 1]
      /\ Head(s) = s[1] /\ s[1] \in S
  BY HeadTailProperties, LenProperties, EmptySeq, ElementOfSeq
<1> DEFINE t == Tail(s)
<1> HIDE DEF t
<1>2. ASSUME NEW x \in ToSet(s), x # Head(s) PROVE x \in ToSet(t)
  <2>1. PICK i \in 1 .. Len(s) : s[i] = x /\ i # 1
    BY <1>1, <1>2 DEF ToSet
  <2>2. i - 1 \in 1 .. Len(s) - 1 /\ t[i - 1] = s[(i - 1) + 1] /\ (i - 1) + 1 = i
    BY <1>1, <2>1 DEF t
  <2> QED
    BY <1>1, <2>1, <2>2 DEF ToSet, t
<1>3. ASSUME NEW x \in ToSet(t) PROVE x \in ToSet(s)
  <2>1. PICK i \in 1 .. Len(s) - 1 : t[i] = x
    BY <1>1, <1>3 DEF ToSet, t
  <2>2. i + 1 \in 1 .. Len(s) /\ s[i + 1] = x
    BY <1>1, <2>1 DEF t
  <2> QED
    BY <1>1, <2>2 DEF ToSet
<1>4. Head(s) \in ToSet(s)
  BY <1>1 DEF ToSet
<1>5. ASSUME IsInjective(s) PROVE IsInjective(t) /\ Head(s) \notin ToSet(t)
  <2>1. \A i, j \in 1 .. Len(s) - 1 : t[i] = t[j] => i + 1 = j + 1
    BY <1>1, <1>5 DEF IsInjective, t
  <2>2. \A i \in 1 .. Len(s) - 1 : t[i] # Head(s)
    <3>1. \A i \in 1 .. Len(s) - 1 : s[i + 1] # s[1]
      BY <1>1, <1>5 DEF IsInjective
    <3> QED
      BY <1>1, <3>1 DEF t
  <2> QED
    BY <1>1, <2>1, <2>2 DEF IsInjective, ToSet, t
<1> QED
  BY <1>1, <1>2, <1>3, <1>4, <1>5 DEF t

(* The elements of a concatenation. *)
LEMMA ConcatElements ==
  ASSUME NEW S, NEW s \in Seq(S), NEW t \in Seq(S)
  PROVE  s \o t \in Seq(S) /\ ToSet(s \o t) = ToSet(s) \cup ToSet(t)
<1>1. /\ DOMAIN s = 1 .. Len(s) /\ DOMAIN t = 1 .. Len(t) /\ Len(s) \in Nat /\ Len(t) \in Nat
  BY LenProperties
<1>2. /\ s \o t \in Seq(S) /\ DOMAIN (s \o t) = 1 .. Len(s) + Len(t)
      /\ \A i \in 1 .. Len(s) + Len(t) :
           (s \o t)[i] = IF i <= Len(s) THEN s[i] ELSE t[i - Len(s)]
  BY ConcatProperties, LenProperties
<1>3. ASSUME NEW x \in ToSet(s) PROVE x \in ToSet(s \o t)
  <2>1. PICK i \in 1 .. Len(s) : s[i] = x
    BY <1>1, <1>3 DEF ToSet
  <2> QED
    BY <1>1, <1>2, <2>1 DEF ToSet
<1>4. ASSUME NEW x \in ToSet(t) PROVE x \in ToSet(s \o t)
  <2>1. PICK i \in 1 .. Len(t) : t[i] = x
    BY <1>1, <1>4 DEF ToSet
  <2>2. i + Len(s) \in 1 .. Len(s) + Len(t) /\ (s \o t)[i + Len(s)] = x
    BY <1>1, <1>2, <2>1
  <2> QED
    BY <1>2, <2>2 DEF ToSet
<1>5. ASSUME NEW x \in ToSet(s \o t) PROVE x \in ToSet(s) \cup ToSet(t)
  <2>1. PICK i \in 1 .. Len(s) + Len(t) : (s \o t)[i] = x
    BY <1>2, <1>5 DEF ToSet
  <2>2. CASE i <= Len(s)
    BY <1>1, <1>2, <2>1, <2>2 DEF ToSet
  <2>3. CASE ~(i <= Len(s))
    <3>1. i - Len(s) \in 1 .. Len(t) /\ t[i - Len(s)] = x
      BY <1>1, <1>2, <2>1, <2>3
    <3> QED
      BY <1>1, <3>1 DEF ToSet
  <2> QED
    BY <2>2, <2>3
<1> QED
  BY <1>2, <1>3, <1>4, <1>5

(* A sequence with one more element in front. *)
LEMMA FrontElement ==
  ASSUME NEW S, NEW s \in Seq(S), NEW e \in S
  PROVE  /\ <<e>> \o s \in Seq(S) /\ ToSet(<<e>> \o s) = {e} \cup ToSet(s)
         /\ IsInjective(s) /\ e \notin ToSet(s) => IsInjective(<<e>> \o s)
<1>1. /\ <<e>> \in Seq(S) /\ Len(<<e>>) = 1 /\ <<e>>[1] = e /\ Len(s) \in Nat
      /\ DOMAIN s = 1 .. Len(s)
  BY LenProperties
<1>2. ToSet(<<e>>) = {e}
  BY DEF ToSet
<1>3. <<e>> \o s \in Seq(S) /\ ToSet(<<e>> \o s) = {e} \cup ToSet(s)
  <2>1. <<e>> \in Seq(S)
    BY <1>1
  <2>2. <<e>> \o s \in Seq(S) /\ ToSet(<<e>> \o s) = ToSet(<<e>>) \cup ToSet(s)
    BY ONLY <2>1, s \in Seq(S), ConcatElements
  <2> QED
    BY <1>2, <2>2
<1>4. /\ DOMAIN (<<e>> \o s) = 1 .. 1 + Len(s)
      /\ \A i \in 1 .. 1 + Len(s) : (<<e>> \o s)[i] = IF i <= 1 THEN <<e>>[i] ELSE s[i - 1]
  BY <1>1, ConcatProperties, LenProperties
<1>5. ASSUME IsInjective(s), e \notin ToSet(s) PROVE IsInjective(<<e>> \o s)
  <2> DEFINE t == <<e>> \o s
  <2>1. t[1] = e /\ \A i \in 2 .. 1 + Len(s) : i - 1 \in 1 .. Len(s) /\ t[i] = s[i - 1]
    BY <1>1, <1>4
  <2> HIDE DEF t
  <2>2. \A i \in 2 .. 1 + Len(s) : t[i] # e
    BY <1>1, <1>5, <2>1 DEF ToSet
  <2>3. \A i, j \in 2 .. 1 + Len(s) : t[i] = t[j] => i = j
    <3> SUFFICES ASSUME NEW i \in 2 .. 1 + Len(s), NEW j \in 2 .. 1 + Len(s), t[i] = t[j]
                 PROVE  i = j
      OBVIOUS
    <3>1. i - 1 = j - 1
      BY <1>1, <1>5, <2>1 DEF IsInjective
    <3> QED
      BY <3>1
  <2>4. \A i, j \in 1 .. 1 + Len(s) : t[i] = t[j] => i = j
    BY <1>1, <2>1, <2>2, <2>3
  <2> QED
    BY <1>4, <2>4 DEF IsInjective, t
<1> QED
  BY <1>3, <1>5
-----------------------------------------------------------------------------
(* Cutting a sequence, and joining sequences *)

(* A sequence is its first n elements and then the others. *)
LEMMA SplitSeq ==
  ASSUME NEW S, NEW s \in Seq(S), NEW n \in 0 .. Len(s)
  PROVE  /\ SubSeq(s, 1, n) \in Seq(S) /\ Len(SubSeq(s, 1, n)) = n
         /\ \A i \in 1 .. n : SubSeq(s, 1, n)[i] = s[i]
         /\ SubSeq(s, n + 1, Len(s)) \in Seq(S) /\ Len(SubSeq(s, n + 1, Len(s))) = Len(s) - n
         /\ \A i \in 1 .. Len(s) - n : SubSeq(s, n + 1, Len(s))[i] = s[n + i]
         /\ SubSeq(s, 1, n) \o SubSeq(s, n + 1, Len(s)) = s
<1>1. Len(s) \in Nat /\ \A i \in 1 .. Len(s) : s[i] \in S
  BY LenProperties, ElementOfSeq
<1>2. /\ SubSeq(s, 1, n) \in Seq(S) /\ Len(SubSeq(s, 1, n)) = n
      /\ \A i \in 1 .. n : SubSeq(s, 1, n)[i] = s[i]
  BY <1>1, SubSeqProperties
<1>3. /\ SubSeq(s, n + 1, Len(s)) \in Seq(S) /\ Len(SubSeq(s, n + 1, Len(s))) = Len(s) - n
      /\ \A i \in 1 .. Len(s) - n : SubSeq(s, n + 1, Len(s))[i] = s[n + i]
  BY <1>1, SubSeqProperties
<1>4. SubSeq(s, 1, n) \o SubSeq(s, n + 1, Len(s)) = SubSeq(s, 1, Len(s))
  <2>1. 1 \in 1 .. Len(s) + 1 /\ n \in 1 - 1 .. Len(s) /\ Len(s) \in n .. Len(s)
    BY <1>1
  <2> QED
    BY ONLY <2>1, s \in Seq(S), ConcatAdjacentSubSeq
<1>5. SubSeq(s, 1, Len(s)) = s
  BY SubSeqFull
<1> QED
  BY <1>2, <1>3, <1>4, <1>5

(* The recursive function in FlattenSeq, and that there is one and only one. *)
Cat(s, t) == s \o t
Joins(f, q, n) == f = [i \in 1 .. n |-> IF i = 1 THEN q[i] ELSE Cat(f[i - 1], q[i])]

(* There is such a function, ... *)
LEMMA JoinsExists ==
  ASSUME NEW q, NEW n \in Nat
  PROVE  \E f : Joins(f, q, n)
<1> DEFINE S == {m \in Nat : \E f : Joins(f, q, m)}
<1>1. 0 \in S
  <2>1. Joins(<<>>, q, 0)
    BY DEF Joins
  <2> QED
    BY <2>1
<1>2. ASSUME NEW m \in Nat, m \in S PROVE m + 1 \in S
  <2>1. PICK f : Joins(f, q, m)
    BY <1>2
  <2> DEFINE g == [i \in 1 .. m + 1 |-> IF i <= m THEN f[i]
                                        ELSE IF m = 0 THEN q[i] ELSE Cat(f[m], q[i])]
  <2>2. ASSUME NEW i \in 1 .. m + 1 PROVE g[i] = IF i = 1 THEN q[i] ELSE Cat(g[i - 1], q[i])
    <3>1. CASE i <= m
      BY <2>1, <3>1 DEF Joins
    <3>2. CASE i = m + 1
      BY <2>1, <3>2 DEF Joins
    <3> QED
      BY <3>1, <3>2
  <2>3. Joins(g, q, m + 1)
    BY <2>2 DEF Joins
  <2> QED
    BY <2>3
<1> QED
  BY <1>1, <1>2, NatInduct

(* ... one only as far as the sequences agree, ... *)
LEMMA JoinsUnique ==
  ASSUME NEW q, NEW r, NEW m \in Nat, NEW n \in Nat, m <= n, \A i \in 1 .. m : q[i] = r[i],
         NEW f, NEW g, Joins(f, q, m), Joins(g, r, n)
  PROVE  \A i \in 1 .. m : f[i] = g[i]
<1> DEFINE S == {k \in Nat : k \in 1 .. m => f[k] = g[k]}
<1>1. 0 \in S
  OBVIOUS
<1>2. ASSUME NEW k \in Nat, k \in S PROVE k + 1 \in S
  <2>1. CASE k = 0
    BY <2>1 DEF Joins
  <2>2. CASE k > 0
    BY <1>2, <2>2 DEF Joins
  <2> QED
    BY <2>1, <2>2
<1>3. Nat \subseteq S
  BY <1>1, <1>2, NatInduct
<1> QED
  BY <1>3

(* ... and FlattenSeq is its last value. *)
LEMMA FlattenJoins ==
  ASSUME NEW q, Len(q) \in Nat \ {0}
  PROVE  \E f : Joins(f, q, Len(q)) /\ FlattenSeq(q) = f[Len(q)]
<1>1. \E f : Joins(f, q, Len(q))
  BY JoinsExists
<1>2. Joins(CHOOSE f : Joins(f, q, Len(q)), q, Len(q))
  BY <1>1
<1> QED
  BY <1>2 DEF Joins, Cat, FlattenSeq

(* FlattenSeq: of nothing, of one sequence, and of one more. *)
LEMMA FlattenEmpty == FlattenSeq(<<>>) = <<>>
BY DEF FlattenSeq

(* One sequence alone is itself. *)
LEMMA FlattenOne ==
  ASSUME NEW e
  PROVE  FlattenSeq(<<e>>) = e
<1> DEFINE q == <<e>>
<1>0. Len(q) = 1 /\ q[1] = e
  OBVIOUS
<1> HIDE DEF q
<1>2. PICK f : Joins(f, q, 1) /\ FlattenSeq(q) = f[1]
  BY <1>0, FlattenJoins
<1> QED
  BY <1>0, <1>2 DEF Joins, q

(* One more sequence at the end is one more part. *)
LEMMA FlattenAppend ==
  ASSUME NEW T, NEW q \in Seq(Seq(T)), NEW e \in Seq(T)
  PROVE  FlattenSeq(Append(q, e)) = FlattenSeq(q) \o e
<1> DEFINE r == Append(q, e)
           n == Len(q)
<1>1. n \in Nat /\ Len(r) = n + 1 /\ r[n + 1] = e /\ \A i \in 1 .. n : r[i] = q[i]
  BY AppendProperties, LenProperties
<1> HIDE DEF r
<1> HIDE DEF n
<1>2. PICK g : Joins(g, r, n + 1) /\ FlattenSeq(r) = g[n + 1]
  BY <1>1, FlattenJoins
<1>3. CASE n = 0
  <2>1. q = <<>>
    BY <1>3, EmptySeq DEF n
  <2>2. FlattenSeq(r) = e
    BY <1>1, <1>2, <1>3 DEF Joins
  <2> QED
    BY <2>1, <2>2, FlattenEmpty, ConcatEmptySeq DEF r
<1>4. CASE n # 0
  <2>1. PICK f : Joins(f, q, n) /\ FlattenSeq(q) = f[n]
    BY <1>1, <1>4, FlattenJoins DEF n
  <2>2. \A i \in 1 .. n : f[i] = g[i]
    <3>1. n + 1 \in Nat /\ n <= n + 1 /\ \A i \in 1 .. n : q[i] = r[i]
      BY <1>1
    <3>2. Joins(f, q, n) /\ Joins(g, r, n + 1) /\ n \in Nat
      BY <1>1, <1>2, <2>1
    <3> QED
      BY ONLY <3>1, <3>2, JoinsUnique, SMTT(60)
  <2>3. g[n + 1] = Cat(g[n], e) /\ n \in 1 .. n
    BY <1>1, <1>2, <1>4 DEF Joins
  <2> QED
    BY <1>2, <2>1, <2>2, <2>3, Zenon DEF r, Cat
<1> QED
  BY <1>3, <1>4

(* ... of two sequences of sequences, one after the other. *)
LEMMA FlattenConcat ==
  ASSUME NEW T, NEW q \in Seq(Seq(T))
  PROVE  \A r \in Seq(Seq(T)) :
           FlattenSeq(r) \in Seq(T) /\ FlattenSeq(q \o r) = FlattenSeq(q) \o FlattenSeq(r)
<1> DEFINE Holds(q1, r) == FlattenSeq(q1 \o r) = FlattenSeq(q1) \o FlattenSeq(r)
           F == {n \in Nat : \A r \in Seq(Seq(T)) : Len(r) = n => FlattenSeq(r) \in Seq(T)}
           G == {n \in Nat : \A r \in Seq(Seq(T)) : Len(r) = n => Holds(q, r)}
<1>1. \A r \in Seq(Seq(T)) : Len(r) = 0 => r = <<>>
  BY EmptySeq
<1>2. ASSUME NEW n \in Nat, NEW r \in Seq(Seq(T)), Len(r) = n + 1
      PROVE  \E s \in Seq(Seq(T)), e \in Seq(T) : Len(s) = n /\ r = Append(s, e)
  <2>1. r # <<>>
    BY <1>2, EmptySeq
  <2>2. PICK s \in Seq(Seq(T)), e \in Seq(T) : r = Append(s, e)
    BY ONLY <2>1, r \in Seq(Seq(T)), SequenceEmptyOrAppend
  <2> QED
    BY <1>2, <2>2, AppendProperties, LenProperties
<1>3. 0 \in F
  BY <1>1, FlattenEmpty, EmptySeq
<1>4. ASSUME NEW n \in Nat, n \in F PROVE n + 1 \in F
  <2> SUFFICES ASSUME NEW r \in Seq(Seq(T)), Len(r) = n + 1 PROVE FlattenSeq(r) \in Seq(T)
    OBVIOUS
  <2>1. PICK s \in Seq(Seq(T)), e \in Seq(T) : Len(s) = n /\ r = Append(s, e)
    BY <1>2
  <2> QED
    BY <1>4, <2>1, FlattenAppend, ConcatProperties
<1>5. \A r \in Seq(Seq(T)) : FlattenSeq(r) \in Seq(T)
  <2>1. Nat \subseteq F
    BY <1>3, <1>4, NatInduct
  <2> QED
    BY <2>1, LenProperties
<1>6. 0 \in G
  <2>1. q \o <<>> = q /\ FlattenSeq(q) \o <<>> = FlattenSeq(q)
    BY <1>5, ConcatEmptySeq
  <2> QED
    BY <1>1, <2>1, FlattenEmpty
<1>7. ASSUME NEW n \in Nat, n \in G PROVE n + 1 \in G
  <2> SUFFICES ASSUME NEW r \in Seq(Seq(T)), Len(r) = n + 1 PROVE Holds(q, r)
    OBVIOUS
  <2>1. PICK s \in Seq(Seq(T)), e \in Seq(T) : Len(s) = n /\ r = Append(s, e)
    BY <1>2
  <2>2. q \o r = Append(q \o s, e)
    <3>1. /\ r = s \o <<e>> /\ <<e>> \in Seq(Seq(T))
          /\ q \o s \in Seq(Seq(T)) /\ Append(q \o s, e) = (q \o s) \o <<e>>
      BY <2>1, AppendIsConcat, ConcatProperties
    <3>2. (q \o s) \o <<e>> = q \o (s \o <<e>>)
      BY ONLY <3>1, s \in Seq(Seq(T)), q \in Seq(Seq(T)), ConcatAssociative, SMTT(40)
    <3> QED
      BY <3>1, <3>2
  <2>3. FlattenSeq(q \o r) = FlattenSeq(q \o s) \o e
    BY <2>2, FlattenAppend, ConcatProperties
  <2>4. FlattenSeq(q \o s) = FlattenSeq(q) \o FlattenSeq(s)
    BY <1>7, <2>1
  <2>5. FlattenSeq(r) = FlattenSeq(s) \o e
    BY <2>1, FlattenAppend
  <2>6. FlattenSeq(q) \in Seq(T) /\ FlattenSeq(s) \in Seq(T)
    BY <1>5
  <2>7. (FlattenSeq(q) \o FlattenSeq(s)) \o e = FlattenSeq(q) \o (FlattenSeq(s) \o e)
    BY ONLY <2>6, e \in Seq(T), ConcatAssociative, SMTT(40)
  <2> QED
    BY <2>3, <2>4, <2>5, <2>7
<1>8. \A r \in Seq(Seq(T)) : Holds(q, r)
  <2>1. Nat \subseteq G
    BY <1>6, <1>7, NatInduct
  <2> QED
    BY <2>1, LenProperties
<1> QED
  BY <1>5, <1>8

(* ... of the first k sequences and then of the others. *)
LEMMA FlattenSplit ==
  ASSUME NEW T, NEW q \in Seq(Seq(T)), NEW k \in 0 .. Len(q)
  PROVE  /\ SubSeq(q, 1, k) \in Seq(Seq(T)) /\ SubSeq(q, k + 1, Len(q)) \in Seq(Seq(T))
         /\ FlattenSeq(SubSeq(q, 1, k)) \in Seq(T) /\ FlattenSeq(SubSeq(q, k + 1, Len(q))) \in Seq(T)
         /\ FlattenSeq(SubSeq(q, 1, k)) \o FlattenSeq(SubSeq(q, k + 1, Len(q))) = FlattenSeq(q)
<1> DEFINE a == SubSeq(q, 1, k)
           b == SubSeq(q, k + 1, Len(q))
<1>1. a \in Seq(Seq(T)) /\ b \in Seq(Seq(T)) /\ a \o b = q
  BY SplitSeq
<1> HIDE DEF a, b
<1>2. FlattenSeq(b) \in Seq(T) /\ FlattenSeq(a \o b) = FlattenSeq(a) \o FlattenSeq(b)
  BY <1>1, FlattenConcat
<1>3. FlattenSeq(a) \in Seq(T)
  BY <1>1, FlattenConcat
<1>4. FlattenSeq(a) \o FlattenSeq(b) = FlattenSeq(q)
  BY <1>1, <1>2, Zenon
<1> QED
  BY <1>1, <1>2, <1>3, <1>4 DEF a, b

(* Concatenation of three. *)
LEMMA Assoc ==
  ASSUME NEW S, NEW s \in Seq(S), NEW t \in Seq(S), NEW u \in Seq(S)
  PROVE  /\ s \o t \in Seq(S) /\ t \o u \in Seq(S) /\ (s \o t) \o u \in Seq(S)
         /\ (s \o t) \o u = s \o (t \o u)
         /\ s \o <<>> = s /\ <<>> \o s = s
<1>1. s \o t \in Seq(S) /\ t \o u \in Seq(S)
  BY ConcatProperties
<1>2. (s \o t) \o u \in Seq(S)
  BY <1>1, ConcatProperties
<1>3. (s \o t) \o u = s \o (t \o u)
  BY ConcatAssociative
<1>4. s \o <<>> = s /\ <<>> \o s = s
  BY ConcatEmptySeq
<1> QED
  BY <1>1, <1>2, <1>3, <1>4

(* Cutting the front of a sequence leaves what is appended to it alone. *)
LEMMA RestConcat ==
  ASSUME NEW S, NEW s \in Seq(S), NEW t \in Seq(S), NEW n \in 0 .. Len(s)
  PROVE  SubSeq(s \o t, n + 1, Len(s \o t)) = SubSeq(s, n + 1, Len(s)) \o t
<1> DEFINE r == SubSeq(s, n + 1, Len(s))
           u == s \o t
           v == SubSeq(u, n + 1, Len(u))
           x == r \o t
<1>1. /\ r \in Seq(S) /\ Len(r) = Len(s) - n /\ \A i \in 1 .. Len(s) - n : r[i] = s[n + i]
      /\ Len(s) \in Nat /\ Len(t) \in Nat
  BY SplitSeq, LenProperties
<1>2. /\ u \in Seq(S) /\ Len(u) = Len(s) + Len(t)
      /\ \A i \in 1 .. Len(s) + Len(t) : u[i] = IF i <= Len(s) THEN s[i] ELSE t[i - Len(s)]
  BY ConcatProperties
<1> HIDE DEF r, u
<1>3. n \in 0 .. Len(u)
  BY <1>1, <1>2
<1>4. v \in Seq(S) /\ Len(v) = Len(u) - n /\ \A i \in 1 .. Len(u) - n : v[i] = u[n + i]
  BY <1>2, <1>3, SplitSeq
<1>5. /\ x \in Seq(S) /\ Len(x) = Len(r) + Len(t)
      /\ \A i \in 1 .. Len(r) + Len(t) : x[i] = IF i <= Len(r) THEN r[i] ELSE t[i - Len(r)]
  BY <1>1, ConcatProperties
<1> HIDE DEF v, x
<1>6. Len(v) = Len(x)
  BY <1>1, <1>2, <1>4, <1>5
<1>7. ASSUME NEW i \in 1 .. Len(v) PROVE v[i] = x[i]
  <2>1. CASE i <= Len(r)
    BY <1>1, <1>2, <1>4, <1>5, <1>6, <2>1
  <2>2. CASE i > Len(r)
    <3>1. (n + i) - Len(s) = i - Len(r) /\ n + i > Len(s) /\ n + i \in 1 .. Len(s) + Len(t)
          /\ i \in 1 .. Len(u) - n /\ i \in 1 .. Len(r) + Len(t)
      BY <1>1, <1>2, <1>4, <1>5, <1>6, <2>2
    <3>2. v[i] = u[n + i] /\ u[n + i] = t[(n + i) - Len(s)] /\ x[i] = t[i - Len(r)]
      BY <1>1, <1>2, <1>4, <1>5, <2>2, <3>1
    <3> QED
      BY <3>1, <3>2
  <2> QED
    BY <1>1, <1>4, <2>1, <2>2
<1>8. v = x
  BY <1>4, <1>5, <1>6, <1>7, SeqEqual
<1> QED
  BY <1>8 DEF v, x, u, r

(* The first of the sequences that FlattenSeq joins. *)
LEMMA FlattenFront ==
  ASSUME NEW T, NEW q \in Seq(Seq(T)), NEW k \in 0 .. Len(q) - 1
  PROVE  /\ q[k + 1] \in Seq(T)
         /\ FlattenSeq(SubSeq(q, k + 1, Len(q))) = q[k + 1] \o FlattenSeq(SubSeq(q, (k + 1) + 1, Len(q)))
<1> DEFINE e == q[k + 1]
           b == SubSeq(q, (k + 1) + 1, Len(q))
<1>1. Len(q) \in Nat /\ \A i \in 1 .. Len(q) : q[i] \in Seq(T)
  BY LenProperties, ElementOfSeq
<1>2. k + 1 \in 1 .. Len(q) /\ Len(q) \in k + 1 .. Len(q) /\ k + 1 \in 0 .. Len(q)
  BY <1>1
<1>3. e \in Seq(T) /\ b \in Seq(Seq(T))
  BY <1>1, <1>2, SplitSeq
<1>4. SubSeq(q, k + 1, Len(q)) = <<e>> \o b
  BY <1>2, SubSeqRecursiveFirst
<1> HIDE DEF e, b
<1>5. FlattenSeq(<<e>> \o b) = e \o FlattenSeq(b)
  <2>1. <<e>> \in Seq(Seq(T))
    BY <1>3
  <2>2. FlattenSeq(<<e>> \o b) = FlattenSeq(<<e>>) \o FlattenSeq(b)
    BY <1>3, <2>1, FlattenConcat
  <2>3. FlattenSeq(<<e>>) = e
    BY FlattenOne
  <2> QED
    BY <2>2, <2>3, Zenon
<1>6. FlattenSeq(SubSeq(q, k + 1, Len(q))) = e \o FlattenSeq(b)
  BY <1>4, <1>5, Zenon
<1> QED
  BY <1>3, <1>6 DEF e, b

(* ... in terms of Cat, of which the provers see no more than this. *)
LEMMA CatAssoc ==
  \A S : \A s, t, u \in Seq(S) :
    /\ Cat(s, t) \in Seq(S) /\ Cat(Cat(s, t), u) = Cat(s, Cat(t, u))
    /\ Cat(s, <<>>) = s /\ Cat(<<>>, s) = s
<1> SUFFICES ASSUME NEW S, NEW s \in Seq(S), NEW t \in Seq(S), NEW u \in Seq(S)
             PROVE  /\ Cat(s, t) \in Seq(S) /\ Cat(Cat(s, t), u) = Cat(s, Cat(t, u))
                    /\ Cat(s, <<>>) = s /\ Cat(<<>>, s) = s
  OBVIOUS
<1>1. /\ s \o t \in Seq(S) /\ (s \o t) \o u = s \o (t \o u)
      /\ s \o <<>> = s /\ <<>> \o s = s
  BY Assoc
<1> QED
  BY <1>1, Zenon DEF Cat
=============================================================================
