------------------------------ MODULE SeqLemmas ------------------------------
(***************************************************************************)
(* What inserting into a sequence, removing from it, dropping its last     *)
(* element and adding to its end do to its length and its elements, to     *)
(* their order and to their having a number each, and what the least and   *)
(* the greatest of a set of numbers are.                                   *)
(***************************************************************************)
EXTENDS Integers, Sequences, SequencesExt, SequenceTheorems, WellFoundedInduction, TLAPS

(* A stretch of a sequence that lies within it.                            *)
LEMMA Stretch ==
  ASSUME NEW S, NEW s \in Seq(S), NEW m \in 1..(Len(s) + 1), NEW n \in 0..Len(s),
         m <= n + 1
  PROVE  /\ SubSeq(s, m, n) \in Seq(S)
         /\ Len(SubSeq(s, m, n)) = n - m + 1
         /\ \A i \in 1..(n - m + 1) : SubSeq(s, m, n)[i] = s[m + i - 1]
<1>1. m \in Int /\ n \in Int /\ Len(s) \in Nat
  OBVIOUS
<1>2. \A i \in m..n : s[i] \in S
  <2> SUFFICES ASSUME NEW i \in m..n PROVE s[i] \in S
    OBVIOUS
  <2>1. i \in 1..Len(s)
    BY <1>1
  <2> QED
    BY <2>1, ElementOfSeq
<1>3. /\ SubSeq(s, m, n) \in Seq(S)
      /\ Len(SubSeq(s, m, n)) = IF m <= n THEN n - m + 1 ELSE 0
      /\ \A i \in 1..(n - m + 1) : SubSeq(s, m, n)[i] = s[m + i - 1]
  BY <1>1, <1>2, SubSeqProperties
<1>4. (IF m <= n THEN n - m + 1 ELSE 0) = n - m + 1
  BY <1>1
<1> QED
  BY <1>3, <1>4

(* t is s with e put in at place p, the elements from p on shifted by one. *)
IsInsertion(t, s, p, e) ==
  /\ Len(t) = Len(s) + 1
  /\ \A i \in 1..(Len(s) + 1) :
       t[i] = IF i < p THEN s[i] ELSE IF i = p THEN e ELSE s[i - 1]

(* InsertAt shifts the elements from p on by one place.                    *)
LEMMA InsertAtProperties ==
  ASSUME NEW S, NEW s \in Seq(S), NEW p \in 1..(Len(s) + 1), NEW e \in S,
         NEW t, t = InsertAt(s, p, e)
  PROVE  t \in Seq(S) /\ IsInsertion(t, s, p, e)
<1> DEFINE a == SubSeq(s, 1, p - 1)
           b == SubSeq(s, p, Len(s))
           ae == Append(a, e)
           r == ae \o b
<1>0. Len(s) \in Nat /\ p \in Nat /\ 1 <= p /\ p <= Len(s) + 1
  OBVIOUS
<1>1. a \in Seq(S) /\ Len(a) = p - 1 /\ \A i \in 1..(p - 1) : a[i] = s[i]
  <2>1. p - 1 \in 0..Len(s) /\ 1 \in 1..(Len(s) + 1) /\ 1 <= (p - 1) + 1
    BY <1>0
  <2>2. /\ a \in Seq(S) /\ Len(a) = (p - 1) - 1 + 1
        /\ \A i \in 1..((p - 1) - 1 + 1) : a[i] = s[1 + i - 1]
    BY <2>1, Stretch
  <2> HIDE DEF a
  <2> QED
    BY <1>0, <2>2
<1>2. /\ b \in Seq(S) /\ Len(b) = Len(s) - p + 1
      /\ \A i \in 1..(Len(s) - p + 1) : b[i] = s[p + i - 1]
  BY <1>0, Stretch
<1>3. t = r
  <2>1. a \o <<e>> = ae
    BY <1>1, AppendIsConcat
  <2> QED
    BY <2>1 DEF InsertAt
<1> HIDE DEF a, b
<1>4. /\ ae \in Seq(S) /\ Len(ae) = p
      /\ \A i \in 1..(p - 1) : ae[i] = s[i]
      /\ ae[p] = e
  <2>1. /\ ae \in Seq(S) /\ Len(ae) = Len(a) + 1
        /\ \A i \in 1..Len(a) : ae[i] = a[i]
        /\ ae[Len(a) + 1] = e
    BY <1>1, AppendProperties
  <2> HIDE DEF ae
  <2>2. Len(a) + 1 = p /\ Len(a) = p - 1
    BY <1>0, <1>1
  <2> QED
    BY <2>1, <2>2, <1>1
<1> HIDE DEF ae
<1>5. /\ r \in Seq(S) /\ Len(r) = Len(ae) + Len(b)
      /\ \A i \in 1..(Len(ae) + Len(b)) :
           r[i] = IF i <= Len(ae) THEN ae[i] ELSE b[i - Len(ae)]
  BY <1>2, <1>4, ConcatProperties
<1> HIDE DEF r
<1>6. Len(ae) + Len(b) = Len(s) + 1
  BY <1>0, <1>2, <1>4
<1>7. ASSUME NEW i \in 1..(Len(s) + 1)
      PROVE  r[i] = IF i < p THEN s[i] ELSE IF i = p THEN e ELSE s[i - 1]
  <2>1. r[i] = IF i <= p THEN ae[i] ELSE b[i - p]
    BY <1>4, <1>5, <1>6
  <2>2. CASE i < p
    <3>1. i \in 1..(p - 1) /\ i <= p
      BY <1>0, <2>2
    <3> QED
      BY <2>1, <2>2, <3>1, <1>4
  <2>3. CASE i = p
    BY <2>1, <2>3, <1>0, <1>4
  <2>4. CASE i > p
    <3>1. i - p \in 1..(Len(s) - p + 1) /\ p + (i - p) - 1 = i - 1
      BY <1>0, <2>4
    <3>2. b[i - p] = s[i - 1]
      BY <1>2, <3>1
    <3>3. ~(i <= p) /\ ~(i < p) /\ i # p
      BY <1>0, <2>4
    <3> QED
      BY <2>1, <3>2, <3>3
  <2> QED
    BY <2>2, <2>3, <2>4, <1>0
<1> QED
  BY <1>3, <1>5, <1>6, <1>7 DEF IsInsertion

(* RemoveAt shifts the elements after p back by one place.                 *)
LEMMA RemoveAtProperties ==
  ASSUME NEW S, NEW s \in Seq(S), NEW p \in 1..Len(s)
  PROVE  /\ RemoveAt(s, p) \in Seq(S)
         /\ Len(RemoveAt(s, p)) = Len(s) - 1
         /\ \A i \in 1..(Len(s) - 1) :
              RemoveAt(s, p)[i] = IF i < p THEN s[i] ELSE s[i + 1]
<1> DEFINE a == SubSeq(s, 1, p - 1)
           b == SubSeq(s, p + 1, Len(s))
           r == a \o b
<1>0. Len(s) \in Nat /\ p \in Nat /\ 1 <= p /\ p <= Len(s)
  OBVIOUS
<1>1. a \in Seq(S) /\ Len(a) = p - 1 /\ \A i \in 1..(p - 1) : a[i] = s[i]
  <2>1. p - 1 \in 0..Len(s) /\ 1 \in 1..(Len(s) + 1) /\ 1 <= (p - 1) + 1
    BY <1>0
  <2>2. /\ a \in Seq(S) /\ Len(a) = (p - 1) - 1 + 1
        /\ \A i \in 1..((p - 1) - 1 + 1) : a[i] = s[1 + i - 1]
    BY <2>1, Stretch
  <2> HIDE DEF a
  <2> QED
    BY <1>0, <2>2
<1>2. b \in Seq(S) /\ Len(b) = Len(s) - p /\ \A i \in 1..(Len(s) - p) : b[i] = s[p + i]
  <2>1. p + 1 \in 1..(Len(s) + 1) /\ Len(s) \in 0..Len(s) /\ p + 1 <= Len(s) + 1
    BY <1>0
  <2>2. /\ b \in Seq(S) /\ Len(b) = Len(s) - (p + 1) + 1
        /\ \A i \in 1..(Len(s) - (p + 1) + 1) : b[i] = s[(p + 1) + i - 1]
    BY <2>1, Stretch
  <2> HIDE DEF b
  <2> QED
    BY <1>0, <2>2
<1>3. RemoveAt(s, p) = r
  BY DEF RemoveAt
<1> HIDE DEF a, b
<1>4. /\ r \in Seq(S) /\ Len(r) = Len(a) + Len(b)
      /\ \A i \in 1..(Len(a) + Len(b)) :
           r[i] = IF i <= Len(a) THEN a[i] ELSE b[i - Len(a)]
  BY <1>1, <1>2, ConcatProperties
<1> HIDE DEF r
<1>5. Len(a) + Len(b) = Len(s) - 1 /\ Len(a) = p - 1
  BY <1>0, <1>1, <1>2
<1>6. ASSUME NEW i \in 1..(Len(s) - 1)
      PROVE  r[i] = IF i < p THEN s[i] ELSE s[i + 1]
  <2>1. r[i] = IF i <= p - 1 THEN a[i] ELSE b[i - (p - 1)]
    BY <1>4, <1>5
  <2>2. CASE i < p
    <3>1. i \in 1..(p - 1) /\ i <= p - 1
      BY <1>0, <2>2
    <3> QED
      BY <2>1, <2>2, <3>1, <1>1
  <2>3. CASE i >= p
    <3>1. i - (p - 1) \in 1..(Len(s) - p) /\ p + (i - (p - 1)) = i + 1
      BY <1>0, <2>3
    <3>2. b[i - (p - 1)] = s[i + 1]
      BY <1>2, <3>1
    <3>3. ~(i <= p - 1) /\ ~(i < p)
      BY <1>0, <2>3
    <3> QED
      BY <2>1, <3>2, <3>3
  <2> QED
    BY <2>2, <2>3, <1>0
<1> QED
  BY <1>3, <1>4, <1>5, <1>6

(* Front drops the last element.                                           *)
LEMMA FrontProperties ==
  ASSUME NEW S, NEW s \in Seq(S), s # <<>>
  PROVE  /\ Front(s) \in Seq(S)
         /\ Len(Front(s)) = Len(s) - 1
         /\ \A i \in 1..(Len(s) - 1) : Front(s)[i] = s[i]
<1> DEFINE r == SubSeq(s, 1, Len(s) - 1)
<1>1. Len(s) \in Nat \ {0}
  BY EmptySeq
<1>2. Front(s) = r
  BY DEF Front
<1>3. Len(s) - 1 \in 0..Len(s) /\ 1 \in 1..(Len(s) + 1) /\ 1 <= (Len(s) - 1) + 1
  BY <1>1
<1>4. /\ r \in Seq(S) /\ Len(r) = (Len(s) - 1) - 1 + 1
      /\ \A i \in 1..((Len(s) - 1) - 1 + 1) : r[i] = s[1 + i - 1]
  BY <1>3, Stretch
<1> HIDE DEF r
<1> QED
  BY <1>1, <1>2, <1>4

(* What was appended last is the last element.                             *)
LEMMA LastOfAppend ==
  ASSUME NEW S, NEW s \in Seq(S), NEW e \in S
  PROVE  /\ Append(s, e) \in Seq(S) /\ Len(Append(s, e)) = Len(s) + 1
         /\ Append(s, e) # <<>> /\ Last(Append(s, e)) = e
<1> DEFINE t == Append(s, e)
<1>1. t \in Seq(S) /\ Len(t) = Len(s) + 1 /\ t[Len(s) + 1] = e
  BY AppendProperties
<1>2. Last(t) = t[Len(t)]
  BY DEF Last
<1> HIDE DEF t
<1>3. t # <<>>
  BY <1>1, EmptySeq, LenProperties
<1> QED
  BY <1>1, <1>2, <1>3 DEF t

(* Appending adds an element to those of a sequence.                       *)
LEMMA ToSetOfAppend ==
  ASSUME NEW S, NEW s \in Seq(S), NEW e \in S
  PROVE  ToSet(Append(s, e)) = ToSet(s) \cup {e}
<1> DEFINE t == Append(s, e)
<1>1. /\ t \in Seq(S) /\ Len(t) = Len(s) + 1
      /\ \A i \in 1..Len(s) : t[i] = s[i]
      /\ t[Len(s) + 1] = e
  BY AppendProperties
<1> HIDE DEF t
<1>2. DOMAIN t = 1..(Len(s) + 1) /\ DOMAIN s = 1..Len(s) /\ Len(s) \in Nat
  BY <1>1, LenProperties
<1>3. ASSUME NEW i \in DOMAIN t PROVE t[i] \in ToSet(s) \cup {e}
  <2>1. CASE i \in 1..Len(s)
    BY <1>1, <1>2, <2>1 DEF ToSet
  <2>2. CASE i = Len(s) + 1
    BY <1>1, <2>2
  <2> QED
    BY <1>2, <2>1, <2>2
<1>4. ASSUME NEW i \in DOMAIN s PROVE s[i] \in ToSet(t)
  <2>1. i \in DOMAIN t /\ t[i] = s[i]
    BY <1>1, <1>2
  <2> QED
    BY <2>1 DEF ToSet
<1>5. e \in ToSet(t)
  <2>1. Len(s) + 1 \in DOMAIN t
    BY <1>2
  <2> QED
    BY <2>1, <1>1 DEF ToSet
<1>6. ToSet(t) = ToSet(s) \cup {e}
  BY <1>3, <1>4, <1>5 DEF ToSet
<1> QED
  BY <1>6 DEF t

(* A sequence in strict order, up to m, stays in it with a larger number   *)
(* at its end.                                                             *)
LEMMA IncreasingAppend ==
  ASSUME NEW s \in Seq(Nat), NEW m \in Nat, NEW e \in Nat, m < e,
         \A i \in DOMAIN s : s[i] <= m,
         \A i, j \in DOMAIN s : i < j => s[i] < s[j]
  PROVE  /\ Append(s, e) \in Seq(Nat) /\ \A i \in DOMAIN Append(s, e) : Append(s, e)[i] <= e
         /\ \A i, j \in DOMAIN Append(s, e) : i < j => Append(s, e)[i] < Append(s, e)[j]
<1> DEFINE t == Append(s, e)
<1>1. /\ t \in Seq(Nat) /\ Len(t) = Len(s) + 1
      /\ \A i \in 1..Len(s) : t[i] = s[i]
      /\ t[Len(s) + 1] = e
  BY AppendProperties
<1> HIDE DEF t
<1>2. DOMAIN t = 1..(Len(s) + 1) /\ DOMAIN s = 1..Len(s) /\ Len(s) \in Nat
  BY <1>1, LenProperties
<1>3. \A i \in 1..Len(s) : s[i] \in Nat
  BY ElementOfSeq
<1>4. \A i \in 1..Len(s) : t[i] < e
  <2> SUFFICES ASSUME NEW i \in 1..Len(s) PROVE t[i] < e
    OBVIOUS
  <2>1. t[i] = s[i] /\ s[i] \in Nat
    BY <1>1, <1>3
  <2>2. s[i] <= m
    BY <1>2
  <2> QED
    BY <2>1, <2>2
<1>5. \A i \in DOMAIN t : t[i] <= e
  <2>1. \A i \in 1..Len(s) : t[i] \in Nat
    BY <1>1, <1>3
  <2> QED
    BY <1>1, <1>2, <1>4, <2>1, SMTT(30)
<1>6. ASSUME NEW i \in DOMAIN t, NEW j \in DOMAIN t, i < j
      PROVE  t[i] < t[j]
  <2>1. i \in 1..Len(s)
    BY <1>2, <1>6
  <2>2. CASE j \in 1..Len(s)
    BY <1>1, <1>2, <1>6, <2>1, <2>2
  <2>3. CASE j = Len(s) + 1
    BY <1>1, <1>4, <2>1, <2>3
  <2> QED
    BY <1>2, <2>2, <2>3
<1> QED
  BY <1>1, <1>5, <1>6 DEF t

(* An element may be appended before or after concatenating.               *)
LEMMA ConcatAppend ==
  ASSUME NEW S, NEW r \in Seq(S), NEW q \in Seq(S), NEW e \in S
  PROVE  r \o Append(q, e) = Append(r \o q, e)
<1>1. Append(q, e) = q \o <<e>> /\ <<e>> \in Seq(S)
  BY AppendIsConcat
<1>2. r \o q \in Seq(S)
  BY ConcatProperties
<1>3. Append(r \o q, e) = (r \o q) \o <<e>>
  BY <1>2, AppendIsConcat
<1> QED
  BY <1>1, <1>3, ConcatAssociative

(* What is added to a sequence n times is what its new places hold.        *)
LEMMA ConcatRepeated ==
  ASSUME NEW S, NEW s \in Seq(S), NEW e \in S, NEW n \in Nat,
         NEW t, t = s \o [i \in 1..n |-> e]
  PROVE  /\ t \in Seq(S) /\ Len(t) = Len(s) + n
         /\ \A i \in (Len(s) + 1)..Len(t) : t[i] = e
<1> DEFINE r == [i \in 1..n |-> e]
<1>1. r \in Seq(S) /\ Len(r) = n
  <2>1. r \in [1..n -> S] /\ DOMAIN r = 1..n
    OBVIOUS
  <2>2. r \in Seq(S)
    BY <2>1, SeqDef
  <2> QED
    BY <2>1, <2>2, LenProperties
<1>2. \A i \in 1..n : r[i] = e
  OBVIOUS
<1> HIDE DEF r
<1>3. /\ t \in Seq(S) /\ Len(t) = Len(s) + Len(r)
      /\ \A i \in 1..(Len(s) + Len(r)) : t[i] = IF i <= Len(s) THEN s[i] ELSE r[i - Len(s)]
  BY <1>1, ConcatProperties DEF r
<1>4. ASSUME NEW i \in (Len(s) + 1)..Len(t)
      PROVE  t[i] = e
  <2>1. Len(s) \in Nat
    BY LenProperties
  <2>2. i \in 1..(Len(s) + Len(r)) /\ ~(i <= Len(s)) /\ i - Len(s) \in 1..n
    BY <2>1, <1>1, <1>3
  <2> QED
    BY <2>2, <1>2, <1>3
<1> QED
  BY <1>1, <1>3, <1>4

(* The head of the second of two sequences moves to the end of the first.  *)
LEMMA ConcatHeadTail ==
  ASSUME NEW S, NEW r \in Seq(S), NEW q \in Seq(S), q # <<>>
  PROVE  /\ Append(r, Head(q)) \o Tail(q) = r \o q
         /\ Head(q) \in S /\ Tail(q) \in Seq(S)
<1>1. Head(q) \in S /\ Tail(q) \in Seq(S) /\ <<Head(q)>> \in Seq(S)
  BY HeadTailProperties
<1>2. Append(r, Head(q)) = r \o <<Head(q)>>
  BY <1>1, AppendIsConcat
<1>3. (r \o <<Head(q)>>) \o Tail(q) = r \o (<<Head(q)>> \o Tail(q))
  BY <1>1, ConcatAssociative
<1>4. <<Head(q)>> \o Tail(q) = q
  <2>1. q = SubSeq(q, 1, Len(q)) /\ Tail(q) = SubSeq(q, 2, Len(q)) /\ Head(q) = q[1]
    BY SubSeqFull, TailIsSubSeq
  <2>2. 1 \in 1..Len(q) /\ Len(q) \in 1..Len(q)
    BY EmptySeq
  <2>3. SubSeq(q, 1, Len(q)) = <<q[1]>> \o SubSeq(q, 2, Len(q))
    BY <2>2, SubSeqRecursiveFirst
  <2> QED
    BY <2>1, <2>3
<1> QED
  BY <1>1, <1>2, <1>3, <1>4

-----------------------------------------------------------------------------
(* A set of natural numbers that is not empty has a least element.         *)
LEMMA MinProperties ==
  ASSUME NEW T \in SUBSET Nat, T # {}
  PROVE  Min(T) \in T /\ \A y \in T : Min(T) <= y
<1> DEFINE R == {ss \in Nat \X Nat : ss[1] < ss[2]}
<1>1. IsWellFoundedOn(R, Nat)
  BY NatLessThanWellFounded DEF OpToRel
<1>2. PICK x \in T : \A y \in T : <<y, x>> \notin R
  <2> HIDE DEF R
  <2> QED
    BY <1>1, WFMin
<1>3. \A y \in T : x <= y
  <2> SUFFICES ASSUME NEW y \in T PROVE x <= y
    OBVIOUS
  <2>1. x \in Nat /\ y \in Nat
    OBVIOUS
  <2>2. ~(y < x)
    BY <2>1, <1>2
  <2> QED
    BY <2>1, <2>2
<1> QED
  BY <1>3 DEF Min

(* The number that is in a set and not above any other of it is its least. *)
LEMMA MinIs ==
  ASSUME NEW T \in SUBSET Nat, NEW x \in T, \A y \in T : x <= y
  PROVE  Min(T) = x
<1>1. Min(T) \in T /\ \A y \in T : Min(T) <= y
  BY DEF Min
<1>2. Min(T) \in Nat /\ x \in Nat
  BY <1>1
<1> QED
  BY <1>1, <1>2

(* A set of natural numbers up to n that is not empty has a greatest one.  *)
LEMMA MaxProperties ==
  ASSUME NEW n \in Nat, NEW T \in SUBSET (0..n), T # {}
  PROVE  Max(T) \in T /\ \A y \in T : y <= Max(T)
<1> DEFINE D == {n - y : y \in T}
<1>0. \A y \in T : y \in 0..n /\ n - y \in Nat
  OBVIOUS
<1>1. D \in SUBSET Nat /\ D # {}
  BY <1>0
<1>2. Min(D) \in D /\ \A d \in D : Min(D) <= d
  <2> HIDE DEF D
  <2> QED
    BY <1>1, MinProperties
<1>3. PICK x \in T : Min(D) = n - x
  BY <1>2
<1>4. \A y \in T : n - x <= n - y
  BY <1>2, <1>3
<1>5. \A y \in T : y <= x
  BY <1>0, <1>4
<1> QED
  BY <1>5 DEF Max

(* The number that is in a set and not below any other of it is its        *)
(* greatest.                                                               *)
LEMMA MaxIs ==
  ASSUME NEW T \in SUBSET Nat, NEW x \in T, \A y \in T : y <= x
  PROVE  Max(T) = x
<1>1. Max(T) \in T /\ \A y \in T : Max(T) >= y
  BY DEF Max
<1>2. Max(T) \in Nat /\ x \in Nat
  BY <1>1
<1> QED
  BY <1>1, <1>2

(* The entries of a sequence whose entries have numbers of their own.      *)
Distinct(s) == \A i, j \in DOMAIN s : s[i].h = s[j].h => i = j

(* Inserting an entry with a new number adds it to the others.             *)
LEMMA DistinctInsert ==
  ASSUME NEW S, NEW s \in Seq(S), Distinct(s), NEW p \in 1..(Len(s) + 1), NEW e \in S,
         \A x \in ToSet(s) : x.h # e.h
  PROVE  /\ InsertAt(s, p, e) \in Seq(S) /\ Distinct(InsertAt(s, p, e))
         /\ ToSet(InsertAt(s, p, e)) = ToSet(s) \cup {e}
<1> DEFINE t == InsertAt(s, p, e)
           n == Len(s)
<1>1. t \in Seq(S) /\ IsInsertion(t, s, p, e)
  BY InsertAtProperties
<1>2. n \in Nat /\ DOMAIN s = 1..n /\ DOMAIN t = 1..(n + 1) /\ p \in 1..(n + 1)
  BY <1>1, LenProperties DEF IsInsertion
<1>3. \A i \in 1..(n + 1) : t[i] = IF i < p THEN s[i] ELSE IF i = p THEN e ELSE s[i - 1]
  BY <1>1 DEF IsInsertion
<1> SUFFICES t \in Seq(S) /\ Distinct(t) /\ ToSet(t) = ToSet(s) \cup {e}
  OBVIOUS
<1> HIDE DEF t, n
<1>4. \A i \in 1..n : s[i].h # e.h
  BY <1>2 DEF ToSet
<1>5. \A i, j \in 1..n : s[i].h = s[j].h => i = j
  BY <1>2 DEF Distinct
<1> DEFINE Old(i) == IF i < p THEN i ELSE i - 1
<1>6. \A i \in 1..(n + 1) : i # p => Old(i) \in 1..n /\ t[i] = s[Old(i)]
  BY <1>2, <1>3
<1>7. \A i, j \in 1..(n + 1) : i # p /\ j # p /\ Old(i) = Old(j) => i = j
  BY <1>2
<1>8. t[p] = e
  BY <1>2, <1>3
<1>9. \A j \in 1..n : \E i \in 1..(n + 1) : i # p /\ Old(i) = j
  <2> SUFFICES ASSUME NEW j \in 1..n PROVE \E i \in 1..(n + 1) : i # p /\ Old(i) = j
    OBVIOUS
  <2>1. CASE j < p
    <3>1. j \in 1..(n + 1) /\ j # p /\ Old(j) = j
      BY <1>2, <2>1
    <3> QED
      BY <3>1
  <2>2. CASE ~(j < p)
    <3>1. j + 1 \in 1..(n + 1) /\ j + 1 # p /\ Old(j + 1) = j
      BY <1>2, <2>2
    <3> QED
      BY <3>1
  <2> QED
    BY <2>1, <2>2
<1> HIDE DEF Old
<1>10. Distinct(t)
  <2> SUFFICES ASSUME NEW i \in 1..(n + 1), NEW j \in 1..(n + 1), t[i].h = t[j].h
               PROVE  i = j
    BY <1>2 DEF Distinct
  <2> QED
    BY <1>4, <1>5, <1>6, <1>7, <1>8
<1>11. ToSet(t) = ToSet(s) \cup {e}
  <2>1. \A i \in 1..(n + 1) : t[i] \in ToSet(s) \cup {e}
    BY <1>2, <1>6, <1>8 DEF ToSet
  <2>2. \A j \in 1..n : \E i \in 1..(n + 1) : t[i] = s[j]
    BY <1>6, <1>9
  <2>3. p \in 1..(n + 1)
    BY <1>2
  <2>4. ToSet(t) = {t[i] : i \in 1..(n + 1)} /\ ToSet(s) = {s[i] : i \in 1..n}
    BY <1>2 DEF ToSet
  <2>5. \A x \in ToSet(t) : x \in ToSet(s) \cup {e}
    BY <2>1, <2>4
  <2>6. \A x \in ToSet(s) : x \in ToSet(t)
    BY <2>2, <2>4
  <2>7. e \in ToSet(t)
    BY <1>8, <2>3, <2>4
  <2> QED
    BY <2>5, <2>6, <2>7
<1> QED
  BY <1>1, <1>10, <1>11 DEF t

(* Removing an entry leaves the others.                                    *)
LEMMA DistinctRemove ==
  ASSUME NEW S, NEW s \in Seq(S), Distinct(s), NEW p \in 1..Len(s)
  PROVE  /\ RemoveAt(s, p) \in Seq(S) /\ Distinct(RemoveAt(s, p))
         /\ ToSet(RemoveAt(s, p)) = ToSet(s) \ {s[p]}
<1> DEFINE t == RemoveAt(s, p)
           n == Len(s)
<1>1. /\ t \in Seq(S) /\ Len(t) = n - 1
      /\ \A i \in 1..(n - 1) : t[i] = IF i < p THEN s[i] ELSE s[i + 1]
  BY RemoveAtProperties
<1> SUFFICES t \in Seq(S) /\ Distinct(t) /\ ToSet(t) = ToSet(s) \ {s[p]}
  OBVIOUS
<1>2. n \in Nat /\ DOMAIN s = 1..n /\ DOMAIN t = 1..(n - 1) /\ p \in 1..n
  BY <1>1, LenProperties
<1> HIDE DEF t, n
<1>3. \A i, j \in 1..n : s[i].h = s[j].h => i = j
  BY <1>2 DEF Distinct
<1> DEFINE Old(i) == IF i < p THEN i ELSE i + 1
<1>4. \A i \in 1..(n - 1) : Old(i) \in 1..n /\ Old(i) # p /\ t[i] = s[Old(i)]
  BY <1>1, <1>2
<1>5. \A i, j \in 1..(n - 1) : Old(i) = Old(j) => i = j
  BY <1>2
<1>6. \A j \in 1..n : j # p => \E i \in 1..(n - 1) : Old(i) = j
  <2> SUFFICES ASSUME NEW j \in 1..n, j # p PROVE \E i \in 1..(n - 1) : Old(i) = j
    OBVIOUS
  <2>1. CASE j < p
    <3>1. j \in 1..(n - 1) /\ Old(j) = j
      BY <1>2, <2>1
    <3> QED
      BY <3>1
  <2>2. CASE ~(j < p)
    <3>1. j - 1 \in 1..(n - 1) /\ Old(j - 1) = j
      BY <1>2, <2>2
    <3> QED
      BY <3>1
  <2> QED
    BY <2>1, <2>2
<1> HIDE DEF Old
<1>7. Distinct(t)
  BY <1>2, <1>3, <1>4, <1>5 DEF Distinct
<1>8. \A i \in 1..(n - 1) : t[i] \in ToSet(s) /\ t[i] # s[p]
  BY <1>2, <1>3, <1>4 DEF ToSet
<1>9. \A j \in 1..n : s[j] # s[p] => \E i \in 1..(n - 1) : t[i] = s[j]
  BY <1>4, <1>6
<1>10. ToSet(t) = ToSet(s) \ {s[p]}
  <2>1. ToSet(t) = {t[i] : i \in 1..(n - 1)} /\ ToSet(s) = {s[i] : i \in 1..n}
    BY <1>2 DEF ToSet
  <2>2. \A x \in ToSet(t) : x \in ToSet(s) \ {s[p]}
    BY <1>8, <2>1
  <2>3. \A x \in ToSet(s) \ {s[p]} : x \in ToSet(t)
    BY <1>9, <2>1
  <2> QED
    BY <2>2, <2>3
<1> QED
  BY <1>1, <1>7, <1>10 DEF t

LEMMA DistinctTail ==
  ASSUME NEW S, NEW s \in Seq(S), Distinct(s), s # <<>>
  PROVE  /\ Tail(s) \in Seq(S) /\ Distinct(Tail(s)) /\ Head(s) \in ToSet(s)
         /\ ToSet(Tail(s)) = ToSet(s) \ {Head(s)}
<1> DEFINE t == Tail(s)
           n == Len(s)
<1>1. /\ t \in Seq(S) /\ Len(t) = n - 1 /\ Head(s) = s[1]
      /\ \A i \in 1..Len(t) : t[i] = s[i + 1]
  BY HeadTailProperties
<1>2. n \in Nat \ {0} /\ DOMAIN s = 1..n /\ DOMAIN t = 1..(n - 1)
  BY <1>1, LenProperties, EmptySeq
<1> SUFFICES t \in Seq(S) /\ Distinct(t) /\ s[1] \in ToSet(s) /\ ToSet(t) = ToSet(s) \ {s[1]}
  BY <1>1
<1>3. \A i \in 1..(n - 1) : t[i] = s[i + 1] /\ i + 1 \in 1..n /\ i + 1 # 1
  BY <1>1, <1>2
<1> HIDE DEF t, n
<1>4. \A i, j \in 1..n : s[i].h = s[j].h => i = j
  BY <1>2 DEF Distinct
<1>5. \A i, j \in 1..(n - 1) : i + 1 = j + 1 => i = j
  BY <1>2
<1>6. Distinct(t)
  BY <1>2, <1>3, <1>4, <1>5 DEF Distinct
<1>7. 1 \in 1..n /\ \A j \in 1..n : j # 1 => j - 1 \in 1..(n - 1) /\ (j - 1) + 1 = j
  BY <1>2
<1>8. \A i \in 1..(n - 1) : t[i] \in ToSet(s) /\ t[i] # s[1]
  BY <1>2, <1>3, <1>4, <1>7 DEF ToSet
<1>9. \A j \in 1..n : j # 1 => t[j - 1] = s[j] /\ j - 1 \in 1..(n - 1)
  BY <1>3, <1>7
<1>10. \A j \in 1..n : s[j] # s[1] => \E i \in 1..(n - 1) : t[i] = s[j]
  BY <1>9
<1>11. ToSet(t) = ToSet(s) \ {s[1]}
  <2>1. ToSet(t) = {t[i] : i \in 1..(n - 1)} /\ ToSet(s) = {s[i] : i \in 1..n}
    BY <1>2 DEF ToSet
  <2>2. \A x \in ToSet(t) : x \in ToSet(s) \ {s[1]}
    BY <1>8, <2>1
  <2>3. \A x \in ToSet(s) \ {s[1]} : x \in ToSet(t)
    BY <1>10, <2>1
  <2> QED
    BY <2>2, <2>3
<1> QED
  BY <1>1, <1>2, <1>6, <1>7, <1>11 DEF ToSet
=============================================================================
