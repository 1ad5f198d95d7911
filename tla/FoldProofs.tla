----------------------------- MODULE FoldProofs -----------------------------
(***************************************************************************)
(* What the proofs about folds over sequences rest on: two induction       *)
(* principles, the order in which a fold goes over the indices, and what a *)
(* fold makes of a sequence, one element at a time.                        *)
(*                                                                         *)
(* The principles are for sets of numbers and of sequences.  Those of the  *)
(* library are for predicates, which the provers cannot be given.  For the *)
(* same reason the lemmas about folds are about a parameter of the module: *)
(* a proof about the folds of an operator instantiates the module with it. *)
(***************************************************************************)
EXTENDS Integers, Sequences, SequencesExt, SequenceTheorems, WellFoundedInduction, TLAPS

CONSTANT Op(_, _)       \* what is folded over a sequence

\* A set of numbers that has 0, and n + 1 with n, has all of them.
LEMMA SetInduction ==
  ASSUME NEW T \in SUBSET Nat, 0 \in T, \A n \in T : n + 1 \in T
  PROVE  T = Nat
  <1> DEFINE R == {ss \in Nat \X Nat : ss[1] < ss[2]}
  <1>1. IsWellFoundedOn(R, Nat)
    BY NatLessThanWellFounded, Zenon DEF OpToRel
  <1>2. SUFFICES ASSUME Nat \ T # {} PROVE FALSE
    OBVIOUS
  <1>3. PICK x \in Nat \ T : \A y \in Nat \ T : ~ (<<y, x>> \in R)
    <2> HIDE DEF R
    <2> QED BY <1>1, <1>2, WFMin
  <1>4. x # 0 /\ x - 1 \in Nat
    OBVIOUS
  <1>5. <<x - 1, x>> \in R
    BY <1>4
  <1> QED BY <1>3, <1>4, <1>5

\* A bounded set of numbers has a maximum, the one that Max chooses.
LEMMA MaxIsMaximal ==
  ASSUME NEW n \in Nat, NEW s \in SUBSET (1..n), s # {}
  PROVE  Max(s) \in s /\ \A y \in s : Max(s) >= y
  <1> DEFINE HasMax(t) == \E x \in t : \A y \in t : x >= y
             T == {m \in Nat : \A t \in SUBSET (1..m) : t # {} => HasMax(t)}
  <1>1. 0 \in T
    <2>1. ASSUME NEW t \in SUBSET (1..0) PROVE t = {}
      OBVIOUS
    <2> QED BY <2>1
  <1>2. ASSUME NEW m \in T PROVE m + 1 \in T
    <2>1. m \in Nat /\ \A t \in SUBSET (1..m) : t # {} => HasMax(t)
      OBVIOUS
    <2>2. SUFFICES ASSUME NEW t \in SUBSET (1..m + 1), t # {} PROVE HasMax(t)
      BY <2>1
    <2>3. CASE m + 1 \in t
      BY <2>1, <2>3
    <2>4. CASE m + 1 \notin t
      <3>1. ASSUME NEW x \in t PROVE x \in 1..m
        <4>1. x \in 1..m + 1 /\ x # m + 1
          BY <2>4
        <4> QED BY <2>1, <4>1
      <3> QED BY <2>1, <2>2, <3>1
    <2> QED BY <2>3, <2>4
  <1>3. T = Nat
    <2> HIDE DEF T
    <2>1. T \in SUBSET Nat
      BY DEF T
    <2> QED BY <1>1, <1>2, <2>1, SetInduction
  <1>4. HasMax(s)
    BY <1>3
  <1> QED BY <1>4 DEF Max

\* FoldLeft takes the greatest index off; what is left is a set of smaller ones.
LEMMA WithoutMax ==
  ASSUME NEW n \in Nat, NEW s \in SUBSET (1..n + 1), s # {}
  PROVE  Max(s) \in 1..n + 1 /\ s \ {Max(s)} \in SUBSET (1..n)
  <1> n + 1 \in Nat
    OBVIOUS
  <1>1. Max(s) \in s /\ \A y \in s : Max(s) >= y
    BY MaxIsMaximal, Zenon
  <1>2. ASSUME NEW x \in s \ {Max(s)} PROVE x \in 1..n
    <2>1. Max(s) \in 1..n + 1 /\ x \in 1..n + 1 /\ Max(s) >= x /\ Max(s) # x
      BY <1>1
    <2> QED BY <2>1
  <1> QED BY <1>1, <1>2

\* A sequence and one element more.
LEMMA OneMore ==
  ASSUME NEW S, NEW seq \in Seq(S), NEW x \in S
  PROVE  /\ Len(seq) \in Nat /\ DOMAIN seq = 1..Len(seq)
         /\ Append(seq, x) \in Seq(S)
         /\ DOMAIN Append(seq, x) = 1..Len(seq) + 1
         /\ \A i \in DOMAIN seq : Append(seq, x)[i] = seq[i]
         /\ Append(seq, x)[Len(seq) + 1] = x
  <1>1. Len(seq) \in Nat /\ DOMAIN seq = 1..Len(seq)
    BY LenProperties
  <1>2. /\ Append(seq, x) \in Seq(S) /\ Len(Append(seq, x)) = Len(seq) + 1
        /\ \A i \in 1..Len(seq) : Append(seq, x)[i] = seq[i]
        /\ Append(seq, x)[Len(seq) + 1] = x
    BY AppendProperties
  <1>3. DOMAIN Append(seq, x) = 1..Len(Append(seq, x))
    BY <1>2, LenProperties
  <1> QED BY <1>1, <1>2, <1>3


\* A set of numbers has a minimum, the one that Min chooses.
LEMMA MinIsMinimal ==
  ASSUME NEW s \in SUBSET Nat, s # {}
  PROVE  Min(s) \in s /\ \A y \in s : Min(s) =< y
  <1> DEFINE R == {ss \in Nat \X Nat : ss[1] < ss[2]}
  <1>1. IsWellFoundedOn(R, Nat)
    BY NatLessThanWellFounded, Zenon DEF OpToRel
  <1>2. PICK x \in s : \A y \in s : ~ (<<y, x>> \in R)
    <2> HIDE DEF R
    <2> QED BY <1>1, WFMin
  <1>3. ASSUME NEW y \in s PROVE x =< y
    <2>1. x \in Nat /\ y \in Nat /\ ~(<<y, x>> \in R)
      BY <1>2
    <2>2. ~(y < x)
      BY <2>1
    <2> QED BY <2>1, <2>2
  <1> QED BY <1>3 DEF Min

\* What SelectInSeq finds is an index of the sequence, or 0.
LEMMA SelectedIsIndex ==
  ASSUME NEW n \in Nat, NEW s \in SUBSET (1..n)
  PROVE  (IF s # {} THEN Min(s) ELSE 0) \in 0..n
  <1>1. s \in SUBSET Nat
    OBVIOUS
  <1>2. CASE s # {}
    <2>1. Min(s) \in s
      BY <1>1, <1>2, MinIsMinimal
    <2>2. \A i \in 1..n : i \in 0..n
      OBVIOUS
    <2> QED BY <1>2, <2>1, <2>2
  <1> QED BY <1>2

\* A set of sequences that has the empty one, and with a sequence the ones with
\* one element more, has all of them.
LEMMA SeqInduction ==
  ASSUME NEW S, NEW T \in SUBSET Seq(S), <<>> \in T,
         \A seq \in T : \A x \in S : Append(seq, x) \in T
  PROVE  T = Seq(S)
  <1> DEFINE N == {n \in Nat : \A seq \in Seq(S) : Len(seq) = n => seq \in T}
  <1>1. 0 \in N
    <2>1. ASSUME NEW seq \in Seq(S), Len(seq) = 0 PROVE seq \in T
      BY <2>1, EmptySeq
    <2> QED BY <2>1
  <1>2. ASSUME NEW n \in N PROVE n + 1 \in N
    <2>1. n \in Nat /\ \A seq \in Seq(S) : Len(seq) = n => seq \in T
      OBVIOUS
    <2>2. ASSUME NEW seq \in Seq(S), Len(seq) = n + 1 PROVE seq \in T
      <3>1. seq # <<>>
        BY <2>1, <2>2, EmptySeq
      <3>2. PICK front \in Seq(S), x \in S : seq = Append(front, x)
        BY <3>1, SequenceEmptyOrAppend
      <3>3. Len(front) \in Nat /\ Len(seq) = Len(front) + 1
        BY <3>2, LenProperties, AppendProperties
      <3>4. front \in T
        BY <2>1, <2>2, <3>3
      <3> QED BY <3>2, <3>4
    <2> QED BY <2>1, <2>2
  <1>3. N = Nat
    <2> HIDE DEF N
    <2>1. N \in SUBSET Nat
      BY DEF N
    <2> QED BY <1>1, <1>2, <2>1, SetInduction
  <1>4. ASSUME NEW seq \in Seq(S) PROVE seq \in T
    <2>1. Len(seq) \in Nat
      BY LenProperties
    <2> QED BY <1>3, <2>1
  <1> QED BY <1>4

-----------------------------------------------------------------------------
(* A fold, one element at a time.                                          *)

Fold(v, seq) == FoldLeft(Op, v, seq)

\* The function that the fold over seq is defined with: what v has become after
\* a set of the indices.
Loop(v, seq, g) ==
    g = [s \in SUBSET (DOMAIN seq) |->
           IF s = {} THEN v ELSE Op(g[s \ {Max(s)}], seq[Max(s)])]

LEMMA FoldIsTheLoop ==
  ASSUME NEW v, NEW seq
  PROVE  Fold(v, seq) = (CHOOSE g : Loop(v, seq, g))[DOMAIN seq]
  BY DEF Fold, FoldLeft, MapThenFoldSet, Loop

\* There is such a function.
LEMMA LoopExists ==
  ASSUME NEW v, NEW S, NEW seq \in Seq(S)
  PROVE  \E g : Loop(v, seq, g)
  <1> DEFINE On(n, g) == g = [s \in SUBSET (1..n) |->
                IF s = {} THEN v ELSE Op(g[s \ {Max(s)}], seq[Max(s)])]
             T == {n \in Nat : \E g : On(n, g)}
  <1>1. 0 \in T
    <2>1. On(0, [s \in SUBSET (1..0) |-> v])
      OBVIOUS
    <2> QED BY <2>1
  <1>2. ASSUME NEW n \in T PROVE n + 1 \in T
    <2>1. n \in Nat
      OBVIOUS
    <2>2. PICK g : On(n, g)
      OBVIOUS
    <2> DEFINE h == [s \in SUBSET (1..n + 1) |->
                 IF s = {} THEN v ELSE Op(g[s \ {Max(s)}], seq[Max(s)])]
    <2>3. ASSUME NEW s \in SUBSET (1..n) PROVE h[s] = g[s]
      <3>1. s \in SUBSET (1..n + 1)
        BY <2>1
      <3> QED BY <2>2, <3>1
    <2>4. ASSUME NEW s \in SUBSET (1..n + 1), s # {} PROVE h[s \ {Max(s)}] = g[s \ {Max(s)}]
      <3>1. s \ {Max(s)} \in SUBSET (1..n)
        BY <2>1, <2>4, WithoutMax
      <3> QED BY <2>3, <3>1
    <2>5. On(n + 1, h)
      BY <2>4
    <2> HIDE DEF h, On
    <2>6. \E g1 : On(n + 1, g1)
      BY <2>5
    <2> QED BY <2>1, <2>6
  <1>3. T = Nat
    <2> HIDE DEF T
    <2>1. T \in SUBSET Nat
      BY DEF T
    <2> QED BY <1>1, <1>2, <2>1, SetInduction
  <1>4. Len(seq) \in T /\ DOMAIN seq = 1..Len(seq)
    BY <1>3, LenProperties
  <1> QED BY <1>4 DEF Loop

\* On the indices of a sequence, the loop over a longer one does the same.
LEMMA LoopsAgree ==
  ASSUME NEW v, NEW S, NEW seq \in Seq(S), NEW x \in S,
         NEW g, Loop(v, Append(seq, x), g),
         NEW h, Loop(v, seq, h)
  PROVE  \A s \in SUBSET (DOMAIN seq) : g[s] = h[s]
  <1> DEFINE T == {n \in Nat : \A s \in SUBSET (1..n) : s \subseteq DOMAIN seq => g[s] = h[s]}
  <1>1. /\ Len(seq) \in Nat /\ DOMAIN seq = 1..Len(seq)
        /\ DOMAIN Append(seq, x) = 1..Len(seq) + 1
        /\ \A i \in DOMAIN seq : Append(seq, x)[i] = seq[i]
    BY OneMore
  <1>2. \A s \in SUBSET (DOMAIN seq) : s \in SUBSET (DOMAIN Append(seq, x))
    BY <1>1
  <1>3. 0 \in T
    <2>1. ASSUME NEW s \in SUBSET (1..0) PROVE s = {}
      OBVIOUS
    <2>2. g[{}] = v /\ h[{}] = v
      BY DEF Loop
    <2> QED BY <2>1, <2>2
  <1>4. ASSUME NEW n \in T PROVE n + 1 \in T
    <2>1. n \in Nat /\ \A s \in SUBSET (1..n) : s \subseteq DOMAIN seq => g[s] = h[s]
      OBVIOUS
    <2>2. SUFFICES ASSUME NEW s \in SUBSET (1..n + 1), s \subseteq DOMAIN seq PROVE g[s] = h[s]
      BY <2>1
    <2>3. CASE s = {}
      BY <2>3 DEF Loop
    <2>4. CASE s # {}
      <3>1. Max(s) \in s
        BY <1>1, <2>2, <2>4, MaxIsMaximal
      <3>2. s \ {Max(s)} \in SUBSET (1..n)
        BY <2>1, <2>4, WithoutMax
      <3>3. g[s \ {Max(s)}] = h[s \ {Max(s)}]
        BY <2>1, <2>2, <3>2
      <3>4. g[s] = Op(g[s \ {Max(s)}], Append(seq, x)[Max(s)])
        BY <1>2, <2>2, <2>4 DEF Loop
      <3>5. h[s] = Op(h[s \ {Max(s)}], seq[Max(s)])
        BY <2>2, <2>4 DEF Loop
      <3> QED BY <1>1, <2>2, <3>1, <3>3, <3>4, <3>5
    <2> QED BY <2>3, <2>4
  <1>5. T = Nat
    <2> HIDE DEF T
    <2>1. T \in SUBSET Nat
      BY DEF T
    <2> QED BY <1>3, <1>4, <2>1, SetInduction
  <1> QED BY <1>1, <1>5

LEMMA FoldOfNothing == ASSUME NEW v PROVE Fold(v, <<>>) = v
  <1>1. <<>> \in Seq({}) /\ DOMAIN <<>> = {}
    OBVIOUS
  <1>2. \E g : Loop(v, <<>>, g)
    BY <1>1, LoopExists
  <1>3. Loop(v, <<>>, CHOOSE g : Loop(v, <<>>, g))
    BY <1>2
  <1>4. (CHOOSE g : Loop(v, <<>>, g))[{}] = v
    BY <1>1, <1>3 DEF Loop
  <1> QED BY <1>1, <1>4, FoldIsTheLoop

\* A fold over a sequence is the fold over all but its last element, and one
\* more turn with that one.
LEMMA FoldOfOneMore ==
  ASSUME NEW v, NEW S, NEW seq \in Seq(S), NEW x \in S
  PROVE  Fold(v, Append(seq, x)) = Op(Fold(v, seq), x)
  <1> DEFINE longer == Append(seq, x)
             n == Len(seq)
             g == CHOOSE f : Loop(v, longer, f)
             h == CHOOSE f : Loop(v, seq, f)
  <1>1. /\ n \in Nat /\ DOMAIN seq = 1..n
        /\ longer \in Seq(S) /\ DOMAIN longer = 1..n + 1 /\ longer[n + 1] = x
    BY OneMore
  <1>2. Loop(v, longer, g)
    <2>1. \E f : Loop(v, longer, f)
      BY <1>1, LoopExists
    <2> QED BY <2>1
  <1>3. Loop(v, seq, h)
    <2>1. \E f : Loop(v, seq, f)
      BY LoopExists
    <2> QED BY <2>1
  <1>4. Fold(v, longer) = g[1..n + 1] /\ Fold(v, seq) = h[1..n]
    BY <1>1, FoldIsTheLoop
  <1> HIDE DEF g, h, longer, n
  <1>5. g[1..n] = h[1..n]
    <2>1. \A s \in SUBSET (DOMAIN seq) : g[s] = h[s]
      BY <1>2, <1>3, LoopsAgree DEF longer
    <2> QED BY <1>1, <2>1
  <1>6. n + 1 \in 1..n + 1
    BY <1>1
  <1>7. Max(1..n + 1) = n + 1
    <2>1. n + 1 \in Nat
      BY <1>1
    <2>2. Max(1..n + 1) \in 1..n + 1 /\ \A y \in 1..n + 1 : Max(1..n + 1) >= y
      BY <1>6, <2>1, MaxIsMaximal, Zenon
    <2>3. Max(1..n + 1) >= n + 1
      BY <1>6, <2>2
    <2> QED BY <1>1, <2>2, <2>3
  <1>8. (1..n + 1) \ {n + 1} = 1..n
    BY <1>1
  <1>9. g[1..n + 1] = Op(g[1..n], x)
    BY <1>1, <1>2, <1>6, <1>7, <1>8 DEF Loop
  <1> QED BY <1>4, <1>5, <1>9 DEF longer

\* A fold over two sequences, one after the other.
LEMMA FoldOfConcat ==
  ASSUME NEW v, NEW S, NEW s \in Seq(S), NEW t \in Seq(S)
  PROVE  Fold(v, s \o t) = Fold(Fold(v, s), t)
  <1> DEFINE T == {u \in Seq(S) : Fold(v, s \o u) = Fold(Fold(v, s), u)}
  <1>1. <<>> \in T
    BY FoldOfNothing, ConcatEmptySeq, EmptySeq
  <1>2. ASSUME NEW u \in T, NEW x \in S PROVE Append(u, x) \in T
    <2>1. u \in Seq(S) /\ Fold(v, s \o u) = Fold(Fold(v, s), u)
      OBVIOUS
    <2>2. Append(u, x) \in Seq(S) /\ s \o u \in Seq(S)
      BY <2>1, AppendProperties, ConcatProperties
    <2>3. s \o Append(u, x) = Append(s \o u, x)
      <3>1. <<x>> \in Seq(S)
        OBVIOUS
      <3>2. Append(u, x) = u \o <<x>> /\ Append(s \o u, x) = (s \o u) \o <<x>>
        BY <2>1, <2>2, AppendIsConcat
      <3> QED BY <2>1, <3>1, <3>2, ConcatAssociative
    <2>4. Fold(v, Append(s \o u, x)) = Op(Fold(v, s \o u), x)
      <3> DEFINE w == s \o u
      <3>1. w \in Seq(S)
        BY <2>2
      <3> HIDE DEF w
      <3>2. Fold(v, Append(w, x)) = Op(Fold(v, w), x)
        BY <3>1, FoldOfOneMore
      <3> QED BY <3>2 DEF w
    <2>5. Fold(Fold(v, s), Append(u, x)) = Op(Fold(Fold(v, s), u), x)
      BY <2>1, FoldOfOneMore
    <2> QED BY <2>1, <2>2, <2>3, <2>4, <2>5
  <1> HIDE DEF T
  <1>3. T \in SUBSET Seq(S)
    BY DEF T
  <1>4. T = Seq(S)
    BY <1>1, <1>2, <1>3, SeqInduction
  <1> QED BY <1>4 DEF T

\* A fold stays in a set that no turn leaves.
LEMMA FoldStays ==
  ASSUME NEW X, NEW v \in X, NEW S, NEW seq \in Seq(S),
         \A y \in X : \A x \in S : Op(y, x) \in X
  PROVE  Fold(v, seq) \in X
  <1> DEFINE T == {u \in Seq(S) : Fold(v, u) \in X}
  <1>1. <<>> \in T
    BY FoldOfNothing, EmptySeq
  <1>2. ASSUME NEW u \in T, NEW x \in S PROVE Append(u, x) \in T
    BY FoldOfOneMore, AppendProperties
  <1> HIDE DEF T
  <1>3. T \in SUBSET Seq(S)
    BY DEF T
  <1>4. T = Seq(S)
    BY <1>1, <1>2, <1>3, SeqInduction
  <1> QED BY <1>4 DEF T
=============================================================================
