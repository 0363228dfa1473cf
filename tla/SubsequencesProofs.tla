-------------------------- MODULE SubsequencesProofs --------------------------
(***************************************************************************)
(* What Keep returns: its elements, its first element, when it is empty,   *)
(* and when two selections agree.                                          *)
(*                                                                         *)
(* The proofs are by induction on a set T of numbers instead of a          *)
(* predicate: a set that is closed under successor and misses a number     *)
(* misses a smallest one (WFMin), which cannot be.                         *)
(***************************************************************************)
EXTENDS Subsequences, SequencesExt, Integers, WellFoundedInduction, TLAPS

\* Induction over the natural numbers, for a set instead of a predicate.
LEMMA SetInduction ==
    ASSUME NEW T, 0 \in T, \A n \in Nat : n \in T => n + 1 \in T
    PROVE  \A n \in Nat : n \in T
<1> SUFFICES ASSUME ~ (Nat \subseteq T) PROVE FALSE
  OBVIOUS
<1> DEFINE Rest == Nat \ T
           Less == {pair \in Nat \X Nat : pair[1] < pair[2]}
<1>1. IsWellFoundedOn(Less, Nat)
  BY NatLessThanWellFounded DEF OpToRel
<1>2. PICK x \in Rest : \A y \in Rest : ~ (<<y, x>> \in Less)
  <2> HIDE DEF Less
  <2> QED
    BY <1>1, WFMin
<1>3. x # 0 /\ x - 1 \in Nat /\ x - 1 < x /\ (x - 1) + 1 = x
  OBVIOUS
<1>4. <<x - 1, x>> \in Less
  BY <1>3
<1>5. x - 1 \notin Rest
  BY <1>2, <1>4
<1> QED
  BY <1>3, <1>5

\* Induction up to the length of a sequence.
LEMMA UptoInduction ==
    ASSUME NEW m \in Nat, NEW T, 0 \in T, \A n \in 1..m : n - 1 \in T => n \in T
    PROVE  \A n \in 0..m : n \in T
<1> DEFINE U == T \cup {n \in Nat : n > m}
<1>1. \A n \in Nat : n \in U => n + 1 \in U
  <2> SUFFICES ASSUME NEW n \in Nat, n \in U, n + 1 <= m PROVE n + 1 \in T
    OBVIOUS
  <2>1. n + 1 \in 1..m /\ (n + 1) - 1 = n /\ n \in T
    OBVIOUS
  <2> QED
    BY <2>1
<1>2. \A n \in Nat : n \in U
  <2> HIDE DEF U
  <2>1. 0 \in U
    BY DEF U
  <2> QED
    BY <1>1, <2>1, SetInduction
<1> QED
  BY <1>2

\* F[n] is what is kept of the first n elements.
Filters(F, s, places) ==
    /\ F[0] = <<>>
    /\ \A n \in 1..Len(s) :
         F[n] = IF n \in places THEN Append(F[n - 1], s[n]) ELSE F[n - 1]

\* What is kept is a sequence of the same elements.
LEMMA FiltersType ==
    ASSUME NEW S, NEW s \in Seq(S), NEW places, NEW F, Filters(F, s, places)
    PROVE  \A n \in 0..Len(s) : F[n] \in Seq(S)
<1> DEFINE T == {n \in 0..Len(s) : F[n] \in Seq(S)}
<1>1. Len(s) \in Nat /\ <<>> \in Seq(S)
  OBVIOUS
<1>2. 0 \in T
  <2>1. F[0] \in Seq(S)
    BY <1>1, Zenon DEF Filters
  <2> QED
    BY <1>1, <2>1
<1>3. ASSUME NEW n \in 1..Len(s), n - 1 \in T PROVE n \in T
  <2>1. s[n] \in S /\ F[n - 1] \in Seq(S)
    BY <1>3
  <2>2. Append(F[n - 1], s[n]) \in Seq(S)
    BY <2>1
  <2>3. F[n] = Append(F[n - 1], s[n]) \/ F[n] = F[n - 1]
    BY DEF Filters
  <2>4. F[n] \in Seq(S)
    BY <2>1, <2>2, <2>3, Zenon
  <2> QED
    BY <2>4
<1> HIDE DEF T
<1>4. \A n \in 0..Len(s) : n \in T
  BY <1>1, <1>2, <1>3, UptoInduction
<1> QED
  BY <1>4 DEF T

\* Keep is what its recursion says.
LEMMA KeepUnfolds ==
    ASSUME NEW S, NEW s \in Seq(S), NEW places
    PROVE  \E F \in [0..Len(s) -> Seq(S)] : Filters(F, s, places) /\ Keep(s, places) = F[Len(s)]
<1> DEFINE Step(G, n) == IF n = 0 THEN <<>>
                         ELSE IF n \in places THEN Append(G[n - 1], s[n]) ELSE G[n - 1]
           Solves(G) == G = [n \in 0..Len(s) |-> Step(G, n)]
           T == {m \in 0..Len(s) : \E G \in [0..m -> Seq(S)] : \A n \in 0..m : G[n] = Step(G, n)}
<1>0. Len(s) \in Nat /\ \A n \in 1..Len(s) : s[n] \in S
  OBVIOUS
<1>1. 0 \in T
  <2> DEFINE G == [n \in 0..0 |-> <<>>]
  <2>1. G \in [0..0 -> Seq(S)]
    OBVIOUS
  <2>2. \A n \in 0..0 : G[n] = Step(G, n)
    OBVIOUS
  <2> HIDE DEF G, Step
  <2> QED
    BY <1>0, <2>1, <2>2
<1>2. ASSUME NEW m \in 1..Len(s), m - 1 \in T PROVE m \in T
  <2>1. PICK G \in [0..(m - 1) -> Seq(S)] : \A n \in 0..(m - 1) : G[n] = Step(G, n)
    BY <1>2
  <2> DEFINE H == [n \in 0..m |-> IF n = m THEN Step(G, m) ELSE G[n]]
  <2>2. Step(G, m) \in Seq(S)
    BY <1>0, <2>1
  <2>3. H \in [0..m -> Seq(S)]
    BY <2>1, <2>2
  <2>4. ASSUME NEW n \in 0..m PROVE H[n] = Step(H, n)
    <3>1. CASE n = m
      <4>1. n # 0 /\ n - 1 \in 0..m /\ n - 1 # m
        BY <3>1
      <4>2. H[n - 1] = G[n - 1] /\ H[n] = Step(G, n)
        BY <3>1, <4>1
      <4> QED
        BY <4>1, <4>2
    <3>2. CASE n # m
      <4>1. n \in 0..(m - 1) /\ H[n] = G[n] /\ (n # 0 => n - 1 \in 0..m /\ n - 1 # m)
        BY <3>2
      <4>2. n # 0 => H[n - 1] = G[n - 1]
        BY <4>1
      <4> QED
        BY <2>1, <4>1, <4>2
    <3> QED
      BY <3>1, <3>2
  <2>5. m \in 0..Len(s)
    BY <1>0
  <2>6. \E K \in [0..m -> Seq(S)] : \A n \in 0..m : K[n] = Step(K, n)
    <3> HIDE DEF H, Step
    <3> QED
      BY <2>3, <2>4
  <2> HIDE DEF Step
  <2> QED
    BY <2>5, <2>6
<1>3. Len(s) \in T
  <2> HIDE DEF T
  <2>1. \A n \in 0..Len(s) : n \in T
    BY <1>0, <1>1, <1>2, UptoInduction
  <2> QED
    BY <1>0, <2>1
<1>4. PICK G \in [0..Len(s) -> Seq(S)] : \A n \in 0..Len(s) : G[n] = Step(G, n)
  BY <1>3
<1>5. Solves(G)
  <2> HIDE DEF Step
  <2> QED
    BY <1>4
<1> DEFINE F == CHOOSE H : Solves(H)
<1>6. Solves(F)
  <2> HIDE DEF Solves
  <2> QED
    BY <1>5
<1>7. Keep(s, places) = F[Len(s)]
  BY DEF Keep
<1>8. \A n \in 0..Len(s) : F[n] = Step(F, n)
  <2> HIDE DEF F, Step
  <2> QED
    BY <1>6
<1> HIDE DEF F
<1>9. Filters(F, s, places)
  BY <1>0, <1>8 DEF Filters
<1>10. F \in [0..Len(s) -> Seq(S)]
  <2>1. \A n \in 0..Len(s) : F[n] \in Seq(S)
    BY <1>9, FiltersType
  <2> QED
    BY <1>6, <2>1
<1> QED
  BY <1>7, <1>9, <1>10

\* Whatever is computed that way is what is kept.
LEMMA KeepIs ==
    ASSUME NEW S, NEW s \in Seq(S), NEW places, NEW F, Filters(F, s, places)
    PROVE  Keep(s, places) = F[Len(s)]
<1>1. PICK G \in [0..Len(s) -> Seq(S)] :
        Filters(G, s, places) /\ Keep(s, places) = G[Len(s)]
  BY KeepUnfolds
<1> DEFINE T == {n \in 0..Len(s) : F[n] = G[n]}
<1>2. Len(s) \in Nat
  OBVIOUS
<1>3. 0 \in T
  BY <1>1, <1>2 DEF Filters
<1>4. ASSUME NEW n \in 1..Len(s), n - 1 \in T PROVE n \in T
  BY <1>1, <1>4 DEF Filters
<1> HIDE DEF T
<1>5. \A n \in 0..Len(s) : n \in T
  BY <1>2, <1>3, <1>4, UptoInduction
<1> QED
  BY <1>1, <1>2, <1>5 DEF T

\* What is kept of a sequence over S is one over S.
LEMMA KeepType ==
    ASSUME NEW S, NEW s \in Seq(S), NEW places
    PROVE  Keep(s, places) \in Seq(S)
BY KeepUnfolds

\* The elements of s at places up to n.
ElementsAt(s, places, n) == {s[i] : i \in {k \in 1..n : k \in places}}

\* Appending adds its element and no other.
LEMMA AppendElements ==
    ASSUME NEW S, NEW s \in Seq(S), NEW e \in S
    PROVE  ToSet(Append(s, e)) = ToSet(s) \cup {e}
<1>1. /\ Len(Append(s, e)) = Len(s) + 1 /\ Len(s) \in Nat
      /\ \A i \in 1..Len(s) : Append(s, e)[i] = s[i]
      /\ Append(s, e)[Len(s) + 1] = e
  OBVIOUS
<1> QED
  BY <1>1 DEF ToSet

\* What is kept are the elements at the places, and nothing else.
LEMMA KeepElements ==
    ASSUME NEW S, NEW s \in Seq(S), NEW places
    PROVE  ToSet(Keep(s, places)) = ElementsAt(s, places, Len(s))
<1>1. PICK F \in [0..Len(s) -> Seq(S)] :
        Filters(F, s, places) /\ Keep(s, places) = F[Len(s)]
  BY KeepUnfolds
<1> DEFINE T == {n \in 0..Len(s) : ToSet(F[n]) = ElementsAt(s, places, n)}
<1>2. Len(s) \in Nat /\ \A n \in 1..Len(s) : s[n] \in S
  OBVIOUS
<1>3. 0 \in T
  <2>1. ToSet(F[0]) = {}
    <3>1. F[0] = <<>> /\ Len(<<>>) = 0
      BY <1>1 DEF Filters
    <3> QED
      BY <3>1 DEF ToSet
  <2>2. ElementsAt(s, places, 0) = {}
    BY DEF ElementsAt
  <2>3. ToSet(F[0]) = ElementsAt(s, places, 0)
    BY <2>1, <2>2
  <2> QED
    BY <1>2, <2>3
<1>4. ASSUME NEW n \in 1..Len(s), n - 1 \in T PROVE n \in T
  <2>1. /\ F[n - 1] \in Seq(S) /\ n \in 0..Len(s)
        /\ ToSet(F[n - 1]) = ElementsAt(s, places, n - 1)
    BY <1>1, <1>2, <1>4
  <2>2. CASE n \in places
    <3>1. F[n] = Append(F[n - 1], s[n])
      BY <1>1, <2>2 DEF Filters
    <3>2. ToSet(F[n]) = ToSet(F[n - 1]) \cup {s[n]}
      BY <1>2, <2>1, <3>1, AppendElements
    <3>3. ElementsAt(s, places, n) = ElementsAt(s, places, n - 1) \cup {s[n]}
      BY <2>2 DEF ElementsAt
    <3> QED
      BY <2>1, <3>2, <3>3
  <2>3. CASE n \notin places
    <3>1. F[n] = F[n - 1]
      BY <1>1, <2>3 DEF Filters
    <3>2. ElementsAt(s, places, n) = ElementsAt(s, places, n - 1)
      BY <2>3 DEF ElementsAt
    <3> QED
      BY <2>1, <3>1, <3>2
  <2> QED
    BY <2>2, <2>3
<1> HIDE DEF T
<1>5. \A n \in 0..Len(s) : n \in T
  BY <1>2, <1>3, <1>4, UptoInduction
<1>6. Len(s) \in T
  BY <1>2, <1>5
<1> QED
  BY <1>1, <1>6 DEF T

\* Only the elements at the places matter.
LEMMA KeepSame ==
    ASSUME NEW S, NEW s \in Seq(S), NEW t \in Seq(S), NEW P, NEW Q, Len(s) = Len(t),
           \A i \in 1..Len(s) : (i \in P <=> i \in Q) /\ (i \in P => s[i] = t[i])
    PROVE  Keep(s, P) = Keep(t, Q)
<1>1. PICK F : Filters(F, s, P) /\ Keep(s, P) = F[Len(s)]
  BY KeepUnfolds
<1>2. Filters(F, t, Q)
  BY <1>1 DEF Filters
<1> QED
  BY <1>1, <1>2, KeepIs

\* Nothing is kept of what follows the last place.
LEMMA KeepPrefix ==
    ASSUME NEW S, NEW s \in Seq(S), NEW t \in Seq(S), Len(s) <= Len(t), NEW P,
           \A i \in 1..Len(s) : t[i] = s[i],
           \A i \in 1..Len(t) : i \in P => i <= Len(s)
    PROVE  Keep(t, P) = Keep(s, P)
<1>1. PICK F \in [0..Len(s) -> Seq(S)] : Filters(F, s, P) /\ Keep(s, P) = F[Len(s)]
  BY KeepUnfolds
<1> DEFINE m == Len(s)
           H == [n \in 0..Len(t) |-> IF n <= m THEN F[n] ELSE F[m]]
<1>2. m \in Nat /\ Len(t) \in Nat /\ m \in 0..Len(t)
  OBVIOUS
<1>3. \A n \in 0..Len(t) : H[n] = IF n <= m THEN F[n] ELSE F[m]
  OBVIOUS
<1> HIDE DEF H
<1>4. Filters(H, t, P)
  <2>1. H[0] = <<>>
    BY <1>1, <1>2, <1>3 DEF Filters
  <2>2. ASSUME NEW n \in 1..Len(t)
        PROVE  H[n] = IF n \in P THEN Append(H[n - 1], t[n]) ELSE H[n - 1]
    <3>1. CASE n <= m
      <4>1. F[n] = IF n \in P THEN Append(F[n - 1], s[n]) ELSE F[n - 1]
        BY <1>1, <1>2, <3>1 DEF Filters
      <4>2. H[n] = F[n] /\ H[n - 1] = F[n - 1] /\ t[n] = s[n]
        BY <1>2, <1>3, <3>1
      <4> QED
        BY <4>1, <4>2
    <3>2. CASE ~(n <= m)
      <4>1. n \notin P /\ H[n] = F[m] /\ H[n - 1] = F[m]
        BY <1>2, <1>3, <3>2
      <4> QED
        BY <4>1
    <3> QED
      BY <3>1, <3>2
  <2> QED
    BY <2>1, <2>2 DEF Filters
<1>5. Keep(t, P) = H[Len(t)]
  BY <1>4, KeepIs
<1>6. H[Len(t)] = F[m]
  BY <1>2, <1>3
<1> QED
  BY <1>1, <1>5, <1>6

\* Nothing is kept exactly if no place is there.
LEMMA KeepEmpty ==
    ASSUME NEW S, NEW s \in Seq(S), NEW places
    PROVE  Keep(s, places) = <<>> <=> \A i \in 1..Len(s) : i \notin places
<1> DEFINE kept == Keep(s, places)
<1>1. kept \in Seq(S) /\ ToSet(kept) = ElementsAt(s, places, Len(s))
  BY KeepType, KeepElements
<1>2. kept = <<>> <=> ToSet(kept) = {}
  <2> HIDE DEF kept
  <2>1. kept = <<>> <=> Len(kept) = 0
    BY <1>1
  <2>2. Len(kept) \in Nat
    BY <1>1
  <2>3. Len(kept) # 0 => kept[1] \in ToSet(kept)
    BY <2>2 DEF ToSet
  <2>4. Len(kept) = 0 => ToSet(kept) = {}
    BY DEF ToSet
  <2> QED
    BY <2>1, <2>3, <2>4
<1>3. ElementsAt(s, places, Len(s)) = {} <=> \A i \in 1..Len(s) : i \notin places
  BY DEF ElementsAt
<1> QED
  BY <1>1, <1>2, <1>3

\* What is kept first is what stands at the first place.
LEMMA KeepFirst ==
    ASSUME NEW S, NEW s \in Seq(S), NEW places, Keep(s, places) # <<>>
    PROVE  \E i \in 1..Len(s) : /\ i \in places /\ \A j \in 1..(i - 1) : j \notin places
                                /\ Keep(s, places)[1] = s[i]
<1>1. PICK F \in [0..Len(s) -> Seq(S)] :
        Filters(F, s, places) /\ Keep(s, places) = F[Len(s)]
  BY KeepUnfolds
<1> DEFINE IsFirst(i, n) == /\ i \in places /\ \A j \in 1..(i - 1) : j \notin places
                            /\ Len(F[n]) > 0 /\ F[n][1] = s[i]
           None(n) == F[n] = <<>> /\ \A j \in 1..n : j \notin places
           T == {n \in 0..Len(s) : None(n) \/ \E i \in 1..n : IsFirst(i, n)}
<1>2. Len(s) \in Nat /\ \A n \in 1..Len(s) : s[n] \in S
  OBVIOUS
<1>3. 0 \in T
  <2>1. None(0)
    BY <1>1 DEF Filters
  <2> HIDE DEF None
  <2> QED
    BY <1>2, <2>1
<1>4. ASSUME NEW n \in 1..Len(s), n - 1 \in T PROVE n \in T
  <2>1. /\ F[n - 1] \in Seq(S) /\ s[n] \in S /\ n \in 0..Len(s)
        /\ F[n] = IF n \in places THEN Append(F[n - 1], s[n]) ELSE F[n - 1]
    BY <1>1, <1>2, <1>4 DEF Filters
  <2>2. CASE None(n - 1) /\ n \in places
    <3>1. F[n] = Append(<<>>, s[n])
      BY <2>1, <2>2
    <3>2. Len(F[n]) > 0 /\ F[n][1] = s[n]
      BY <3>1
    <3>3. IsFirst(n, n)
      BY <2>2, <3>2
    <3> HIDE DEF IsFirst
    <3> QED
      BY <2>1, <3>3
  <2>3. CASE None(n - 1) /\ n \notin places
    <3>1. None(n)
      BY <2>1, <2>3
    <3> HIDE DEF None
    <3> QED
      BY <2>1, <3>1
  <2>4. CASE \E i \in 1..(n - 1) : IsFirst(i, n - 1)
    <3>1. PICK i \in 1..(n - 1) : IsFirst(i, n - 1)
      BY <2>4
    <3>2. Len(Append(F[n - 1], s[n])) > 0 /\ Append(F[n - 1], s[n])[1] = F[n - 1][1]
      BY <2>1, <3>1
    <3>3. Len(F[n]) > 0 /\ F[n][1] = F[n - 1][1]
      BY <2>1, <3>1, <3>2
    <3>4. IsFirst(i, n) /\ i \in 1..n
      BY <3>1, <3>3
    <3> HIDE DEF IsFirst
    <3> QED
      BY <2>1, <3>4
  <2> QED
    BY <1>4, <2>2, <2>3, <2>4
<1> HIDE DEF T
<1>5. \A n \in 0..Len(s) : n \in T
  BY <1>2, <1>3, <1>4, UptoInduction
<1>6. Len(s) \in T
  BY <1>2, <1>5
<1> QED
  BY <1>1, <1>6 DEF T

\* A new last element is kept if its place is one of those.
LEMMA KeepAppend ==
    ASSUME NEW S, NEW s \in Seq(S), NEW e \in S, NEW P
    PROVE  Keep(Append(s, e), P) = IF Len(s) + 1 \in P THEN Append(Keep(s, P), e)
                                                       ELSE Keep(s, P)
<1>1. PICK F \in [0..Len(s) -> Seq(S)] : Filters(F, s, P) /\ Keep(s, P) = F[Len(s)]
  BY KeepUnfolds
<1> DEFINE m == Len(s)
           t == Append(s, e)
           last == IF m + 1 \in P THEN Append(F[m], e) ELSE F[m]
           H == [n \in 0..(m + 1) |-> IF n = m + 1 THEN last ELSE F[n]]
<1>2. /\ m \in Nat /\ t \in Seq(S) /\ Len(t) = m + 1 /\ t[m + 1] = e
      /\ \A n \in 1..m : t[n] = s[n]
  OBVIOUS
<1> HIDE DEF t
<1>3. H[m + 1] = last /\ \A n \in 0..m : H[n] = F[n]
  <2> HIDE DEF last
  <2> QED
    BY <1>2
<1> HIDE DEF H
<1>4. Filters(H, t, P)
  <2>1. H[0] = <<>>
    BY <1>1, <1>2, <1>3 DEF Filters
  <2>2. ASSUME NEW n \in 1..m
        PROVE  H[n] = IF n \in P THEN Append(H[n - 1], t[n]) ELSE H[n - 1]
    <3>1. F[n] = IF n \in P THEN Append(F[n - 1], s[n]) ELSE F[n - 1]
      BY <1>1 DEF Filters
    <3>2. H[n] = F[n] /\ H[n - 1] = F[n - 1] /\ t[n] = s[n]
      <4> HIDE DEF last
      <4> QED
        BY <1>2, <1>3
    <3> QED
      BY <3>1, <3>2
  <2>3. H[m + 1] = IF m + 1 \in P THEN Append(H[m], t[m + 1]) ELSE H[m]
    BY <1>2, <1>3
  <2> QED
    BY <1>2, <2>1, <2>2, <2>3 DEF Filters
<1>5. Keep(t, P) = H[m + 1]
  BY <1>2, <1>4, KeepIs
<1> QED
  BY <1>1, <1>3, <1>5 DEF t

-----------------------------------------------------------------------------
\* The places of s at which an element of W stands.
Where(s, W) == {i \in 1..Len(s) : s[i] \in W}

\* A new last element is kept if it is in W, whatever is kept before it.
LEMMA KeepWhereAppend ==
    ASSUME NEW S, NEW s \in Seq(S), NEW e \in S, NEW W
    PROVE  Keep(Append(s, e), Where(Append(s, e), W)) =
             IF e \in W THEN Append(Keep(s, Where(s, W)), e) ELSE Keep(s, Where(s, W))
<1> DEFINE t == Append(s, e)
           P == Where(t, W)
<1>1. /\ Len(s) \in Nat /\ Len(t) = Len(s) + 1 /\ t[Len(s) + 1] = e
      /\ \A n \in 1..Len(s) : t[n] = s[n]
  OBVIOUS
<1> HIDE DEF t
<1>2. /\ Len(s) + 1 \in P <=> e \in W
      /\ \A n \in 1..Len(s) : n \in P <=> n \in Where(s, W)
  BY <1>1 DEF Where
<1> HIDE DEF P
<1>3. Keep(s, P) = Keep(s, Where(s, W))
  BY <1>2, KeepSame
<1>4. Keep(Append(s, e), P) = IF Len(s) + 1 \in P THEN Append(Keep(s, P), e) ELSE Keep(s, P)
  BY KeepAppend
<1> QED
  BY <1>2, <1>3, <1>4 DEF P, t

\* Keeping twice is keeping once, what both keep.
LEMMA KeepKeep ==
    ASSUME NEW S, NEW s \in Seq(S), NEW t \in Seq(S), Len(s) = Len(t), NEW W, NEW P, NEW Q,
           \A i \in 1..Len(s) : /\ i \in Q <=> i \in P /\ s[i] \in W
                                /\ i \in Q => t[i] = s[i]
    PROVE  Keep(Keep(s, P), Where(Keep(s, P), W)) = Keep(t, Q)
<1>1. PICK F \in [0..Len(s) -> Seq(S)] : Filters(F, s, P) /\ Keep(s, P) = F[Len(s)]
  BY KeepUnfolds
<1>2. PICK G \in [0..Len(t) -> Seq(S)] : Filters(G, t, Q) /\ Keep(t, Q) = G[Len(t)]
  BY KeepUnfolds
<1> DEFINE T == {n \in 0..Len(s) : Keep(F[n], Where(F[n], W)) = G[n]}
<1>3. Len(s) \in Nat /\ \A n \in 1..Len(s) : s[n] \in S
  OBVIOUS
<1>4. 0 \in T
  <2>1. F[0] = <<>> /\ G[0] = <<>>
    BY <1>1, <1>2 DEF Filters
  <2>2. F[0] \in Seq(S) /\ Len(F[0]) = 0
    BY <1>1, <1>3, <2>1
  <2>3. Keep(F[0], Where(F[0], W)) = <<>>
    <3>1. \A i \in 1..Len(F[0]) : i \notin Where(F[0], W)
      BY <2>2
    <3> QED
      BY <2>2, <3>1, KeepEmpty
  <2> QED
    BY <1>3, <2>1, <2>3
<1>5. ASSUME NEW n \in 1..Len(s), n - 1 \in T PROVE n \in T
  <2> DEFINE f == F[n - 1]
             g == G[n - 1]
  <2>1. /\ f \in Seq(S) /\ s[n] \in S /\ n \in 0..Len(s)
        /\ Keep(f, Where(f, W)) = g
        /\ F[n] = IF n \in P THEN Append(f, s[n]) ELSE f
        /\ G[n] = IF n \in Q THEN Append(g, s[n]) ELSE g
        /\ n \in Q <=> n \in P /\ s[n] \in W
    <3>1. f \in Seq(S) /\ s[n] \in S /\ n \in 0..Len(s) /\ Keep(f, Where(f, W)) = g
      BY <1>1, <1>3, <1>5
    <3> HIDE DEF T
    <3>2. /\ F[n] = IF n \in P THEN Append(f, s[n]) ELSE f
          /\ G[n] = IF n \in Q THEN Append(g, t[n]) ELSE g
      BY <1>1, <1>2 DEF Filters
    <3>3. (n \in Q <=> n \in P /\ s[n] \in W) /\ (n \in Q => t[n] = s[n])
      OBVIOUS
    <3> HIDE DEF f, g
    <3> QED
      BY <3>1, <3>2, <3>3
  <2> HIDE DEF f, g, T
  <2>2. Keep(Append(f, s[n]), Where(Append(f, s[n]), W)) =
          IF s[n] \in W THEN Append(g, s[n]) ELSE g
    <3>1. ASSUME NEW a \in Seq(S), NEW e \in S
          PROVE  Keep(Append(a, e), Where(Append(a, e), W)) =
                   IF e \in W THEN Append(Keep(a, Where(a, W)), e) ELSE Keep(a, Where(a, W))
      BY KeepWhereAppend
    <3>2. Keep(Append(f, s[n]), Where(Append(f, s[n]), W)) =
            IF s[n] \in W THEN Append(Keep(f, Where(f, W)), s[n]) ELSE Keep(f, Where(f, W))
      BY <2>1, <3>1, Zenon
    <3> QED
      BY <2>1, <3>2
  <2>3. Keep(F[n], Where(F[n], W)) = G[n]
    BY <2>1, <2>2
  <2> QED
    BY <2>1, <2>3 DEF T
<1> HIDE DEF T
<1>6. \A n \in 0..Len(s) : n \in T
  BY <1>3, <1>4, <1>5, UptoInduction
<1>7. Len(s) \in T
  BY <1>3, <1>6
<1> QED
  BY <1>1, <1>2, <1>7 DEF T

\* What is kept has no duplicates if the places hold different elements.
LEMMA KeepInjective ==
    ASSUME NEW S, NEW s \in Seq(S), NEW places,
           \A i, j \in 1..Len(s) : i \in places /\ j \in places /\ s[i] = s[j] => i = j
    PROVE  IsInjective(Keep(s, places))
<1>1. PICK F \in [0..Len(s) -> Seq(S)] :
        Filters(F, s, places) /\ Keep(s, places) = F[Len(s)]
  BY KeepUnfolds
<1> DEFINE T == {n \in 0..Len(s) : /\ IsInjective(F[n])
                                   /\ ToSet(F[n]) \subseteq ElementsAt(s, places, n)}
<1>2. Len(s) \in Nat /\ \A n \in 1..Len(s) : s[n] \in S
  OBVIOUS
<1>3. 0 \in T
  <2>1. F[0] = <<>> /\ DOMAIN F[0] = {}
    <3>1. F[0] = <<>>
      BY <1>1 DEF Filters
    <3> QED
      BY <3>1
  <2>2. IsInjective(F[0]) /\ ToSet(F[0]) = {}
    BY <2>1 DEF IsInjective, ToSet
  <2> QED
    BY <1>2, <2>2
<1>4. ASSUME NEW n \in 1..Len(s), n - 1 \in T PROVE n \in T
  <2>1. /\ F[n - 1] \in Seq(S) /\ n \in 0..Len(s) /\ s[n] \in S
        /\ IsInjective(F[n - 1]) /\ ToSet(F[n - 1]) \subseteq ElementsAt(s, places, n - 1)
    BY <1>1, <1>2, <1>4
  <2>2. CASE n \in places
    <3>1. F[n] = Append(F[n - 1], s[n])
      BY <1>1, <2>2 DEF Filters
    <3>2. s[n] \notin ElementsAt(s, places, n - 1)
      <4>1. \A k \in 1..(n - 1) : k \in 1..Len(s) /\ k # n
        BY <1>2
      <4>2. \A k \in 1..(n - 1) : k \in places => s[k] # s[n]
        BY <2>2, <4>1
      <4> QED
        BY <4>2 DEF ElementsAt
    <3>3. ToSet(F[n]) \subseteq ElementsAt(s, places, n)
      <4>1. ToSet(F[n]) = ToSet(F[n - 1]) \cup {s[n]}
        BY <2>1, <3>1, AppendElements
      <4>2. ElementsAt(s, places, n) = ElementsAt(s, places, n - 1) \cup {s[n]}
        BY <2>2 DEF ElementsAt
      <4> QED
        BY <2>1, <4>1, <4>2
    <3>4. IsInjective(F[n])
      <4> DEFINE f == F[n - 1]
                 m == Len(f)
      <4>1. /\ m \in Nat /\ DOMAIN f = 1..m /\ DOMAIN F[n] = 1..(m + 1)
            /\ F[n][m + 1] = s[n] /\ \A i \in 1..m : F[n][i] = f[i]
        BY <2>1, <3>1
      <4>2. \A i \in 1..m : f[i] # s[n]
        BY <2>1, <3>2, <4>1 DEF ToSet
      <4>3. \A i, j \in 1..m : f[i] = f[j] => i = j
        BY <2>1, <4>1 DEF IsInjective
      <4> HIDE DEF f, m
      <4>4. ASSUME NEW i \in 1..(m + 1), NEW j \in 1..(m + 1), F[n][i] = F[n][j] PROVE i = j
        <5>1. \A k \in 1..(m + 1) : k \in 1..m \/ k = m + 1
          BY <4>1
        <5> QED
          BY <4>1, <4>2, <4>3, <4>4, <5>1
      <4> QED
        BY <4>1, <4>4 DEF IsInjective
    <3> QED
      BY <2>1, <3>3, <3>4
  <2>3. CASE n \notin places
    <3>1. F[n] = F[n - 1]
      BY <1>1, <2>3 DEF Filters
    <3>2. ElementsAt(s, places, n) = ElementsAt(s, places, n - 1)
      BY <2>3 DEF ElementsAt
    <3> QED
      BY <2>1, <3>1, <3>2
  <2> QED
    BY <2>2, <2>3
<1> HIDE DEF T
<1>5. \A n \in 0..Len(s) : n \in T
  BY <1>2, <1>3, <1>4, UptoInduction
<1>6. Len(s) \in T
  BY <1>2, <1>5
<1> QED
  BY <1>1, <1>6 DEF T

\* The first place of each element: every element is kept, once.
LEMMA KeepUnseen ==
    ASSUME NEW S, NEW s \in Seq(S)
    PROVE  LET unseen == Keep(s, {i \in DOMAIN s : \A j \in 1..(i - 1) : s[j] # s[i]})
           IN unseen \in Seq(S) /\ IsInjective(unseen) /\ ToSet(unseen) = ToSet(s)
<1> DEFINE places == {i \in DOMAIN s : \A j \in 1..(i - 1) : s[j] # s[i]}
<1>1. Len(s) \in Nat /\ DOMAIN s = 1..Len(s)
  OBVIOUS
<1>2. \A i, j \in 1..Len(s) : i \in places /\ j \in places /\ s[i] = s[j] => i = j
  <2> SUFFICES ASSUME NEW i \in 1..Len(s), NEW j \in 1..Len(s), i < j, s[i] = s[j]
               PROVE  j \notin places
    BY <1>1
  <2>1. i \in 1..(j - 1)
    OBVIOUS
  <2> QED
    BY <2>1
<1>3. ToSet(s) \subseteq ElementsAt(s, places, Len(s))
  <2> DEFINE T == {n \in 0..Len(s) : \A i \in 1..n : s[i] \in ElementsAt(s, places, Len(s))}
  <2>1. 0 \in T
    BY <1>1
  <2>2. ASSUME NEW n \in 1..Len(s), n - 1 \in T PROVE n \in T
    <3>1. s[n] \in ElementsAt(s, places, Len(s))
      <4>1. CASE n \in places
        BY <4>1 DEF ElementsAt
      <4>2. CASE n \notin places
        <5>1. PICK j \in 1..(n - 1) : s[j] = s[n]
          BY <1>1, <4>2
        <5> HIDE DEF places
        <5> QED
          BY <2>2, <5>1
      <4> QED
        BY <4>1, <4>2
    <3> HIDE DEF places
    <3>2. \A i \in 1..n : i \in 1..(n - 1) \/ i = n
      BY <1>1
    <3> QED
      BY <1>1, <2>2, <3>1, <3>2
  <2> HIDE DEF T
  <2>3. \A n \in 0..Len(s) : n \in T
    BY <1>1, <2>1, <2>2, UptoInduction
  <2>4. Len(s) \in T
    BY <1>1, <2>3
  <2> QED
    BY <1>1, <2>4 DEF T, ToSet
<1>4. ElementsAt(s, places, Len(s)) \subseteq ToSet(s)
  BY <1>1 DEF ElementsAt, ToSet
<1> HIDE DEF places
<1>5. Keep(s, places) \in Seq(S) /\ ToSet(Keep(s, places)) = ElementsAt(s, places, Len(s))
  BY KeepType, KeepElements
<1>6. IsInjective(Keep(s, places))
  BY <1>2, KeepInjective
<1>7. ToSet(Keep(s, places)) = ToSet(s)
  BY <1>3, <1>4, <1>5
<1> QED
  BY <1>5, <1>6, <1>7 DEF places

-----------------------------------------------------------------------------
(* Sequences one after the other *)

\* Two sequences together have the elements of both.
LEMMA ConcatElements ==
    ASSUME NEW S, NEW s \in Seq(S), NEW t \in Seq(S)
    PROVE  s \o t \in Seq(S) /\ ToSet(s \o t) = ToSet(s) \cup ToSet(t)
<1> DEFINE all == s \o t
<1>1. /\ all \in Seq(S) /\ Len(s) \in Nat /\ Len(t) \in Nat
      /\ DOMAIN s = 1..Len(s) /\ DOMAIN t = 1..Len(t) /\ DOMAIN all = 1..(Len(s) + Len(t))
      /\ \A i \in 1..Len(s) : all[i] = s[i]
      /\ \A i \in 1..Len(t) : all[Len(s) + i] = t[i]
  OBVIOUS
<1> HIDE DEF all
<1>2. ToSet(all) \subseteq ToSet(s) \cup ToSet(t)
  <2> SUFFICES ASSUME NEW i \in 1..(Len(s) + Len(t)) PROVE all[i] \in ToSet(s) \cup ToSet(t)
    BY <1>1 DEF ToSet
  <2>1. CASE i \in 1..Len(s)
    BY <1>1, <2>1 DEF ToSet
  <2>2. CASE i \notin 1..Len(s)
    <3>1. i - Len(s) \in 1..Len(t) /\ Len(s) + (i - Len(s)) = i
      BY <1>1, <2>2
    <3> QED
      BY <1>1, <3>1 DEF ToSet
  <2> QED
    BY <2>1, <2>2
<1>3. ToSet(s) \cup ToSet(t) \subseteq ToSet(all)
  <2>1. /\ \A i \in 1..Len(s) : i \in 1..(Len(s) + Len(t))
        /\ \A i \in 1..Len(t) : Len(s) + i \in 1..(Len(s) + Len(t))
    BY <1>1
  <2> QED
    BY <1>1, <2>1 DEF ToSet
<1> QED
  BY <1>1, <1>2, <1>3 DEF all

\* Sequences in a row have the elements of each.
LEMMA FlattenElements ==
    ASSUME NEW S, NEW seqs \in Seq(Seq(S))
    PROVE  /\ FlattenSeq(seqs) \in Seq(S)
           /\ ToSet(FlattenSeq(seqs)) = UNION {ToSet(seqs[i]) : i \in 1..Len(seqs)}
<1> DEFINE Step(G, i) == IF i = 1 THEN seqs[i] ELSE G[i - 1] \o seqs[i]
           Solves(G) == G = [i \in 1..Len(seqs) |-> Step(G, i)]
           T == {m \in 0..Len(seqs) :
                   \E G \in [1..m -> Seq(S)] : \A n \in 1..m : G[n] = Step(G, n)}
<1>0. Len(seqs) \in Nat /\ \A n \in 1..Len(seqs) : seqs[n] \in Seq(S)
  OBVIOUS
<1>1. 0 \in T
  <2> DEFINE G == [n \in 1..0 |-> <<>>]
  <2>1. G \in [1..0 -> Seq(S)] /\ \A n \in 1..0 : G[n] = Step(G, n)
    OBVIOUS
  <2>2. 0 \in 0..Len(seqs)
    BY <1>0
  <2> HIDE DEF G, Step
  <2> QED
    BY <2>1, <2>2
<1>2. ASSUME NEW m \in 1..Len(seqs), m - 1 \in T PROVE m \in T
  <2>1. PICK G \in [1..(m - 1) -> Seq(S)] : \A n \in 1..(m - 1) : G[n] = Step(G, n)
    BY <1>2
  <2> DEFINE H == [n \in 1..m |-> IF n = m THEN Step(G, m) ELSE G[n]]
  <2>2. Step(G, m) \in Seq(S)
    <3>1. CASE m = 1
      BY <1>0, <3>1
    <3>2. CASE m # 1
      <4>1. m - 1 \in 1..(m - 1)
        BY <3>2
      <4>2. G[m - 1] \in Seq(S) /\ seqs[m] \in Seq(S)
        BY <1>0, <2>1, <4>1
      <4> QED
        BY <3>2, <4>2
    <3> QED
      BY <3>1, <3>2
  <2>3. H \in [1..m -> Seq(S)]
    <3> HIDE DEF Step
    <3>1. \A n \in 1..m : n # m => n \in 1..(m - 1)
      OBVIOUS
    <3> QED
      BY <2>1, <2>2, <3>1
  <2>4. ASSUME NEW n \in 1..m PROVE H[n] = Step(H, n)
    <3>1. CASE n = m
      <4>1. n # 1 => n - 1 \in 1..m /\ n - 1 # m
        BY <3>1
      <4>2. n # 1 => H[n - 1] = G[n - 1]
        BY <4>1
      <4>3. H[n] = Step(G, n)
        BY <3>1
      <4> QED
        BY <4>2, <4>3
    <3>2. CASE n # m
      <4>1. n \in 1..(m - 1) /\ H[n] = G[n] /\ (n # 1 => n - 1 \in 1..m /\ n - 1 # m)
        BY <3>2
      <4>2. n # 1 => H[n - 1] = G[n - 1]
        BY <4>1
      <4> QED
        BY <2>1, <4>1, <4>2
    <3> QED
      BY <3>1, <3>2
  <2>5. m \in 0..Len(seqs)
    BY <1>0
  <2>6. \E K \in [1..m -> Seq(S)] : \A n \in 1..m : K[n] = Step(K, n)
    <3> HIDE DEF H, Step
    <3> QED
      BY <2>3, <2>4
  <2> HIDE DEF Step
  <2> QED
    BY <2>5, <2>6
<1>3. Len(seqs) \in T
  <2> HIDE DEF T
  <2>1. \A n \in 0..Len(seqs) : n \in T
    BY <1>0, <1>1, <1>2, UptoInduction
  <2> QED
    BY <1>0, <2>1
<1>4. CASE Len(seqs) = 0
  <2>1. FlattenSeq(seqs) = <<>> /\ seqs = <<>>
    BY <1>4 DEF FlattenSeq
  <2>2. <<>> \in Seq(S) /\ ToSet(<<>>) = {}
    BY DEF ToSet
  <2>3. UNION {ToSet(seqs[i]) : i \in 1..Len(seqs)} = {}
    BY <1>4
  <2> QED
    BY <2>1, <2>2, <2>3, Zenon
<1>5. CASE Len(seqs) # 0
  <2> DEFINE F == CHOOSE H : Solves(H)
  <2>1. FlattenSeq(seqs) = F[Len(seqs)]
    BY <1>5 DEF FlattenSeq
  <2>2. PICK G \in [1..Len(seqs) -> Seq(S)] :
          \A n \in 1..Len(seqs) : G[n] = Step(G, n)
    <3> HIDE DEF Step
    <3> QED
      BY <1>3
  <2>3. Solves(G)
    <3> HIDE DEF Step
    <3> QED
      BY <2>2
  <2>4. Solves(F)
    <3> HIDE DEF Solves
    <3> QED
      BY <2>3
  <2>5. \A n \in 1..Len(seqs) : F[n] = Step(F, n)
    <3> HIDE DEF F, Step
    <3> QED
      BY <2>4
  <2> HIDE DEF F
  <2> DEFINE Upto(n) == UNION {ToSet(seqs[i]) : i \in 1..n}
             U == {n \in 0..Len(seqs) : n > 0 => F[n] \in Seq(S) /\ ToSet(F[n]) = Upto(n)}
  <2>6. 0 \in U
    <3> HIDE DEF Upto
    <3> QED
      BY <1>0
  <2>7. ASSUME NEW m \in 1..Len(seqs), m - 1 \in U PROVE m \in U
    <3>1. F[m] = Step(F, m) /\ seqs[m] \in Seq(S) /\ m \in 0..Len(seqs)
      <4> HIDE DEF Step, U
      <4> QED
        BY <1>0, <2>5
    <3>2. CASE m = 1
      <4>1. F[m] = seqs[m]
        BY <3>1, <3>2
      <4>2. ToSet(F[m]) = Upto(m)
        BY <3>2, <4>1
      <4> HIDE DEF Upto
      <4> QED
        BY <3>1, <4>1, <4>2
    <3>3. CASE m # 1
      <4>1. m - 1 > 0 /\ Step(F, m) = F[m - 1] \o seqs[m]
        <5>1. m - 1 > 0
          BY <3>3
        <5>2. Step(F, m) = F[m - 1] \o seqs[m]
          BY <3>3, Zenon
        <5> QED
          BY <5>1, <5>2
      <4>2. F[m - 1] \in Seq(S) /\ ToSet(F[m - 1]) = Upto(m - 1)
        <5> HIDE DEF Upto
        <5> QED
          BY <2>7, <4>1
      <4>3. F[m - 1] \o seqs[m] \in Seq(S)
        BY <3>1, <4>2
      <4>4. ToSet(F[m - 1] \o seqs[m]) = ToSet(F[m - 1]) \cup ToSet(seqs[m])
        BY <3>1, <4>2, ConcatElements
      <4>5. Upto(m) = Upto(m - 1) \cup ToSet(seqs[m])
        <5>1. 1..m = 1..(m - 1) \cup {m}
          OBVIOUS
        <5> QED
          BY <5>1
      <4>6. F[m] \in Seq(S) /\ ToSet(F[m]) = Upto(m)
        <5> HIDE DEF Upto, Step
        <5> QED
          BY <3>1, <4>1, <4>2, <4>3, <4>4, <4>5, Zenon
      <4> HIDE DEF Upto
      <4> QED
        BY <3>1, <4>6
    <3> QED
      BY <3>2, <3>3
  <2> HIDE DEF U
  <2>8. \A n \in 0..Len(seqs) : n \in U
    BY <1>0, <2>6, <2>7, UptoInduction
  <2>9. F[Len(seqs)] \in Seq(S) /\ ToSet(F[Len(seqs)]) = Upto(Len(seqs))
    <3> HIDE DEF Upto
    <3>1. Len(seqs) \in U /\ Len(seqs) > 0
      BY <1>0, <1>5, <2>8
    <3> QED
      BY <3>1 DEF U
  <2> QED
    BY <2>1, <2>9
<1> QED
  BY <1>4, <1>5
=============================================================================
