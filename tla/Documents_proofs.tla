-------------------------- MODULE Documents_proofs --------------------------
(***************************************************************************)
(* Proofs about Documents, for documents, tables, replies and chains of any  *)
(* length. The functions that LET defines by recursion (Picked, Joined,       *)
(* Placed) are shown to exist, by induction on the first n items, and from    *)
(* then on used by their steps.                                             *)
(***************************************************************************)
EXTENDS Documents, FiniteSetTheorems, SequenceTheorems, WellFoundedInduction, TLAPS

-----------------------------------------------------------------------------
(* Induction, and the functions that are defined by it. *)

\* Well-founded induction in the form used below: a set of numbers that is not empty has a least one.
LEMMA LeastElement ==
    ASSUME NEW T, T \subseteq Nat, T # {}
    PROVE  \E x \in T : \A y \in T : x <= y
<1>1. PICK x \in T : \A y \in T : <<y, x>> \notin OpToRel(<, Nat)
  BY NatLessThanWellFounded, WFMin
<1>2. \A y \in T : ~(y < x)
  BY <1>1 DEF OpToRel
<1> QED
  BY <1>2

LEMMA LeastIsMember ==
    ASSUME NEW T, T \subseteq Nat, T # {}
    PROVE  Min(T) \in T /\ \A y \in T : Min(T) <= y
BY LeastElement DEF Min

\* A set that has 0, and with each number below N the next one, has every number up to N.
LEMMA Induction ==
    ASSUME NEW N \in Nat, NEW G, 0 \in G, \A n \in 0..(N - 1) : n \in G => n + 1 \in G
    PROVE  \A n \in 0..N : n \in G
<1> DEFINE missing == (0..N) \ G
<1> SUFFICES ASSUME missing # {} PROVE FALSE
  OBVIOUS
<1>1. PICK x \in missing : \A y \in missing : x <= y
  <2>1. missing \subseteq Nat
    OBVIOUS
  <2> HIDE DEF missing
  <2> QED
    BY <2>1, LeastElement
<1>2. x # 0 /\ x \in 1..N
  OBVIOUS
<1>3. x - 1 \in G
  BY <1>1, <1>2
<1> QED
  BY <1>2, <1>3

\* A function over 0..N is given by its first value and by what each step makes of the value before.
Iterates(f, N, S, a, step) == f \in [0..N -> S] /\ f[0] = a /\ \A n \in 1..N : f[n] = step[n][f[n - 1]]

\* There is a function with a given first value and given steps: what LET f[n \in ..] == .. chooses exists.
LEMMA Recursion ==
    ASSUME NEW N \in Nat, NEW S, NEW a \in S, NEW step \in [1..N -> [S -> S]]
    PROVE  \E f : Iterates(f, N, S, a, step)
<1> DEFINE Fits(m, f) == f[0] = a /\ \A n \in 1..m : f[n] = step[n][f[n - 1]]
           G == {m \in 0..N : \E f \in [0..m -> S] : Fits(m, f)}
<1>1. 0 \in G
  <2> DEFINE f == [n \in 0..0 |-> a]
  <2>1. f \in [0..0 -> S] /\ Fits(0, f)
    OBVIOUS
  <2> HIDE DEF f, Fits
  <2>2. \E h \in [0..0 -> S] : Fits(0, h)
    BY <2>1
  <2> QED
    BY <2>2
<1>2. \A m \in 0..(N - 1) : m \in G => m + 1 \in G
  <2> SUFFICES ASSUME NEW m \in 0..(N - 1), m \in G PROVE m + 1 \in G
    OBVIOUS
  <2>1. PICK f \in [0..m -> S] : Fits(m, f)
    OBVIOUS
  <2> DEFINE g == [n \in 0..(m + 1) |-> IF n = m + 1 THEN step[m + 1][f[m]] ELSE f[n]]
  <2>2. m + 1 \in 1..N /\ m \in 0..m /\ f[m] \in S /\ m \in Nat
    OBVIOUS
  <2>3. step[m + 1][f[m]] \in S
    <3> HIDE DEF Fits
    <3> QED
      BY <2>2
  <2>4. g \in [0..(m + 1) -> S]
    <3> HIDE DEF Fits
    <3> QED
      BY <2>2, <2>3
  <2>5. g[0] = a
    BY <2>1, <2>2
  <2>6. \A n \in 1..(m + 1) : g[n] = step[n][g[n - 1]]
    <3> SUFFICES ASSUME NEW n \in 1..(m + 1) PROVE g[n] = step[n][g[n - 1]]
      OBVIOUS
    <3>1. CASE n = m + 1
      BY <3>1, <2>2
    <3>2. CASE n # m + 1
      BY <3>2, <2>1, <2>2
    <3> QED
      BY <3>1, <3>2
  <2>7. m + 1 \in 0..N
    OBVIOUS
  <2> HIDE DEF g
  <2> QED
    BY <2>4, <2>5, <2>6, <2>7
<1>3. \A m \in 0..N : m \in G
  <2> HIDE DEF G
  <2> QED
    BY <1>1, <1>2, Induction
<1>4. N \in 0..N
  OBVIOUS
<1>5. PICK f \in [0..N -> S] : Fits(N, f)
  BY <1>3, <1>4
<1>6. Iterates(f, N, S, a, step)
  BY <1>5 DEF Iterates
<1> QED
  BY <1>6

-----------------------------------------------------------------------------
(* Sequences. *)

\* A sequence of any length of some values; which ones does not matter.
IsSeq(s) == s \in Seq({s[i] : i \in DOMAIN s})

\* Any sequence is one of its own elements, and the other way round.
LEMMA SeqOfSome ==
    ASSUME NEW S, NEW s \in Seq(S)
    PROVE  IsSeq(s)
<1> DEFINE V == {s[i] : i \in DOMAIN s}
<1>1. Len(s) \in Nat /\ s = [i \in 1..Len(s) |-> s[i]] /\ \A i \in 1..Len(s) : s[i] \in V
  OBVIOUS
<1> HIDE DEF V
<1>2. s \in Seq(V)
  BY <1>1
<1> QED
  BY <1>2 DEF IsSeq, V

LEMMA SeqIsTyped ==
    ASSUME NEW s, IsSeq(s)
    PROVE  \E S : s \in Seq(S)
<1>1. s \in Seq({s[i] : i \in DOMAIN s})
  BY DEF IsSeq
<1> QED
  BY <1>1, Zenon

\* The domain of a sequence gives its length.
LEMMA SameLength ==
    ASSUME NEW m \in Nat, NEW n \in Nat, 1..m = 1..n
    PROVE  m = n
<1>1. CASE m < n
  <2>1. n \in 1..n /\ n \notin 1..m
    BY <1>1
  <2> QED
    BY <2>1
<1>2. CASE n < m
  <2>1. m \in 1..m /\ m \notin 1..n
    BY <1>2
  <2> QED
    BY <2>1
<1> QED
  BY <1>1, <1>2

LEMMA MapIsSeq ==
    ASSUME NEW n \in Nat, NEW s, DOMAIN s = 1..n, s = [i \in 1..n |-> s[i]]
    PROVE  IsSeq(s) /\ Len(s) = n
<1> DEFINE V == {s[i] : i \in DOMAIN s}
<1>1. \A i \in 1..n : s[i] \in V
  OBVIOUS
<1> HIDE DEF V
<1>2. s \in Seq(V)
  BY <1>1
<1> QED
  BY <1>2 DEF IsSeq, V

\* What Picked unfolds to.
PickedBy(g, s, at) ==
    g = [n \in 0..Len(s) |-> (IF n = 0 THEN <<>> ELSE (IF n \in at THEN Append(g[n - 1], s[n]) ELSE g[n - 1]))]

\* Picked is the end of a function that appends the items picked so far.
LEMMA PickedUnfolds ==
    ASSUME NEW S, NEW s \in Seq(S), NEW at
    PROVE  \E g \in [0..Len(s) -> Seq(S)] :
            /\ Picked(s, at) = g[Len(s)] /\ g[0] = <<>>
            /\ \A n \in 1..Len(s) : g[n] = IF n \in at THEN Append(g[n - 1], s[n]) ELSE g[n - 1]
<1> DEFINE step == [n \in 1..Len(s) |-> [r \in Seq(S) |-> IF n \in at THEN Append(r, s[n]) ELSE r]]
<1>1. step \in [1..Len(s) -> [Seq(S) -> Seq(S)]] /\ <<>> \in Seq(S) /\ Len(s) \in Nat
  OBVIOUS
<1>2. PICK f \in [0..Len(s) -> Seq(S)] : f[0] = <<>> /\ \A n \in 1..Len(s) : f[n] = step[n][f[n - 1]]
  <2>1. \E f : Iterates(f, Len(s), Seq(S), <<>>, step)
    <3> HIDE DEF step
    <3> QED
      BY <1>1, Recursion
  <2> QED
    BY <2>1 DEF Iterates
<1>3. \A n \in 1..Len(s) : f[n - 1] \in Seq(S)
  BY <1>1
<1>4. \A n \in 1..Len(s) : f[n] = IF n \in at THEN Append(f[n - 1], s[n]) ELSE f[n - 1]
  BY <1>2, <1>3
<1>5. PickedBy(f, s, at)
  <2>1. f = [n \in 0..Len(s) |-> f[n]]
    OBVIOUS
  <2>2. \A n \in 0..Len(s) : f[n] = IF n = 0 THEN <<>> ELSE (IF n \in at THEN Append(f[n - 1], s[n]) ELSE f[n - 1])
    <3>1. \A n \in 0..Len(s) : n = 0 \/ n \in 1..Len(s)
      BY <1>1
    <3> QED
      BY <3>1, <1>2, <1>4
  <2> QED
    BY <2>1, <2>2, Zenon DEF PickedBy
<1> DEFINE G == CHOOSE g : PickedBy(g, s, at)
<1>6. PickedBy(G, s, at)
  BY <1>5, Zenon
<1>7. Picked(s, at) = G[Len(s)]
  BY DEF Picked, PickedBy
<1> HIDE DEF G
<1>8. G[0] = <<>> /\ \A n \in 1..Len(s) : G[n] = IF n \in at THEN Append(G[n - 1], s[n]) ELSE G[n - 1]
  <2>1. \A n \in 0..Len(s) : G[n] = IF n = 0 THEN <<>> ELSE (IF n \in at THEN Append(G[n - 1], s[n]) ELSE G[n - 1])
    BY <1>6, Zenon DEF PickedBy
  <2>2. 0 \in 0..Len(s) /\ \A n \in 1..Len(s) : n \in 0..Len(s) /\ n # 0
    BY <1>1
  <2> QED
    BY <2>1, <2>2, Zenon
<1> DEFINE Typed == {n \in 0..Len(s) : G[n] \in Seq(S)}
<1>9. \A n \in 0..Len(s) : n \in Typed
  <2>1. 0 \in Typed
    <3>1. 0 \in 0..Len(s) /\ <<>> \in Seq(S)
      BY <1>1
    <3> QED
      BY <3>1, <1>8, Zenon
  <2>2. \A n \in 0..(Len(s) - 1) : n \in Typed => n + 1 \in Typed
    <3> SUFFICES ASSUME NEW n \in 0..(Len(s) - 1), G[n] \in Seq(S) PROVE G[n + 1] \in Seq(S)
      BY <1>1
    <3>1. n + 1 \in 1..Len(s) /\ (n + 1) - 1 = n /\ s[n + 1] \in S
      BY <1>1
    <3>2. G[n + 1] = IF n + 1 \in at THEN Append(G[n], s[n + 1]) ELSE G[n]
      BY <3>1, <1>8
    <3> QED
      BY <3>1, <3>2
  <2> HIDE DEF Typed
  <2> QED
    BY <1>1, <2>1, <2>2, Induction
<1>10. G \in [0..Len(s) -> Seq(S)]
  BY <1>6, <1>9 DEF PickedBy
<1> QED
  BY <1>7, <1>8, <1>10

-----------------------------------------------------------------------------
(* The place of a position among others: what InOrder counts. *)

Rank(at, i) == Cardinality({j \in at : j <= i})

\* A position has a rank among the positions picked.
LEMMA RankBounds ==
    ASSUME NEW n \in Nat, NEW at, at \subseteq 1..n
    PROVE  /\ IsFiniteSet(at) /\ Cardinality(at) \in Nat
           /\ \A i \in at : Rank(at, i) \in 1..Cardinality(at)
<1>1. IsFiniteSet(1..n)
  BY FS_Interval
<1>2. IsFiniteSet(at)
  BY <1>1, FS_Subset
<1>3. Cardinality(at) \in Nat
  BY <1>2, FS_CardinalityType
<1>4. ASSUME NEW i \in at PROVE Rank(at, i) \in 1..Cardinality(at)
  <2> DEFINE T == {j \in at : j <= i}
  <2>1. T \in SUBSET at /\ T # {}
    OBVIOUS
  <2> HIDE DEF T
  <2>2. IsFiniteSet(T) /\ Cardinality(T) <= Cardinality(at)
    BY <1>2, <2>1, FS_Subset
  <2>3. Cardinality(T) \in Nat /\ Cardinality(T) # 0
    BY <2>1, <2>2, FS_CardinalityType, FS_EmptySet
  <2>4. Cardinality(T) \in 1..Cardinality(at)
    BY <1>3, <2>2, <2>3
  <2> QED
    BY <2>4 DEF Rank, T
<1> QED
  BY <1>2, <1>3, <1>4

\* A later position changes the rank of none before it.
LEMMA RankGrows ==
    ASSUME NEW n \in Nat \ {0}, NEW at, at \subseteq 1..(n - 1)
    PROVE  /\ Cardinality(at \cup {n}) = Cardinality(at) + 1
           /\ \A i \in at : Rank(at \cup {n}, i) = Rank(at, i)
           /\ Rank(at \cup {n}, n) = Cardinality(at) + 1
<1>1. n - 1 \in Nat /\ n \notin at
  OBVIOUS
<1>2. IsFiniteSet(at)
  BY <1>1, RankBounds
<1>3. Cardinality(at \cup {n}) = Cardinality(at) + 1
  BY <1>1, <1>2, FS_AddElement
<1>4. ASSUME NEW i \in at PROVE Rank(at \cup {n}, i) = Rank(at, i)
  <2>1. {j \in at \cup {n} : j <= i} = {j \in at : j <= i}
    OBVIOUS
  <2> QED
    BY <2>1 DEF Rank
<1>5. {j \in at \cup {n} : j <= n} = at \cup {n}
  <2>1. \A j \in at \cup {n} : j <= n
    OBVIOUS
  <2> QED
    BY <2>1
<1> QED
  BY <1>3, <1>4, <1>5 DEF Rank

\* Every place is taken.
LEMMA RankOnto ==
    ASSUME NEW N \in Nat, NEW at, at \subseteq 1..N, NEW p \in 1..Cardinality(at)
    PROVE  \E i \in at : Rank(at, i) = p
<1> DEFINE Onto(S) == \A q \in 1..Cardinality(S) : \E i \in S : Rank(S, i) = q
           G == {n \in 0..N : Onto(at \cap (1..n))}
<1>1. 0 \in G
  <2>1. at \cap (1..0) = {}
    OBVIOUS
  <2>2. Onto({})
    BY FS_EmptySet
  <2>3. 0 \in 0..N
    OBVIOUS
  <2> HIDE DEF Onto
  <2> QED
    BY <2>1, <2>2, <2>3
<1>2. \A n \in 0..(N - 1) : n \in G => n + 1 \in G
  <2> SUFFICES ASSUME NEW n \in 0..(N - 1), Onto(at \cap (1..n)) PROVE n + 1 \in G
    BY Zenon
  <2> DEFINE S == at \cap (1..n)
             T == at \cap (1..(n + 1))
  <2>1. n + 1 \in 0..N /\ n + 1 \in Nat \ {0} /\ n \in Nat
    OBVIOUS
  <2>2. CASE n + 1 \in at
    <3>1. T = S \cup {n + 1}
      BY <2>2
    <3>0. S \subseteq 1..((n + 1) - 1) /\ S \subseteq 1..n
      OBVIOUS
    <3> HIDE DEF S, T
    <3>2. /\ Cardinality(T) = Cardinality(S) + 1
          /\ \A i \in S : Rank(T, i) = Rank(S, i)
          /\ Rank(T, n + 1) = Cardinality(S) + 1
      <4> DEFINE m == n + 1
      <4>1. m \in Nat \ {0} /\ S \subseteq 1..(m - 1)
        BY <2>1, <3>0
      <4> HIDE DEF m
      <4>2. /\ Cardinality(S \cup {m}) = Cardinality(S) + 1
            /\ \A i \in S : Rank(S \cup {m}, i) = Rank(S, i)
            /\ Rank(S \cup {m}, m) = Cardinality(S) + 1
        BY <4>1, RankGrows
      <4> QED
        BY <3>1, <4>2 DEF m
    <3>3. Cardinality(S) \in Nat
      BY <2>1, <3>0, RankBounds
    <3>4. ASSUME NEW q \in 1..Cardinality(T) PROVE \E i \in T : Rank(T, i) = q
      <4>1. CASE q = Cardinality(T)
        BY <3>1, <3>2, <4>1
      <4>2. CASE q # Cardinality(T)
        <5>1. q \in 1..Cardinality(S)
          BY <3>2, <3>3, <4>2
        <5>2. PICK i \in S : Rank(S, i) = q
          BY <5>1 DEF S
        <5> QED
          BY <3>1, <3>2, <5>2
      <4> QED
        BY <4>1, <4>2
    <3>5. Onto(T)
      BY <3>4
    <3> HIDE DEF Onto
    <3> QED
      BY <2>1, <3>5 DEF T
  <2>3. CASE n + 1 \notin at
    <3>1. T = S
      BY <2>3
    <3> HIDE DEF Onto
    <3>2. Onto(T)
      BY <3>1
    <3> QED
      BY <2>1, <3>2
  <2> QED
    BY <2>2, <2>3
<1>3. \A n \in 0..N : n \in G
  <2> HIDE DEF G
  <2> QED
    BY <1>1, <1>2, Induction
<1>4. at \cap (1..N) = at
  BY Zenon
<1>5. N \in 0..N
  OBVIOUS
<1>6. Onto(at)
  <2> HIDE DEF Onto
  <2> QED
    BY <1>3, <1>4, <1>5
<1> QED
  BY <1>6

LEMMA InOrderEmpty ==
    ASSUME NEW of
    PROVE  InOrder(<<>>, of, {})
BY FS_EmptySet DEF InOrder

\* Appending the item at the next position keeps the order.
LEMMA InOrderAppend ==
    ASSUME NEW S, NEW list \in Seq(S), NEW of, NEW n \in Nat \ {0}, of[n] \in S,
           NEW at, at \subseteq 1..(n - 1), InOrder(list, of, at)
    PROVE  InOrder(Append(list, of[n]), of, at \cup {n})
<1> DEFINE longer == Append(list, of[n])
           more == at \cup {n}
<1>1. Len(longer) = Len(list) + 1 /\ longer[Len(list) + 1] = of[n] /\ \A p \in 1..Len(list) : longer[p] = list[p]
  OBVIOUS
<1>2. n - 1 \in Nat
  OBVIOUS
<1>3. /\ Cardinality(at) = Len(list)
      /\ \A i \in at : Rank(at, i) \in 1..Len(list) /\ list[Rank(at, i)] = of[i]
  BY <1>2, RankBounds DEF InOrder, Rank
<1>4. /\ Cardinality(more) = Cardinality(at) + 1
      /\ \A i \in at : Rank(more, i) = Rank(at, i)
      /\ Rank(more, n) = Cardinality(at) + 1
  BY RankGrows
<1> HIDE DEF longer
<1>5. ASSUME NEW i \in more PROVE longer[Rank(more, i)] = of[i]
  <2>1. CASE i = n
    BY <1>1, <1>3, <1>4, <2>1
  <2>2. CASE i \in at
    BY <1>1, <1>3, <1>4, <2>2
  <2> QED
    BY <2>1, <2>2
<1>6. Len(longer) = Cardinality(more)
  BY <1>1, <1>3, <1>4
<1> QED
  BY <1>5, <1>6 DEF InOrder, Rank, longer

\* What Picked gives.
LEMMA PickedInOrder ==
    ASSUME NEW S, NEW s \in Seq(S), NEW at, at \subseteq DOMAIN s
    PROVE  /\ Picked(s, at) \in Seq(S) /\ InOrder(Picked(s, at), s, at)
           /\ \A p \in DOMAIN Picked(s, at) : \E i \in at : Picked(s, at)[p] = s[i] /\ Rank(at, i) = p
<1>1. Len(s) \in Nat /\ DOMAIN s = 1..Len(s)
  OBVIOUS
<1>2. PICK g \in [0..Len(s) -> Seq(S)] :
            /\ Picked(s, at) = g[Len(s)] /\ g[0] = <<>>
            /\ \A n \in 1..Len(s) : g[n] = IF n \in at THEN Append(g[n - 1], s[n]) ELSE g[n - 1]
  BY PickedUnfolds
<1> DEFINE G == {n \in 0..Len(s) : InOrder(g[n], s, at \cap (1..n))}
<1>3. 0 \in G
  <2>1. at \cap (1..0) = {} /\ 0 \in 0..Len(s)
    BY <1>1
  <2> QED
    BY <1>2, <2>1, InOrderEmpty
<1>4. \A n \in 0..(Len(s) - 1) : n \in G => n + 1 \in G
  <2> SUFFICES ASSUME NEW n \in 0..(Len(s) - 1), InOrder(g[n], s, at \cap (1..n)) PROVE n + 1 \in G
    BY Zenon
  <2>1. /\ n + 1 \in 0..Len(s) /\ n + 1 \in 1..Len(s) /\ n + 1 \in Nat \ {0} /\ (n + 1) - 1 = n
        /\ n \in 0..Len(s) /\ s[n + 1] \in S
    BY <1>1
  <2>2. g[n] \in Seq(S) /\ g[n + 1] = IF n + 1 \in at THEN Append(g[n], s[n + 1]) ELSE g[n]
    BY <1>2, <2>1
  <2>3. CASE n + 1 \in at
    <3>1. at \cap (1..(n + 1)) = (at \cap (1..n)) \cup {n + 1}
      BY <2>1, <2>3
    <3>2. InOrder(Append(g[n], s[n + 1]), s, (at \cap (1..n)) \cup {n + 1})
      BY <2>1, <2>2, InOrderAppend
    <3> QED
      BY <2>1, <2>2, <2>3, <3>1, <3>2
  <2>4. CASE n + 1 \notin at
    <3>1. at \cap (1..(n + 1)) = at \cap (1..n)
      BY <2>1, <2>4
    <3> QED
      BY <2>1, <2>2, <2>4, <3>1
  <2> QED
    BY <2>3, <2>4
<1>5. \A n \in 0..Len(s) : n \in G
  <2> HIDE DEF G
  <2> QED
    BY <1>1, <1>3, <1>4, Induction
<1>6. Len(s) \in 0..Len(s) /\ at \cap (1..Len(s)) = at /\ at \subseteq 1..Len(s)
  BY <1>1
<1>7. Picked(s, at) \in Seq(S) /\ InOrder(Picked(s, at), s, at)
  BY <1>2, <1>5, <1>6
<1>8. ASSUME NEW p \in DOMAIN Picked(s, at)
      PROVE  \E i \in at : Picked(s, at)[p] = s[i] /\ Rank(at, i) = p
  <2>1. p \in 1..Cardinality(at)
    BY <1>7 DEF InOrder
  <2>2. PICK i \in at : Rank(at, i) = p
    BY <1>1, <1>6, <2>1, RankOnto
  <2> QED
    BY <1>7, <2>2 DEF InOrder, Rank
<1> QED
  BY <1>7, <1>8

\* Of two positions the later one has the higher rank.
LEMMA RankMonotone ==
    ASSUME NEW n \in Nat, NEW at, at \subseteq 1..n, NEW i \in at, NEW j \in at
    PROVE  j <= i <=> Rank(at, j) <= Rank(at, i)
<1> DEFINE Before(k) == {h \in at : h <= k}
<1>1. IsFiniteSet(at) /\ Cardinality(at) \in Nat /\ \A k \in at : k \in Nat /\ Rank(at, k) \in 1..Cardinality(at)
  <2>1. \A k \in at : k \in Nat
    OBVIOUS
  <2>2. IsFiniteSet(at) /\ Cardinality(at) \in Nat /\ \A k \in at : Rank(at, k) \in 1..Cardinality(at)
    BY RankBounds
  <2> QED
    BY <2>1, <2>2
<1>2. ASSUME NEW x \in at, NEW y \in at, x < y PROVE Cardinality(Before(x)) < Cardinality(Before(y))
  <2>0. /\ \A h \in Before(x) : h \in Before(y)
        /\ y \in Before(y) /\ y \notin Before(x) /\ \A h \in Before(y) : h \in at
    BY <1>1, <1>2
  <2>1. Before(x) \in SUBSET Before(y) /\ Before(x) # Before(y) /\ Before(y) \in SUBSET at
    <3> HIDE DEF Before
    <3> QED
      BY <2>0
  <2> HIDE DEF Before
  <2>2. IsFiniteSet(Before(y))
    BY <1>1, <2>1, FS_Subset
  <2>3. IsFiniteSet(Before(x)) /\ Cardinality(Before(x)) <= Cardinality(Before(y)) /\ Cardinality(Before(x)) # Cardinality(Before(y))
    BY <2>1, <2>2, FS_Subset
  <2>4. Cardinality(Before(x)) \in Nat /\ Cardinality(Before(y)) \in Nat
    BY <2>2, <2>3, FS_CardinalityType
  <2> QED
    BY <2>3, <2>4
<1>3. Rank(at, i) = Cardinality(Before(i)) /\ Rank(at, j) = Cardinality(Before(j))
  BY DEF Rank
<1>4. Rank(at, i) \in Nat /\ Rank(at, j) \in Nat /\ i \in Nat /\ j \in Nat
  BY <1>1
<1> HIDE DEF Before
<1>5. CASE j < i
  BY <1>2, <1>3, <1>4, <1>5
<1>6. CASE i < j
  BY <1>2, <1>3, <1>4, <1>6
<1>7. CASE i = j
  BY <1>4, <1>7
<1> QED
  BY <1>5, <1>6, <1>7

\* Y are the ranks of the positions in X.
RanksOf(at, X, Y) == (\A i \in X : i \in at /\ Rank(at, i) \in Y) /\ \A y \in Y : \E i \in X : Rank(at, i) = y

\* As many ranks as positions.
LEMMA RanksCounted ==
    ASSUME NEW n \in Nat, NEW at, at \subseteq 1..n, NEW X, NEW Y, RanksOf(at, X, Y)
    PROVE  Cardinality(Y) = Cardinality(X)
<1> DEFINE f == [i \in X |-> Rank(at, i)]
<1>0. \A i \in X : i \in at /\ i \in Nat
  <2>1. \A i \in at : i \in Nat
    OBVIOUS
  <2> QED
    BY <2>1, Zenon DEF RanksOf
<1>1. IsFiniteSet(X)
  BY <1>0, RankBounds, FS_Subset
<1>2. f \in [X -> Y] /\ \A y \in Y : \E i \in X : f[i] = y
  BY DEF RanksOf
<1>3. \A i, j \in X : f[i] = f[j] => i = j
  <2> SUFFICES ASSUME NEW i \in X, NEW j \in X, Rank(at, i) = Rank(at, j) PROVE i = j
    OBVIOUS
  <2>1. i \in at /\ j \in at /\ i \in Nat /\ j \in Nat
    BY <1>0
  <2>2. Rank(at, i) \in Nat
    <3>1. Cardinality(at) \in Nat /\ Rank(at, i) \in 1..Cardinality(at)
      BY <2>1, RankBounds
    <3> QED
      BY <3>1
  <2>3. (j <= i <=> Rank(at, j) <= Rank(at, i)) /\ (i <= j <=> Rank(at, i) <= Rank(at, j))
    BY <2>1, RankMonotone
  <2> QED
    BY <2>1, <2>2, <2>3
<1> HIDE DEF f
<1>4. f \in Surjection(X, Y) /\ f \in Injection(X, Y)
  BY <1>2, <1>3 DEF Surjection, Injection, IsInjective
<1> QED
  BY <1>1, <1>4, FS_Surjection

\* What is picked of what was picked: the rank among all, of what is picked twice.
LEMMA RankComposed ==
    ASSUME NEW n \in Nat, NEW at, at \subseteq 1..n, NEW again, again \subseteq 1..Cardinality(at)
    PROVE  LET both == {i \in at : Rank(at, i) \in again}
           IN  Cardinality(both) = Cardinality(again) /\ \A i \in both : Rank(both, i) = Rank(again, Rank(at, i))
<1> DEFINE both == {i \in at : Rank(at, i) \in again}
<1>1. \A p \in again : \E i \in both : Rank(at, i) = p
  <2> SUFFICES ASSUME NEW p \in again PROVE \E i \in both : Rank(at, i) = p
    OBVIOUS
  <2>1. p \in 1..Cardinality(at)
    OBVIOUS
  <2>2. PICK i \in at : Rank(at, i) = p
    BY <2>1, RankOnto
  <2> QED
    BY <2>2
<1>2. Cardinality(again) = Cardinality(both)
  <2>1. \A i \in both : i \in at /\ Rank(at, i) \in again
    OBVIOUS
  <2> HIDE DEF both
  <2>2. RanksOf(at, both, again)
    BY <1>1, <2>1 DEF RanksOf
  <2> QED
    BY <2>2, RanksCounted
<1>3. ASSUME NEW i \in both PROVE Rank(both, i) = Rank(again, Rank(at, i))
  <2> DEFINE X == {j \in both : j <= i}
             Y == {p \in again : p <= Rank(at, i)}
  <2>1. i \in at /\ \A j \in both : j \in at /\ Rank(at, j) \in again
    OBVIOUS
  <2> HIDE DEF both
  <2>2. \A j \in both : j <= i <=> Rank(at, j) <= Rank(at, i)
    BY <2>1, RankMonotone
  <2>3. (\A j \in X : j \in at /\ Rank(at, j) \in Y) /\ \A p \in Y : \E j \in X : Rank(at, j) = p
    BY <1>1, <2>1, <2>2
  <2>4. Cardinality(Y) = Cardinality(X)
    <3> HIDE DEF X, Y
    <3>1. RanksOf(at, X, Y)
      BY <2>3 DEF RanksOf
    <3> QED
      BY <3>1, RanksCounted
  <2> QED
    BY <2>4 DEF Rank
<1> QED
  BY <1>2, <1>3

-----------------------------------------------------------------------------
(* The form of what the chain passes around, whatever its types. *)

Scalar(v) == v = Null \/ v = Num(v.val) \/ v = Text(v.val) \/ v = True \/ v = Half(v.val)
ListOf(v, Item(_)) == v = List(v.val) /\ IsSeq(v.val) /\ \A i \in DOMAIN v.val : Item(v.val[i])
Flat(v)   == Scalar(v) \/ ListOf(v, Scalar)
Nested(v) == Scalar(v) \/ ListOf(v, Flat)

FormedTable(v) ==
    v = Dict(v.val) /\ {"headers", "rows"} \subseteq DOMAIN v.val /\ Flat(v.val["headers"]) /\ Nested(v.val["rows"])

FormedSection(v) ==
    /\ v = Dict(v.val) /\ {"heading", "level", "paragraphs", "bullets"} \subseteq DOMAIN v.val
    /\ Scalar(v.val["heading"]) /\ Scalar(v.val["level"])
    /\ Flat(v.val["paragraphs"]) /\ Flat(v.val["bullets"])
    /\ "table" \in DOMAIN v.val => Scalar(v.val["table"]) \/ FormedTable(v.val["table"])

FormedSections(v) == ListOf(v, FormedSection)

\* A section of a reply: fields may be missing.
FormedRaw(v) ==
    /\ v = Dict(v.val) /\ Scalar(Get(v, "heading")) /\ Scalar(Get(v, "level"))
    /\ Flat(Get(v, "paragraphs")) /\ Flat(Get(v, "bullets"))
    /\ Scalar(Get(v, "table")) \/ FormedTable(Get(v, "table"))
FormedPart(v) == v = Null \/ FormedRaw(v)

FormedReply(raw) ==
    \/ raw = Null
    \/ /\ raw = Dict(raw.val) /\ DOMAIN raw.val \subseteq {"title", "sections"} /\ Scalar(Get(raw, "title"))
       /\ Scalar(Get(raw, "sections")) \/ ListOf(Get(raw, "sections"), FormedPart)

\* The section of a reply that only the output schema refuses.
LevelIsTrue(v) == v.type = "object" /\ Get(v, "level") = True
OneLevelIsTrue(raw) == \E i \in DOMAIN Get(raw, "sections").val : LevelIsTrue(Get(raw, "sections").val[i])

\* What a JSON value is made of and taken apart into.
LEMMA ScalarForms ==
    /\ Scalar(Null) /\ Scalar(True) /\ \A x : Scalar(Text(x)) /\ Scalar(Num(x)) /\ Scalar(Half(x))
    /\ Flat(Null) /\ \A x : Flat(Text(x)) /\ Flat(Num(x))
    /\ \A x : Text(x).val = x /\ Num(x).val = x /\ List(x).val = x /\ Dict(x).val = x
    /\ \A x : Text(x).type = "string" /\ Num(x).type = "integer" /\ List(x).type = "array" /\ Dict(x).type = "object"
    /\ Null.type = "null" /\ Null.val = 0 /\ True.type = "boolean" /\ True.val = TRUE
    /\ \A x : Half(x).val = x /\ Half(x).type = "number"
BY DEF Scalar, Flat, Null, Text, Num, List, Dict, True, Half

LEMMA ShortLists ==
    /\ IsSeq(<<>>)
    /\ \A x : IsSeq(<<x>>)
    /\ \A x, y : IsSeq(<<x, y>>)
<1>1. IsSeq(<<>>)
  BY DEF IsSeq
<1>2. ASSUME NEW x PROVE IsSeq(<<x>>)
  <2>1. <<x>> \in Seq({x})
    OBVIOUS
  <2> QED
    BY <2>1, SeqOfSome
<1>3. ASSUME NEW x, NEW y PROVE IsSeq(<<x, y>>)
  <2>1. <<x, y>> \in Seq({x, y})
    OBVIOUS
  <2> QED
    BY <2>1, SeqOfSome
<1> QED
  BY <1>1, <1>2, <1>3

LEMMA ListForms ==
    ASSUME NEW s, IsSeq(s)
    PROVE  /\ (\A i \in DOMAIN s : Scalar(s[i])) => Flat(List(s))
           /\ (\A i \in DOMAIN s : Flat(s[i])) => Nested(List(s))
BY ScalarForms DEF Flat, Nested, ListOf

LEMMA ShortScalarLists ==
    /\ Flat(List(<<>>)) /\ Nested(List(<<>>))
    /\ \A x : Scalar(x) => Flat(List(<<x>>))
    /\ \A x, y : Scalar(x) /\ Scalar(y) => Flat(List(<<x, y>>))
    /\ \A x : Flat(x) => Nested(List(<<x>>))
    /\ \A x, y : Flat(x) /\ Flat(y) => Nested(List(<<x, y>>))
<1>1. Flat(List(<<>>)) /\ Nested(List(<<>>))
  BY ShortLists, ScalarForms DEF Flat, Nested, ListOf
<1>2. ASSUME NEW x, Scalar(x) PROVE Flat(List(<<x>>))
  BY <1>2, ShortLists, ScalarForms DEF Flat, ListOf
<1>3. ASSUME NEW x, NEW y, Scalar(x), Scalar(y) PROVE Flat(List(<<x, y>>))
  <2>1. \A i \in DOMAIN <<x, y>> : Scalar(<<x, y>>[i])
    BY <1>3
  <2> QED
    BY <2>1, ShortLists, ListForms
<1>4. ASSUME NEW x, Flat(x) PROVE Nested(List(<<x>>))
  BY <1>4, ShortLists, ScalarForms DEF Nested, ListOf
<1>5. ASSUME NEW x, NEW y, Flat(x), Flat(y) PROVE Nested(List(<<x, y>>))
  <2>1. \A i \in DOMAIN <<x, y>> : Flat(<<x, y>>[i])
    BY <1>5
  <2> QED
    BY <2>1, ShortLists, ListForms
<1> QED
  BY <1>1, <1>2, <1>3, <1>4, <1>5

\* The parts of a reply have the form of sections, tables and texts, whichever defect they have.
LEMMA GoodTableFormed ==
    ASSUME NEW k
    PROVE  FormedTable(GoodTable(k))
<1>1. Flat(List(<<Text(<<"column">>)>>)) /\ Nested(List(<<List(<<Text(Name("cell", k))>>)>>))
  BY ShortScalarLists, ScalarForms
<1> QED
  BY <1>1, ScalarForms DEF FormedTable, GoodTable

DefectFormed(defect) ==
    /\ defect[1] \in {"heading", "level"} => Scalar(defect[2])
    /\ defect[1] \in {"paragraphs", "bullets"} => Flat(defect[2]) \/ defect[2] = Absent
    /\ defect[1] = "table" => Scalar(defect[2]) \/ FormedTable(defect[2])

LEMMA DefectsFormed ==
    \A d \in 1..24 : DefectFormed(Defects[d]) /\ Defects[d][1] \in {"heading", "level", "paragraphs", "bullets", "table"}
<1> USE ScalarForms, ShortScalarLists
<1>1. DefectFormed(Defects[1]) /\ Defects[1][1] = "heading"
  BY DEF DefectFormed, Defects
<1>2. DefectFormed(Defects[2]) /\ Defects[2][1] = "heading"
  BY DEF DefectFormed, Defects
<1>3. DefectFormed(Defects[3]) /\ Defects[3][1] = "heading"
  BY DEF DefectFormed, Defects
<1>4. DefectFormed(Defects[4]) /\ Defects[4][1] = "level"
  BY DEF DefectFormed, Defects
<1>5. DefectFormed(Defects[5]) /\ Defects[5][1] = "level"
  BY DEF DefectFormed, Defects
<1>6. DefectFormed(Defects[6]) /\ Defects[6][1] = "level"
  BY DEF DefectFormed, Defects
<1>7. DefectFormed(Defects[7]) /\ Defects[7][1] = "level"
  BY DEF DefectFormed, Defects
<1>8. DefectFormed(Defects[8]) /\ Defects[8][1] = "level"
  BY DEF DefectFormed, Defects
<1>9. DefectFormed(Defects[9]) /\ Defects[9][1] = "level"
  BY DEF DefectFormed, Defects
<1>10. DefectFormed(Defects[10]) /\ Defects[10][1] = "level"
  BY DEF DefectFormed, Defects
<1>11. DefectFormed(Defects[11]) /\ Defects[11][1] = "paragraphs"
  BY DEF DefectFormed, Defects
<1>12. DefectFormed(Defects[12]) /\ Defects[12][1] = "paragraphs"
  BY DEF DefectFormed, Defects
<1>13. DefectFormed(Defects[13]) /\ Defects[13][1] = "paragraphs"
  BY DEF DefectFormed, Defects
<1>14. DefectFormed(Defects[14]) /\ Defects[14][1] = "paragraphs"
  BY DEF DefectFormed, Defects
<1>15. DefectFormed(Defects[15]) /\ Defects[15][1] = "paragraphs"
  <2> DEFINE wrong == List(<<Text(<<Space>>)>>)
  <2>1. Defects[15] = <<"paragraphs", wrong>> /\ Flat(wrong)
    BY DEF Defects
  <2> HIDE DEF wrong
  <2> QED
    BY <2>1 DEF DefectFormed
<1>16. DefectFormed(Defects[16]) /\ Defects[16][1] = "bullets"
  BY DEF DefectFormed, Defects
<1>17. DefectFormed(Defects[17]) /\ Defects[17][1] = "bullets"
  BY DEF DefectFormed, Defects
<1>18. DefectFormed(Defects[18]) /\ Defects[18][1] = "bullets"
  BY DEF DefectFormed, Defects
<1>19. DefectFormed(Defects[19]) /\ Defects[19][1] = "bullets"
  <2> DEFINE wrong == List(<<Text(<<Space, "indented">>)>>)
  <2>1. Defects[19] = <<"bullets", wrong>> /\ Flat(wrong)
    BY DEF Defects
  <2> HIDE DEF wrong
  <2> QED
    BY <2>1 DEF DefectFormed
<1>20. DefectFormed(Defects[20]) /\ Defects[20][1] = "table"
  BY DEF DefectFormed, Defects
<1>21. DefectFormed(Defects[21]) /\ Defects[21][1] = "table"
  <2> DEFINE wrong == Text(<<"cells">>)
  <2>1. Defects[21] = <<"table", wrong>> /\ Scalar(wrong)
    BY DEF Defects
  <2> HIDE DEF wrong
  <2> QED
    BY <2>1 DEF DefectFormed
<1>22. DefectFormed(Defects[22]) /\ Defects[22][1] = "table"
  <2> DEFINE rows == List(<<List(<<Text(<<"1">>)>>)>>)
  <2>1. Flat(Null) /\ Nested(rows)
    OBVIOUS
  <2>2. Defects[22] = <<"table", Dict([headers |-> Null, rows |-> rows])>>
    BY DEF Defects
  <2> HIDE DEF rows
  <2> QED
    BY <2>1, <2>2 DEF DefectFormed, FormedTable
<1>23. DefectFormed(Defects[23]) /\ Defects[23][1] = "table"
  <2> DEFINE headers == List(<<Text(<<"a">>), Text(<<"b">>)>>)
             rows == List(<<Null, List(<<Text(<<"1">>)>>)>>)
  <2>1. Flat(headers) /\ Nested(rows)
    OBVIOUS
  <2>2. Defects[23] = <<"table", Dict([headers |-> headers, rows |-> rows])>>
    BY DEF Defects
  <2> HIDE DEF headers, rows
  <2> QED
    BY <2>1, <2>2 DEF DefectFormed, FormedTable
<1>24. DefectFormed(Defects[24]) /\ Defects[24][1] = "table"
  <2> DEFINE headers == List(<<Text(<<Space, "a">>)>>)
  <2>1. Flat(headers) /\ Nested(Null)
    BY DEF Nested
  <2>2. Defects[24] = <<"table", Dict([headers |-> headers, rows |-> Null])>>
    BY DEF Defects
  <2> HIDE DEF headers
  <2> QED
    BY <2>1, <2>2 DEF DefectFormed, FormedTable
<1> DEFINE Fits(d) == DefectFormed(Defects[d]) /\ Defects[d][1] \in {"heading", "level", "paragraphs", "bullets", "table"}
<1>25. Fits(1) /\ Fits(2) /\ Fits(3) /\ Fits(4) /\ Fits(5) /\ Fits(6) /\ Fits(7) /\ Fits(8)
  BY <1>1, <1>2, <1>3, <1>4, <1>5, <1>6, <1>7, <1>8, Zenon
<1>26. Fits(9) /\ Fits(10) /\ Fits(11) /\ Fits(12) /\ Fits(13) /\ Fits(14) /\ Fits(15) /\ Fits(16)
  BY <1>9, <1>10, <1>11, <1>12, <1>13, <1>14, <1>15, <1>16, Zenon
<1>27. Fits(17) /\ Fits(18) /\ Fits(19) /\ Fits(20) /\ Fits(21) /\ Fits(22) /\ Fits(23) /\ Fits(24)
  BY <1>17, <1>18, <1>19, <1>20, <1>21, <1>22, <1>23, <1>24, Zenon
<1> HIDE DEF Fits
<1>28. (\A d \in 1..8 : Fits(d)) /\ (\A d \in 9..16 : Fits(d)) /\ (\A d \in 17..24 : Fits(d))
  <2>1. \A d \in 1..8 : Fits(d)
    BY <1>25
  <2>2. \A d \in 9..16 : Fits(d)
    BY <1>26
  <2>3. \A d \in 17..24 : Fits(d)
    BY <1>27
  <2> QED
    BY <2>1, <2>2, <2>3
<1>29. \A d \in 1..24 : d \in 1..8 \/ d \in 9..16 \/ d \in 17..24
  OBVIOUS
<1>30. \A d \in 1..24 : Fits(d)
  BY <1>28, <1>29
<1> QED
  BY <1>30 DEF Fits

LEMMA SectionFormFormed ==
    ASSUME NEW k, NEW d \in 0..25
    PROVE  FormedPart(SectionForm(k, d))
<1> USE ScalarForms
<1>1. /\ Flat(List(<<Text(Name("paragraph", k))>>)) /\ Flat(List(<<Text(Name("bullet", k))>>))
      /\ FormedTable(GoodTable(k))
  BY ShortScalarLists, GoodTableFormed
<1>2. CASE d = 0
  <2>1. FormedRaw(Dict(GoodSection(k)))
    BY <1>1 DEF FormedRaw, GoodSection, Get
  <2> QED
    BY <1>2, <2>1 DEF SectionForm, FormedPart
<1>3. CASE d = 1
  BY <1>3 DEF SectionForm, FormedPart
<1>4. CASE d > 1
  <2> DEFINE key == Defects[d - 1][1]
             wrong == Defects[d - 1][2]
             section == Spoilt(GoodSection(k), key, wrong)
  <2>1. d - 1 \in 1..24
    BY <1>4
  <2>2. DefectFormed(Defects[d - 1]) /\ key \in {"heading", "level", "paragraphs", "bullets", "table"}
    BY <2>1, DefectsFormed
  <2>3. SectionForm(k, d) = Dict(section)
    BY <1>4 DEF SectionForm
  <2>4. /\ key \in {"heading", "level"} => Scalar(wrong)
        /\ key \in {"paragraphs", "bullets"} => Flat(wrong) \/ wrong = Absent
        /\ key = "table" => Scalar(wrong) \/ FormedTable(wrong)
    BY <2>2 DEF DefectFormed
  <2> HIDE DEF key, wrong
  <2>5. CASE wrong.type # "absent"
    <3>1. /\ DOMAIN section = {"heading", "level", "paragraphs", "bullets", "table"}
          /\ section["heading"] = IF key = "heading" THEN wrong ELSE Text(Name("heading", k))
          /\ section["level"] = IF key = "level" THEN wrong ELSE Num(k)
          /\ section["paragraphs"] = IF key = "paragraphs" THEN wrong ELSE List(<<Text(Name("paragraph", k))>>)
          /\ section["bullets"] = IF key = "bullets" THEN wrong ELSE List(<<Text(Name("bullet", k))>>)
          /\ section["table"] = IF key = "table" THEN wrong ELSE GoodTable(k)
      BY <2>2, <2>5 DEF GoodSection, Spoilt
    <3>2. wrong # Absent
      BY <2>5 DEF Absent
    <3> HIDE DEF section
    <3>3. FormedRaw(Dict(section))
      BY <1>1, <2>4, <3>1, <3>2 DEF FormedRaw, Get
    <3> QED
      BY <2>3, <3>3 DEF FormedPart
  <2>6. CASE wrong.type = "absent"
    <3>1. /\ DOMAIN section = {"heading", "level", "paragraphs", "bullets", "table"} \ {key}
          /\ \A x \in DOMAIN section : section[x] = GoodSection(k)[x]
      BY <2>2, <2>6 DEF GoodSection, Spoilt
    <3>2. /\ GoodSection(k)["heading"] = Text(Name("heading", k)) /\ GoodSection(k)["level"] = Num(k)
          /\ GoodSection(k)["paragraphs"] = List(<<Text(Name("paragraph", k))>>)
          /\ GoodSection(k)["bullets"] = List(<<Text(Name("bullet", k))>>)
          /\ GoodSection(k)["table"] = GoodTable(k)
      BY DEF GoodSection
    <3> HIDE DEF section
    <3>3. FormedRaw(Dict(section))
      BY <1>1, <3>1, <3>2 DEF FormedRaw, Get
    <3> QED
      BY <2>3, <3>3 DEF FormedPart
  <2> QED
    BY <2>5, <2>6
<1> QED
  BY <1>2, <1>3, <1>4

LEMMA DefectsCounted == Len(Defects) = 24
BY DEF Defects

LEMMA FlawForms ==
    ASSUME NEW n \in Nat, NEW forms \in Nat, NEW flaw \in Flaws(n, forms), NEW k \in 1..n
    PROVE  (IF k = flaw[1] THEN flaw[2] ELSE 0) \in 0..forms
BY DEF Flaws

LEMMA SectionPartsFormed ==
    ASSUME NEW n \in Nat, NEW flaw \in Flaws(n, Len(Defects) + 1)
    PROVE  ListOf(PartsWith(SectionForm, n, flaw), FormedPart)
<1> DEFINE s == [k \in 1..n |-> SectionForm(k, IF k = flaw[1] THEN flaw[2] ELSE 0)]
<1>1. \A k \in 1..n : FormedPart(s[k])
  <2> SUFFICES ASSUME NEW k \in 1..n PROVE FormedPart(s[k])
    OBVIOUS
  <2>1. (IF k = flaw[1] THEN flaw[2] ELSE 0) \in 0..25
    BY DefectsCounted, FlawForms
  <2> QED
    BY <2>1, SectionFormFormed
<1>2. DOMAIN s = 1..n /\ s = [k \in 1..n |-> s[k]]
  OBVIOUS
<1>3. PartsWith(SectionForm, n, flaw) = List(s)
  BY Zenon DEF PartsWith
<1> HIDE DEF s
<1>4. IsSeq(s)
  BY <1>2, MapIsSeq
<1> QED
  BY <1>1, <1>2, <1>3, <1>4, ScalarForms DEF ListOf

\* What a request for sections may be answered with.
SectionReplyIs(raw) ==
    \/ raw = Null
    \/ raw = Dict([title |-> Text(<<"title">>)])
    \/ raw = Dict([title |-> Text(<<"title">>), sections |-> Text(<<"none">>)])
    \/ \E title \in 1..3 : raw = Dict([title |-> <<Null, Num(7), Text(<<"title">>)>>[title], sections |-> Null])
    \/ \E n \in 0..MaxParts : \E flaw \in Flaws(n, Len(Defects) + 1) :
        raw = Dict([title |-> Text(<<"title">>), sections |-> PartsWith(SectionForm, n, flaw)])

\* Every reply to a request for sections has the form of one (SectionReply).
LEMMA SectionRepliesFormed ==
    ASSUME NEW raw, SectionReplyIs(raw)
    PROVE  FormedReply(raw)
<1> USE ScalarForms
<1>1. CASE raw = Null
  BY <1>1 DEF FormedReply
<1>2. CASE raw = Dict([title |-> Text(<<"title">>), sections |-> Text(<<"none">>)])
  BY <1>2 DEF FormedReply, Get
<1>5. CASE raw = Dict([title |-> Text(<<"title">>)])
  BY <1>5 DEF FormedReply, Get
<1>3. ASSUME NEW title \in 1..3, raw = Dict([title |-> <<Null, Num(7), Text(<<"title">>)>>[title], sections |-> Null])
      PROVE  FormedReply(raw)
  <2>1. Scalar(<<Null, Num(7), Text(<<"title">>)>>[title])
    <3>1. title = 1 \/ title = 2 \/ title = 3
      OBVIOUS
    <3> QED
      BY <3>1
  <2> QED
    BY <1>3, <2>1 DEF FormedReply, Get
<1>4. ASSUME NEW n \in 0..MaxParts, NEW flaw \in Flaws(n, Len(Defects) + 1),
             raw = Dict([title |-> Text(<<"title">>), sections |-> PartsWith(SectionForm, n, flaw)])
      PROVE  FormedReply(raw)
  <2>1. n \in Nat
    BY DocumentsAssumption DEF DocumentsAssumption
  <2>2. ListOf(PartsWith(SectionForm, n, flaw), FormedPart)
    BY <2>1, SectionPartsFormed
  <2> QED
    BY <1>4, <2>2 DEF FormedReply, Get
<1> QED
  BY <1>1, <1>2, <1>3, <1>4, <1>5 DEF SectionReplyIs

-----------------------------------------------------------------------------
(* The parsers of the provider of vision. *)

Sound(v) == {i \in DOMAIN v.val : v.val[i].type = "object"}

\* Objects keeps the parts that are objects, in order (anthropic_document.py:290-297).
LEMMA ObjectsInOrder ==
    ASSUME NEW v, v.type = "array", IsSeq(v.val)
    PROVE  /\ IsSeq(Objects(v)) /\ Len(Objects(v)) = Cardinality(Sound(v))
           /\ \A i \in Sound(v) : Rank(Sound(v), i) \in DOMAIN Objects(v) /\ Objects(v)[Rank(Sound(v), i)] = v.val[i]
           /\ \A p \in DOMAIN Objects(v) : \E i \in Sound(v) : Objects(v)[p] = v.val[i]
<1>1. PICK S : v.val \in Seq(S)
  BY SeqIsTyped
<1>2. Sound(v) \subseteq DOMAIN v.val /\ Sound(v) \subseteq 1..Len(v.val) /\ Len(v.val) \in Nat
  BY <1>1 DEF Sound
<1>3. Objects(v) = Picked(v.val, Sound(v))
  BY DEF Objects, Sound
<1>4. /\ Objects(v) \in Seq(S) /\ InOrder(Objects(v), v.val, Sound(v))
      /\ \A p \in DOMAIN Objects(v) : \E i \in Sound(v) : Objects(v)[p] = v.val[i]
  BY <1>1, <1>2, <1>3, PickedInOrder
<1>5. \A i \in Sound(v) : Rank(Sound(v), i) \in 1..Cardinality(Sound(v))
  BY <1>2, RankBounds
<1>6. IsSeq(Objects(v)) /\ DOMAIN Objects(v) = 1..Len(Objects(v))
  BY <1>4, SeqOfSome
<1> QED
  BY <1>4, <1>5, <1>6 DEF InOrder, Rank

\* What the parsers make of a malformed field fits the schema of the field.
LEMMA RowsFit ==
    ASSUME NEW raw, Nested(Get(raw, "rows"))
    PROVE  RowTexts(RowsOf(raw)) /\ Nested(RowsOf(raw)) /\ RowsOf(raw).type = "array"
<1> DEFINE rows == Get(raw, "rows")
           kept == {i \in DOMAIN rows.val : Texts(rows.val[i])}
<1>1. CASE rows.type # "array"
  <2>1. RowsOf(raw) = List(<<>>)
    BY <1>1 DEF RowsOf
  <2> QED
    BY <2>1, ShortScalarLists, ScalarForms DEF RowTexts, Array
<1>2. CASE rows.type = "array"
  <2>1. ListOf(rows, Flat)
    BY <1>2, ScalarForms DEF Nested, Scalar
  <2>2. PICK S : rows.val \in Seq(S)
    BY <2>1, SeqIsTyped DEF ListOf
  <2>3. RowsOf(raw) = List(Picked(rows.val, kept))
    BY <1>2 DEF RowsOf
  <2>4. kept \subseteq DOMAIN rows.val /\ \A i \in kept : Texts(rows.val[i]) /\ Flat(rows.val[i])
    BY <2>1 DEF ListOf
  <2> HIDE DEF rows, kept
  <2> DEFINE p == Picked(rows.val, kept)
  <2>5. p \in Seq(S) /\ \A i \in DOMAIN p : \E j \in kept : p[i] = rows.val[j]
    BY <2>2, <2>4, PickedInOrder
  <2>6. IsSeq(p) /\ \A i \in DOMAIN p : Texts(p[i]) /\ Flat(p[i])
    BY <2>4, <2>5, SeqOfSome
  <2> HIDE DEF p
  <2>7. RowTexts(List(p)) /\ Nested(List(p)) /\ List(p).type = "array"
    BY <2>6, ScalarForms, ListForms DEF RowTexts, Array
  <2> QED
    BY <2>3, <2>7 DEF p
<1> QED
  BY <1>1, <1>2

LEMMA TextsOrNoneFit ==
    ASSUME NEW v, Flat(v)
    PROVE  Texts(TextsOrNone(v)) /\ Flat(TextsOrNone(v))
<1>1. Texts(List(<<>>)) /\ Flat(List(<<>>))
  BY ShortScalarLists, ScalarForms DEF Texts, Array
<1> QED
  BY <1>1 DEF TextsOrNone

LEMMA TextOrFit ==
    ASSUME NEW v, NEW default, Scalar(v), Scalar(default)
    PROVE  /\ Scalar(TextOr(v, default))
           /\ Str(default) => Str(TextOr(v, default))
           /\ v.type = "string" /\ v.val # Blank => TextOr(v, default) = v
BY DEF TextOr, Str

LEMMA GetField ==
    ASSUME NEW r, NEW key
    PROVE  Get(Dict(r), key) = IF key \in DOMAIN r THEN r[key] ELSE Null
BY DEF Get, Dict

LEMMA FormedFields ==
    ASSUME NEW v, FormedSection(v)
    PROVE  /\ v.type = "object"
           /\ \A key \in {"heading", "level", "paragraphs", "bullets"} : key \in DOMAIN v.val /\ Get(v, key) = v.val[key]
           /\ Scalar(Get(v, "heading")) /\ Scalar(Get(v, "level"))
           /\ Flat(Get(v, "paragraphs")) /\ Flat(Get(v, "bullets"))
           /\ Scalar(Get(v, "table")) \/ FormedTable(Get(v, "table"))
BY ScalarForms DEF FormedSection, Get

LEMMA ParsedTableFits ==
    ASSUME NEW raw, FormedTable(raw)
    PROVE  /\ ReadTable(ParseTable(raw)) /\ FormedTable(ParseTable(raw))
           /\ Texts(ParseTable(raw).val["headers"])
<1>1. Flat(Get(raw, "headers")) /\ Nested(Get(raw, "rows"))
  BY DEF FormedTable, Get
<1> DEFINE headers == TextsOrNone(Get(raw, "headers"))
           rows == RowsOf(raw)
<1>2. Texts(headers) /\ Flat(headers) /\ RowTexts(rows) /\ Nested(rows)
  BY <1>1, TextsOrNoneFit, RowsFit
<1>3. ParseTable(raw) = Dict([headers |-> headers, rows |-> rows])
  BY DEF ParseTable
<1> HIDE DEF headers, rows
<1>4. Dict([headers |-> headers, rows |-> rows]).val = [headers |-> headers, rows |-> rows]
  BY ScalarForms
<1> QED
  BY <1>2, <1>3, <1>4, ScalarForms DEF ReadTable, FormedTable, Obj, Property

LEMMA ParsedSectionFits ==
    ASSUME NEW raw, FormedRaw(raw)
    PROVE  /\ FormedSection(ParseSection(raw)) /\ (ReadSection(ParseSection(raw)) \/ LevelIsTrue(raw))
           /\ "table" \in DOMAIN ParseSection(raw).val => ParseSection(raw).val["table"] = ParseTable(Get(raw, "table"))
           /\ Get(raw, "heading").type = "string" /\ Get(raw, "heading").val # Blank =>
                Get(ParseSection(raw), "heading") = Get(raw, "heading")
<1> DEFINE heading == TextOr(Get(raw, "heading"), Text(Blank))
           level == ParseLevel(Get(raw, "level"))
           paragraphs == TextsOrNone(Get(raw, "paragraphs"))
           bullets == TextsOrNone(Get(raw, "bullets"))
           table == ParseTable(Get(raw, "table"))
           section == [heading |-> heading, level |-> level, paragraphs |-> paragraphs, bullets |-> bullets]
<1>1. /\ Scalar(heading) /\ Str(heading)
      /\ Get(raw, "heading").type = "string" /\ Get(raw, "heading").val # Blank => heading = Get(raw, "heading")
  BY ScalarForms, TextOrFit DEF Str, FormedRaw
<1>2. Scalar(level) /\ (AnyInt(level) \/ LevelIsTrue(raw))
  <2>1. Scalar(Get(raw, "level")) /\ raw.type = "object"
    BY ScalarForms DEF FormedRaw
  <2>2. CASE Get(raw, "level") = True
    BY <2>1, <2>2, ScalarForms DEF ParseLevel, LevelIsTrue
  <2>3. CASE Get(raw, "level") # True
    BY <2>1, <2>3, ScalarForms DEF ParseLevel, AnyInt
  <2> QED
    BY <2>2, <2>3
<1>3. Texts(paragraphs) /\ Flat(paragraphs) /\ Texts(bullets) /\ Flat(bullets)
  BY TextsOrNoneFit DEF FormedRaw
<1>4. CASE Get(raw, "table").type = "object"
  <2>1. FormedTable(Get(raw, "table"))
    BY <1>4, ScalarForms DEF Scalar, FormedRaw
  <2>2. ReadTable(table) /\ FormedTable(table)
    BY <2>1, ParsedTableFits
  <2>3. ParseSection(raw) = Dict(WithTable(section, table))
    BY <1>4 DEF ParseSection
  <2> HIDE DEF heading, level, paragraphs, bullets, table
  <2> DEFINE r == WithTable(section, table)
  <2>4. /\ DOMAIN r = {"heading", "level", "paragraphs", "bullets", "table"}
        /\ r["heading"] = heading /\ r["level"] = level /\ r["paragraphs"] = paragraphs /\ r["bullets"] = bullets
        /\ r["table"] = table
    BY DEF WithTable
  <2> HIDE DEF r
  <2>5. FormedSection(Dict(r)) /\ (ReadSection(Dict(r)) \/ LevelIsTrue(raw)) /\ Get(Dict(r), "heading") = heading
    BY <1>1, <1>2, <1>3, <2>2, <2>4, ScalarForms DEF ReadSection, FormedSection, Obj, Property, Get
  <2> QED
    BY <1>1, <2>3, <2>4, <2>5, ScalarForms DEF r, table
<1>5. CASE Get(raw, "table").type # "object"
  <2>1. ParseSection(raw) = Dict(section)
    BY <1>5 DEF ParseSection
  <2> HIDE DEF heading, level, paragraphs, bullets
  <2>2. /\ DOMAIN section = {"heading", "level", "paragraphs", "bullets"}
        /\ section["heading"] = heading /\ section["level"] = level
        /\ section["paragraphs"] = paragraphs /\ section["bullets"] = bullets
    OBVIOUS
  <2> HIDE DEF section
  <2>3. FormedSection(Dict(section)) /\ (ReadSection(Dict(section)) \/ LevelIsTrue(raw)) /\ Get(Dict(section), "heading") = heading
    BY <1>1, <1>2, <1>3, <2>2, ScalarForms DEF ReadSection, FormedSection, Obj, Property, Get
  <2> QED
    BY <1>1, <2>1, <2>2, <2>3, ScalarForms
<1> QED
  BY <1>4, <1>5

HasHeaders(table) == table = Dict(table.val) /\ "headers" \in DOMAIN table.val /\ Texts(table.val["headers"])

\* Whatever the reply, the structure made of it fits the output schema of vision_extract_structure,
\* unless a section has a level that is true.
LEMMA StructureFits ==
    ASSUME NEW raw, FormedReply(raw)
    PROVE  /\ VisionOutput(Structure(raw)) \/ OneLevelIsTrue(raw)
           /\ FormedSections(Get(Structure(raw), "sections")) /\ "sections" \in DOMAIN Structure(raw).val
           /\ \A i \in DOMAIN Get(Structure(raw), "sections").val :
                LET section == Get(Structure(raw), "sections").val[i]
                IN  "table" \in DOMAIN section.val => HasHeaders(section.val["table"])
<1> DEFINE parts == Objects(Get(raw, "sections"))
           taken == [i \in DOMAIN parts |-> ParseSection(parts[i])]
           title == TextOr(Get(raw, "title"), Text(Blank))
           note == Text(<<"note">>)
<1> USE ScalarForms
<1>1. CASE raw = Null
  <2>1. Structure(raw) = Dict([title |-> Text(Blank), sections |-> List(<<>>), notes |-> note])
    BY <1>1 DEF Structure
  <2>2. Str(note) /\ Str(Text(Blank)) /\ VisionSections(List(<<>>)) /\ FormedSections(List(<<>>))
    BY ShortLists DEF Str, VisionSections, ReadSections, Array, FormedSections, ListOf
  <2> HIDE DEF note
  <2> QED
    BY <2>1, <2>2 DEF VisionOutput, Obj, Property, Get
<1>2. CASE raw # Null
  <2>1. /\ raw = Dict(raw.val) /\ Scalar(Get(raw, "title"))
        /\ Scalar(Get(raw, "sections")) \/ ListOf(Get(raw, "sections"), FormedPart)
    BY <1>2 DEF FormedReply
  <2>2. raw.type = "object"
    BY <2>1
  <2>3. Str(title) /\ Scalar(title)
    BY <2>1, TextOrFit DEF Str
  <2>4. IsSeq(parts) /\ \A i \in DOMAIN parts : FormedRaw(parts[i]) /\ (LevelIsTrue(parts[i]) => OneLevelIsTrue(raw))
    <3>1. CASE Get(raw, "sections").type = "array"
      <4>1. ListOf(Get(raw, "sections"), FormedPart)
        BY <2>1, <2>2, <3>1 DEF Scalar
      <4>2. IsSeq(parts) /\ \A p \in DOMAIN parts : \E i \in Sound(Get(raw, "sections")) : parts[p] = Get(raw, "sections").val[i]
        BY <3>1, <4>1, ObjectsInOrder DEF ListOf
      <4> QED
        BY <4>1, <4>2 DEF ListOf, Sound, FormedPart, OneLevelIsTrue
    <3>2. CASE Get(raw, "sections").type # "array"
      BY <3>2, ShortLists DEF Objects
    <3> QED
      BY <3>1, <3>2
  <2>5. Structure(raw) = Dict([title |-> title, sections |-> List(taken), notes |-> note])
    BY <2>2 DEF Structure, Each
  <2> HIDE DEF parts
  <2>6. /\ IsSeq(taken) /\ DOMAIN taken = DOMAIN parts
        /\ \A i \in DOMAIN parts : taken[i] = ParseSection(parts[i])
    <3>1. DOMAIN parts = 1..Len(parts) /\ Len(parts) \in Nat
      BY <2>4, SeqIsTyped
    <3>2. DOMAIN taken = 1..Len(parts) /\ taken = [i \in 1..Len(parts) |-> taken[i]]
      BY <3>1
    <3> HIDE DEF taken
    <3>3. IsSeq(taken)
      BY <3>1, <3>2, MapIsSeq
    <3> QED
      BY <3>1, <3>2, <3>3 DEF taken
  <2> HIDE DEF taken
  <2>7. ASSUME NEW i \in DOMAIN taken
        PROVE  /\ FormedSection(taken[i]) /\ (ReadSection(taken[i]) \/ OneLevelIsTrue(raw))
               /\ "table" \in DOMAIN taken[i].val => HasHeaders(taken[i].val["table"])
    <3>1. /\ FormedRaw(parts[i]) /\ taken[i] = ParseSection(parts[i])
          /\ LevelIsTrue(parts[i]) => OneLevelIsTrue(raw)
      BY <2>4, <2>6
    <3>2. /\ FormedSection(ParseSection(parts[i]))
          /\ ReadSection(ParseSection(parts[i])) \/ LevelIsTrue(parts[i])
          /\ "table" \in DOMAIN ParseSection(parts[i]).val =>
                ParseSection(parts[i]).val["table"] = ParseTable(Get(parts[i], "table"))
      BY <3>1, ParsedSectionFits
    <3>3. HasHeaders(ParseTable(Get(parts[i], "table"))) \/ "table" \notin DOMAIN ParseSection(parts[i]).val
      <4>1. CASE Get(parts[i], "table").type = "object"
        <5>1. FormedTable(Get(parts[i], "table"))
          BY <3>1, <4>1 DEF Scalar, FormedRaw
        <5> QED
          BY <5>1, ParsedTableFits DEF HasHeaders, FormedTable
      <4>2. CASE Get(parts[i], "table").type # "object"
        BY <4>2 DEF ParseSection
      <4> QED
        BY <4>1, <4>2
    <3> QED
      BY <3>1, <3>2, <3>3
  <2>8. FormedSections(List(taken)) /\ Str(note) /\ (VisionSections(List(taken)) \/ OneLevelIsTrue(raw))
    BY <2>6, <2>7 DEF VisionSections, ReadSections, Array, FormedSections, ListOf, Str
  <2> HIDE DEF title, note
  <2> QED
    BY <2>3, <2>5, <2>7, <2>8 DEF VisionOutput, Obj, Property, Get
<1> QED
  BY <1>1, <1>2

\* The parts of a list that are whole.
WholeIn(list, v) == {i \in DOMAIN v.val : Whole(list, v.val[i])}

\* A list of parts, kept in order and each with the text of its key: the part of BadPartsOnly about
\* one kind of list.
KeptInOrder(list, sent, taken, key) ==
    /\ Len(taken) = Cardinality(WholeIn(list, sent))
    /\ \A i \in WholeIn(list, sent) :
        Get(sent.val[i], key).type = "string" /\ Get(sent.val[i], key).val # Blank =>
            Get(taken[Rank(WholeIn(list, sent), i)], key) = Get(sent.val[i], key)

\* What is taken of a list of parts, each of them parsed to something.
LEMMA PartsTaken ==
    ASSUME NEW list, NEW sent, NEW parts, IsSeq(parts), Len(parts) = Cardinality(WholeIn(list, sent)),
           \A i \in WholeIn(list, sent) :
                /\ Rank(WholeIn(list, sent), i) \in DOMAIN parts
                /\ parts[Rank(WholeIn(list, sent), i)] = sent.val[i],
           NEW taken, DOMAIN taken = DOMAIN parts, IsSeq(taken), NEW key,
           \A p \in DOMAIN taken :
                Get(parts[p], key).type = "string" /\ Get(parts[p], key).val # Blank => Get(taken[p], key) = Get(parts[p], key)
    PROVE  KeptInOrder(list, sent, taken, key)
<1>1. Len(taken) = Len(parts)
  <2>1. /\ Len(taken) \in Nat /\ DOMAIN taken = 1..Len(taken)
        /\ Len(parts) \in Nat /\ DOMAIN parts = 1..Len(parts)
    BY SeqIsTyped
  <2> QED
    BY <2>1, SameLength
<1> DEFINE at == WholeIn(list, sent)
<1>2. ASSUME NEW i \in at, Get(sent.val[i], key).type = "string", Get(sent.val[i], key).val # Blank
      PROVE  Get(taken[Rank(at, i)], key) = Get(sent.val[i], key)
  <2>1. Rank(at, i) \in DOMAIN taken /\ parts[Rank(at, i)] = sent.val[i]
    OBVIOUS
  <2> QED
    BY <1>2, <2>1
<1> QED
  BY <1>1, <1>2 DEF KeptInOrder

\* Of all lists but the items of a receipt, every object is whole.
LEMMA WholeIsSound ==
    ASSUME NEW list, list # "line_items", NEW v
    PROVE  WholeIn(list, v) = Sound(v)
BY DEF WholeIn, Whole, Sound

LEMMA ParsedRow ==
    ASSUME NEW raw, Get(raw, "date").type = "string", Get(raw, "date").val # Blank
    PROVE  Get(ParseRow(raw), "date") = Get(raw, "date")
<1>1. TextOr(Get(raw, "date"), Null) = Get(raw, "date")
  BY DEF TextOr
<1> QED
  BY <1>1, ScalarForms DEF ParseRow, Get

-----------------------------------------------------------------------------
(* What a call leaves, for whatever the last call was: each action says it by itself. *)

\* The two replies of extract and what is made of them.
LEMMA RowsTaken ==
    ASSUME NEW n \in Nat, NEW flaw \in Flaws(n, 4)
    PROVE  LET rows == PartsWith(RowForm, n, flaw)
           IN  rows = List(rows.val) /\ IsSeq(rows.val)
<1> DEFINE s == [k \in 1..n |-> RowForm(k, IF k = flaw[1] THEN flaw[2] ELSE 0)]
<1>1. DOMAIN s = 1..n /\ s = [k \in 1..n |-> s[k]]
  OBVIOUS
<1>2. PartsWith(RowForm, n, flaw) = List(s)
  BY Zenon DEF PartsWith
<1> HIDE DEF s
<1>3. IsSeq(s)
  BY <1>1, MapIsSeq
<1> QED
  BY <1>2, <1>3, ScalarForms

\* What vision_extract_structure leaves behind, in every of its cases.
LEMMA VisionStep ==
    ASSUME ExtractStructure
    PROVE  /\ tool' = "vision_extract_structure" /\ file' = NoFile
           /\ \/ result' \notin {"ok", "invalid_output"} /\ value' = Nothing
              \/ result' = "ok" /\ value' = Structure(reply') /\ FormedReply(reply') /\ VisionOutput(value')
              \/ result' = "invalid_output" /\ value' = Nothing /\ OneLevelIsTrue(reply')
<1>1. tool' = "vision_extract_structure" /\ file' = NoFile
  BY DEF ExtractStructure, Calls
<1>2. CASE VisionFails("structure_extraction_failed")
  BY <1>1, <1>2 DEF VisionFails, Fails
<1>3. CASE SectionReply(LAMBDA raw : reply' = raw /\ Returns(Structure(raw), VisionOutput))
  <2>1. PICK raw : SectionReplyIs(raw) /\ reply' = raw /\ Returns(Structure(raw), VisionOutput)
    BY <1>3 DEF SectionReply, SectionReplyIs
  <2>2. FormedReply(raw) /\ (VisionOutput(Structure(raw)) \/ OneLevelIsTrue(raw))
    BY <2>1, SectionRepliesFormed, StructureFits
  <2> QED
    BY <1>1, <2>1, <2>2 DEF Returns, Fails
<1> QED
  BY <1>2, <1>3 DEF ExtractStructure

\* A section or row keeps its first field, if that is a text.
LEMMA SectionsKept ==
    ASSUME NEW sent, sent.type = "array", ListOf(sent, FormedPart)
    PROVE  KeptInOrder("sections", sent, [i \in DOMAIN Objects(sent) |-> ParseSection(Objects(sent)[i])], "heading")
<1> DEFINE parts == Objects(sent)
           taken == [i \in DOMAIN parts |-> ParseSection(parts[i])]
<1>1. IsSeq(sent.val) /\ \A i \in DOMAIN sent.val : FormedPart(sent.val[i])
  BY DEF ListOf
<1>2. \A p \in DOMAIN parts : FormedRaw(parts[p])
  <2>1. \A i \in Sound(sent) : FormedRaw(sent.val[i])
    BY <1>1, ScalarForms DEF Sound, FormedPart
  <2>2. \A p \in DOMAIN parts : \E i \in Sound(sent) : parts[p] = sent.val[i]
    BY <1>1, ObjectsInOrder
  <2> HIDE DEF parts
  <2> QED
    BY <2>1, <2>2
<1>3. DOMAIN parts = 1..Len(parts) /\ Len(parts) \in Nat
  BY <1>1, ObjectsInOrder, SeqIsTyped
<1>4. IsSeq(taken) /\ DOMAIN taken = DOMAIN parts /\ \A p \in DOMAIN taken : taken[p] = ParseSection(parts[p])
  <2>1. DOMAIN taken = 1..Len(parts) /\ taken = [i \in 1..Len(parts) |-> taken[i]]
    BY <1>3
  <2>2. \A p \in DOMAIN taken : taken[p] = ParseSection(parts[p])
    OBVIOUS
  <2> HIDE DEF taken
  <2> QED
    BY <1>3, <2>1, <2>2, MapIsSeq
<1> HIDE DEF taken
<1>5. \A p \in DOMAIN taken :
        Get(parts[p], "heading").type = "string" /\ Get(parts[p], "heading").val # Blank =>
            Get(taken[p], "heading") = Get(parts[p], "heading")
  BY <1>2, <1>4, ParsedSectionFits
<1>6. /\ IsSeq(parts) /\ Len(parts) = Cardinality(WholeIn("sections", sent))
      /\ \A i \in WholeIn("sections", sent) :
            /\ Rank(WholeIn("sections", sent), i) \in DOMAIN parts
            /\ parts[Rank(WholeIn("sections", sent), i)] = sent.val[i]
  BY <1>1, ObjectsInOrder, WholeIsSound
<1> HIDE DEF parts
<1>7. KeptInOrder("sections", sent, taken, "heading")
  BY <1>4, <1>5, <1>6, PartsTaken
<1> QED
  BY <1>7 DEF taken, parts

LEMMA StructureKeeps ==
    ASSUME NEW raw, FormedReply(raw), raw.type = "object", Get(raw, "sections").type = "array"
    PROVE  KeptInOrder("sections", Get(raw, "sections"), Get(Structure(raw), "sections").val, "heading")
<1> DEFINE sent == Get(raw, "sections")
<1>1. ListOf(sent, FormedPart)
  BY ScalarForms DEF FormedReply, Scalar
<1>2. Get(Structure(raw), "sections").val = [i \in DOMAIN Objects(sent) |-> ParseSection(Objects(sent)[i])]
  BY ScalarForms DEF Structure, Each, Get
<1> QED
  BY <1>1, <1>2, SectionsKept

LEMMA StatementKeeps ==
    ASSUME NEW sent, sent.type = "array", IsSeq(sent.val)
    PROVE  KeptInOrder("transactions", sent, Get(ParseStatement(Dict([transactions |-> sent])), "transactions").val, "date")
<1> DEFINE raw == Dict([transactions |-> sent])
           parts == Objects(sent)
           taken == [i \in DOMAIN parts |-> ParseRow(parts[i])]
<1> USE ScalarForms
<1>1. Get(ParseStatement(raw), "transactions").val = taken
  BY DEF ParseStatement, Each, Get
<1>2. DOMAIN parts = 1..Len(parts) /\ Len(parts) \in Nat
  BY ObjectsInOrder, SeqIsTyped
<1>3. IsSeq(taken) /\ DOMAIN taken = DOMAIN parts /\ \A p \in DOMAIN taken : taken[p] = ParseRow(parts[p])
  <2>1. DOMAIN taken = 1..Len(parts) /\ taken = [i \in 1..Len(parts) |-> taken[i]]
    BY <1>2
  <2>2. \A p \in DOMAIN taken : taken[p] = ParseRow(parts[p])
    OBVIOUS
  <2> HIDE DEF taken
  <2> QED
    BY <1>2, <2>1, <2>2, MapIsSeq
<1> HIDE DEF taken
<1>4. \A p \in DOMAIN taken :
        Get(parts[p], "date").type = "string" /\ Get(parts[p], "date").val # Blank =>
            Get(taken[p], "date") = Get(parts[p], "date")
  BY <1>3, ParsedRow
<1>5. /\ IsSeq(parts) /\ Len(parts) = Cardinality(WholeIn("transactions", sent))
      /\ \A i \in WholeIn("transactions", sent) :
            /\ Rank(WholeIn("transactions", sent), i) \in DOMAIN parts
            /\ parts[Rank(WholeIn("transactions", sent), i)] = sent.val[i]
  BY ObjectsInOrder, WholeIsSound
<1> HIDE DEF parts
<1>6. KeptInOrder("transactions", sent, taken, "date")
  BY <1>3, <1>4, <1>5, PartsTaken
<1> QED
  BY <1>1, <1>6

\* The items of a receipt: of the objects, the ones with a description, in order.
LEMMA DescribedInOrder ==
    ASSUME NEW sent, sent.type = "array", IsSeq(sent.val)
    PROVE  LET items == Described(Objects(sent))
               at == WholeIn("line_items", sent)
           IN  /\ IsSeq(items) /\ Len(items) = Cardinality(at)
               /\ \A i \in at : Rank(at, i) \in DOMAIN items /\ items[Rank(at, i)] = sent.val[i]
<1> DEFINE objects == Objects(sent)
           all == Sound(sent)
           named == {p \in DOMAIN objects : Get(objects[p], "description").type = "string"}
           items == Picked(objects, named)
           at == WholeIn("line_items", sent)
<1>1. /\ IsSeq(objects) /\ Len(objects) = Cardinality(all)
      /\ \A i \in all : Rank(all, i) \in DOMAIN objects /\ objects[Rank(all, i)] = sent.val[i]
  BY ObjectsInOrder
<1>2. Described(objects) = items
  BY DEF Described
<1>3. all \subseteq 1..Len(sent.val) /\ Len(sent.val) \in Nat
  <2>1. PICK S : sent.val \in Seq(S)
    BY SeqIsTyped
  <2> QED
    BY <2>1 DEF Sound
<1>4. PICK S : objects \in Seq(S)
  BY <1>1, SeqIsTyped
<1>5. named \subseteq DOMAIN objects /\ named \subseteq 1..Cardinality(all)
  BY <1>1, <1>4
<1>6. at = {i \in all : Rank(all, i) \in named}
  BY <1>1 DEF WholeIn, Whole, Sound
<1> HIDE DEF objects, all, named, items, at
<1>7. items \in Seq(S) /\ InOrder(items, objects, named)
  BY <1>4, <1>5, PickedInOrder DEF items
<1>8. Cardinality(at) = Cardinality(named) /\ \A i \in at : Rank(at, i) = Rank(named, Rank(all, i))
  <2>1. LET both == {i \in all : Rank(all, i) \in named}
        IN  Cardinality(both) = Cardinality(named) /\ \A i \in both : Rank(both, i) = Rank(named, Rank(all, i))
    <3> DEFINE n == Len(sent.val)
    <3>1. n \in Nat /\ all \subseteq 1..n /\ named \subseteq 1..Cardinality(all)
      BY <1>3, <1>5
    <3> HIDE DEF n
    <3> QED
      BY <3>1, RankComposed
  <2> QED
    BY <1>6, <2>1
<1>9. Len(items) = Cardinality(named) /\ \A p \in named : items[Rank(named, p)] = objects[p]
  BY <1>7 DEF InOrder, Rank
<1>10. \A p \in named : Rank(named, p) \in DOMAIN items
  <2>1. \A p \in named : Rank(named, p) \in 1..Cardinality(named)
    <3>1. Cardinality(all) \in Nat
      BY <1>3, RankBounds
    <3> QED
      BY <1>5, <3>1, RankBounds
  <2> QED
    BY <1>7, <1>9, <2>1
<1>11. IsSeq(items)
  BY <1>7, SeqOfSome
<1>12. \A i \in at : i \in all /\ Rank(all, i) \in named
  BY <1>6
<1>13. \A i \in at : Rank(at, i) \in DOMAIN items /\ items[Rank(at, i)] = sent.val[i]
  BY <1>1, <1>8, <1>9, <1>10, <1>12
<1> QED
  BY <1>2, <1>8, <1>9, <1>11, <1>13 DEF objects, at

LEMMA ReceiptKeeps ==
    ASSUME NEW sent, sent.type = "array", IsSeq(sent.val),
           NEW raw, raw.type = "object", Get(raw, "line_items") = sent
    PROVE  KeptInOrder("line_items", sent, Get(ParseReceipt(raw), "line_items").val, "description")
<1> DEFINE parts == Described(Objects(sent))
           taken == [i \in DOMAIN parts |-> ParseItem(parts[i])]
<1> USE ScalarForms
<1>1. Get(ParseReceipt(raw), "line_items").val = taken
  BY DEF ParseReceipt, Each, Get
<1>2. /\ IsSeq(parts) /\ Len(parts) = Cardinality(WholeIn("line_items", sent))
      /\ \A i \in WholeIn("line_items", sent) :
            /\ Rank(WholeIn("line_items", sent), i) \in DOMAIN parts
            /\ parts[Rank(WholeIn("line_items", sent), i)] = sent.val[i]
  BY DescribedInOrder
<1> HIDE DEF parts
<1>3. DOMAIN parts = 1..Len(parts) /\ Len(parts) \in Nat
  BY <1>2, SeqIsTyped
<1>4. IsSeq(taken) /\ DOMAIN taken = DOMAIN parts /\ \A p \in DOMAIN taken : taken[p] = ParseItem(parts[p])
  <2>1. DOMAIN taken = 1..Len(parts) /\ taken = [i \in 1..Len(parts) |-> taken[i]]
    BY <1>3
  <2>2. \A p \in DOMAIN taken : taken[p] = ParseItem(parts[p])
    OBVIOUS
  <2> HIDE DEF taken
  <2> QED
    BY <1>3, <2>1, <2>2, MapIsSeq
<1> HIDE DEF taken
<1>5. \A p \in DOMAIN taken : Get(taken[p], "description") = Get(parts[p], "description")
  <2> SUFFICES ASSUME NEW p \in DOMAIN taken PROVE Get(taken[p], "description") = Get(parts[p], "description")
    OBVIOUS
  <2> DEFINE description == Get(parts[p], "description")
             amount == LET a == Get(parts[p], "amount") IN IF a.type = "string" THEN a ELSE Null
  <2>1. taken[p] = Dict([description |-> description, amount |-> amount])
    BY <1>4 DEF ParseItem
  <2> HIDE DEF description, amount
  <2>2. Get(taken[p], "description") = description
    BY <2>1 DEF Get
  <2> QED
    BY <2>2 DEF description
<1>6. KeptInOrder("line_items", sent, taken, "description")
  BY <1>2, <1>4, <1>5, PartsTaken
<1> QED
  BY <1>1, <1>6

ExtractLeaves ==
    /\ tool' = "extract"
    /\ \/ reply' = Null
       \/ \E rows : /\ rows.type = "array" /\ IsSeq(rows.val)
                    /\ \/ reply' = Dict([transactions |-> rows]) /\ value' = ParseStatement(reply')
                       \/ reply' = Dict([line_items |-> rows, total_amount |-> Num(7)]) /\ value' = ParseReceipt(reply')

\* What the two other requests to the provider leave behind.
LEMMA ExtractStep ==
    ASSUME Extract
    PROVE  ExtractLeaves /\ file' = NoFile
<1>1. tool' = "extract" /\ file' = NoFile
  BY DEF Extract, Calls
<1>2. CASE VisionFails("extraction_failed")
  BY <1>1, <1>2 DEF VisionFails, ExtractLeaves
<1>3. CASE reply' = Null
  BY <1>1, <1>3 DEF ExtractLeaves
<1>4. ASSUME NEW n \in 0..MaxParts, NEW flaw \in Flaws(n, 4),
             LET rows == PartsWith(RowForm, n, flaw) IN
                \/ reply' = Dict([transactions |-> rows]) /\ value' = ParseStatement(reply')
                \/ reply' = Dict([line_items |-> rows, total_amount |-> Num(7)]) /\ value' = ParseReceipt(reply')
      PROVE  ExtractLeaves
  <2> DEFINE rows == PartsWith(RowForm, n, flaw)
  <2>1. n \in Nat
    BY DocumentsAssumption DEF DocumentsAssumption
  <2>2. rows.type = "array" /\ IsSeq(rows.val)
    BY <2>1, RowsTaken, ScalarForms
  <2> HIDE DEF rows
  <2> QED
    BY <1>1, <1>4, <2>2 DEF ExtractLeaves, rows
<1> QED
  BY <1>1, <1>2, <1>3, <1>4 DEF Extract

\* BadPartsOnly, of the state that a call leaves.
LEMMA BadPartsAfter ==
    ASSUME \/ tool' \notin {"vision_extract_structure", "extract"}
           \/ ExtractLeaves
           \/ tool' = "vision_extract_structure" /\ result' \notin {"ok", "invalid_output"}
           \/ tool' = "vision_extract_structure" /\ result' = "ok" /\ value' = Structure(reply') /\ FormedReply(reply')
           \/ tool' = "vision_extract_structure" /\ result' = "invalid_output" /\ OneLevelIsTrue(reply')
    PROVE  BadPartsOnly'
<1> USE ScalarForms
<1> DEFINE Keeps(key) ==
        key[1] \in DOMAIN reply'.val /\ Get(reply', key[1]).type = "array" =>
            KeptInOrder(key[1], Get(reply', key[1]), Get(value', key[1]).val, key[2])
<1>1. SUFFICES ASSUME tool' \in {"vision_extract_structure", "extract"}, result' = "ok", reply'.type = "object",
                      NEW key \in {<<"sections", "heading">>, <<"transactions", "date">>, <<"line_items", "description">>}
               PROVE  Keeps(key)
  <2>1. tool' = "vision_extract_structure" /\ result' = "invalid_output" => OneLevelIsTrue(reply')
    BY DEF ExtractLeaves
  <2> QED
    BY <2>1 DEF BadPartsOnly, KeptInOrder, WholeIn, Rank, OneLevelIsTrue, LevelIsTrue
<1>2. CASE tool' = "vision_extract_structure"
  <2>1. value' = Structure(reply') /\ FormedReply(reply')
    BY <1>1, <1>2 DEF ExtractLeaves
  <2>2. CASE key = <<"sections", "heading">>
    BY <1>1, <2>1, <2>2, StructureKeeps
  <2>3. CASE key # <<"sections", "heading">>
    BY <1>1, <2>1, <2>3 DEF FormedReply
  <2> QED
    BY <2>2, <2>3
<1>3. CASE tool' = "extract"
  <2>1. PICK rows : /\ rows.type = "array" /\ IsSeq(rows.val)
                    /\ \/ reply' = Dict([transactions |-> rows]) /\ value' = ParseStatement(reply')
                       \/ reply' = Dict([line_items |-> rows, total_amount |-> Num(7)]) /\ value' = ParseReceipt(reply')
    BY <1>1, <1>3 DEF ExtractLeaves
  <2>2. CASE reply' = Dict([transactions |-> rows]) /\ value' = ParseStatement(reply')
    <3>1. DOMAIN reply'.val = {"transactions"} /\ Get(reply', "transactions") = rows
      BY <2>2 DEF Get
    <3>2. KeptInOrder("transactions", rows, Get(value', "transactions").val, "date")
      BY <2>1, <2>2, StatementKeeps
    <3> QED
      BY <3>1, <3>2
  <2>3. CASE reply' = Dict([line_items |-> rows, total_amount |-> Num(7)]) /\ value' = ParseReceipt(reply')
    <3>1. DOMAIN reply'.val = {"line_items", "total_amount"} /\ Get(reply', "line_items") = rows
      BY <2>3 DEF Get
    <3>2. KeptInOrder("line_items", rows, Get(value', "line_items").val, "description")
      BY <1>1, <2>1, <2>3, <3>1, ReceiptKeeps
    <3> QED
      BY <3>1, <3>2
  <2> QED
    BY <2>1, <2>2, <2>3
<1> QED
  BY <1>1, <1>2, <1>3

\* What names the last call, for the actions that are not told apart below.
LEMMA CallNames ==
    /\ DocumentRead => tool' = "document_read"
    /\ AuthorContent => tool' = "author_content"
    /\ AssignmentSolve => tool' = "assignment_solve"
    /\ Generate => tool' = "document_generate"
    /\ NewPlan => tool' = "none"
BY DEF DocumentRead, AuthorContent, AssignmentSolve, Generate, NewPlan, Calls

\* BadPartsOnly speaks of a call that fails and of one that does not.
Refused(name, outcome, said) ==
    name = "vision_extract_structure" /\ outcome = "invalid_output" =>
        \E i \in DOMAIN Get(said, "sections").val :
            LET part == Get(said, "sections").val[i] IN part.type = "object" /\ Get(part, "level") = True

Taken(name, outcome, said, data) ==
    name \in {"vision_extract_structure", "extract"} /\ outcome = "ok" /\ said.type = "object" =>
        \A key \in {<<"sections", "heading">>, <<"transactions", "date">>, <<"line_items", "description">>} :
            key[1] \in DOMAIN said.val /\ Get(said, key[1]).type = "array" =>
                LET sent == Get(said, key[1]).val
                    sound == {i \in DOMAIN sent : Whole(key[1], sent[i])}
                    taken == Get(data, key[1]).val
                IN  /\ Len(taken) = Cardinality(sound)
                    /\ \A i \in sound :
                        LET part == taken[Cardinality({j \in sound : j <= i})]
                        IN  Get(sent[i], key[2]).type = "string" /\ Get(sent[i], key[2]).val # Blank =>
                                Get(part, key[2]) = Get(sent[i], key[2])

LEMMA BadPartsSplit ==
    ASSUME BadPartsOnly
    PROVE  Refused(tool, result, reply) /\ Taken(tool, result, reply, value)
BY Zenon DEF BadPartsOnly, Refused, Taken

\* A malformed part of a model's reply costs only itself: the parsers of the provider (anthropic_document.py:
\* parse_structure_json, parse_statement_json, parse_receipt_json) pass over it and take every other section,
\* row or item, in order, whatever else the reply has. Only a section whose level is true fails the call:
\* without one the result fits the output schema.
THEOREM BadPartsCostThemselves == Spec => []BadPartsOnly
<1>1. Init => BadPartsOnly
  BY DEF Init, BadPartsOnly
<1>2. BadPartsOnly /\ [Next]_vars => BadPartsOnly'
  <2> SUFFICES ASSUME BadPartsOnly, [Next]_vars PROVE BadPartsOnly'
    OBVIOUS
  <2>1. CASE ExtractStructure
    BY <2>1, VisionStep, BadPartsAfter
  <2>2. CASE Extract
    BY <2>2, ExtractStep, BadPartsAfter
  <2>3. CASE DocumentRead \/ AuthorContent \/ AssignmentSolve \/ Generate \/ NewPlan
    <3>1. tool' \notin {"vision_extract_structure", "extract"}
      BY <2>3, CallNames
    <3> QED
      BY <3>1, BadPartsAfter
  <2>4. CASE UNCHANGED vars
    <3>1. tool' = tool /\ result' = result /\ reply' = reply /\ value' = value
      BY <2>4 DEF vars
    <3>2. Refused(tool, result, reply) /\ Taken(tool, result, reply, value)
      BY BadPartsSplit
    <3>3. Refused(tool', result', reply') /\ Taken(tool', result', reply', value')
      BY <3>1, <3>2
    <3> QED
      BY <3>3, Zenon DEF BadPartsOnly, Refused, Taken
  <2> QED
    BY <2>1, <2>2, <2>3, <2>4 DEF Next
<1> QED
  BY <1>1, <1>2, PTL DEF Spec

-----------------------------------------------------------------------------
(* Answers and questions. *)

Word == {"Q", "answer to"} \cup Nat

\* An id that a question or an answer has is a sequence of words.
LEMMA IdIsText ==
    \A k \in Nat : <<"Q", k>> \in Seq(Word)
<1>1. SUFFICES ASSUME NEW k \in Nat PROVE <<"Q", k>> \in Seq(Word)
  OBVIOUS
<1>2. "Q" \in Word /\ k \in Word
  BY DEF Word
<1> QED
  BY <1>2

IsQuestion(v) ==
    /\ v = Dict(v.val)
    /\ "id" \in DOMAIN v.val => \E x \in Seq(Word) : v.val["id"] = Text(x)
    /\ Get(v, "text") = Null \/ \E x : Get(v, "text") = Text(x)

QuestionList(v) == ListOf(v, LAMBDA x : x = Null \/ IsQuestion(x))

\* The question found for an id is one that has the id, and none is found only if none has it.
LEMMA QuestionWithId ==
    ASSUME NEW x \in Seq(Word), NEW text, text = Null \/ \E y : text = Text(y)
    PROVE  IsQuestion(Dict([id |-> Text(x), text |-> text]))
<1> DEFINE r == [id |-> Text(x), text |-> text]
<1>1. DOMAIN r = {"id", "text"} /\ r["id"] = Text(x) /\ r["text"] = text
  OBVIOUS
<1> HIDE DEF r
<1>2. Get(Dict(r), "text") = text
  BY <1>1, ScalarForms DEF Get
<1>3. \E z \in Seq(Word) : r["id"] = Text(z)
  BY <1>1, Zenon
<1>4. \E y : Get(Dict(r), "text") = Null \/ Get(Dict(r), "text") = Text(y)
  BY <1>2, Zenon
<1>5. Dict(r).val = r /\ Dict(r) = Dict(Dict(r).val)
  BY ScalarForms
<1>6. IsQuestion(Dict(r))
  BY <1>3, <1>4, <1>5 DEF IsQuestion
<1> QED
  BY <1>6 DEF r

LEMMA QuestionFormIs ==
    ASSUME NEW k \in Nat, NEW d \in 0..4
    PROVE  QuestionForm(k, d) = Null \/ IsQuestion(QuestionForm(k, d))
<1> DEFINE text == Text(Name("question", k))
           IdAndText(x, t) == Dict([id |-> Text(x), text |-> t])
<1>1. ASSUME NEW x \in Seq(Word) PROVE IsQuestion(IdAndText(x, text)) /\ IsQuestion(IdAndText(x, Null))
  BY QuestionWithId
<1>2. <<"Q", k>> \in Seq(Word) /\ <<"Q", 1>> \in Seq(Word) /\ <<"Q", 2>> \in Seq(Word)
  BY IdIsText
<1>3. /\ d = 0 => QuestionForm(k, d) = IdAndText(<<"Q", k>>, text)
      /\ d = 1 => QuestionForm(k, d) = Null
      /\ d = 3 => QuestionForm(k, d) = IdAndText(<<"Q", 1>>, text)
      /\ d = 4 => QuestionForm(k, d) = IdAndText(<<"Q", 2>>, Null)
  BY DEF QuestionForm
<1>4. CASE d = 2
  BY <1>4, ScalarForms DEF QuestionForm, IsQuestion, Get
<1> HIDE DEF text, IdAndText
<1>5. d = 0 \/ d = 1 \/ d = 2 \/ d = 3 \/ d = 4
  OBVIOUS
<1> QED
  BY <1>1, <1>2, <1>3, <1>4, <1>5

\* Every reply to a request for questions has the form of one.
LEMMA QuestionPartsFormed ==
    ASSUME NEW n \in Nat, NEW flaw \in Flaws(n, 4)
    PROVE  QuestionList(PartsWith(QuestionForm, n, flaw))
<1> DEFINE s == [k \in 1..n |-> QuestionForm(k, IF k = flaw[1] THEN flaw[2] ELSE 0)]
<1>1. \A k \in 1..n : s[k] = Null \/ IsQuestion(s[k])
  <2> SUFFICES ASSUME NEW k \in 1..n PROVE s[k] = Null \/ IsQuestion(s[k])
    OBVIOUS
  <2>1. (IF k = flaw[1] THEN flaw[2] ELSE 0) \in 0..4
    BY FlawForms
  <2> QED
    BY <2>1, QuestionFormIs
<1>2. DOMAIN s = 1..n /\ s = [k \in 1..n |-> s[k]]
  OBVIOUS
<1>3. PartsWith(QuestionForm, n, flaw) = List(s)
  BY Zenon DEF PartsWith
<1> HIDE DEF s
<1>4. IsSeq(s)
  BY <1>2, MapIsSeq
<1>5. List(s).val = s
  BY ScalarForms
<1>6. \A k \in DOMAIN s : s[k] = Null \/ IsQuestion(s[k])
  BY <1>1, <1>2
<1>7. QuestionList(List(s))
  BY <1>4, <1>5, <1>6, Zenon DEF ListOf, QuestionList
<1> QED
  BY <1>3, <1>7

\* A question that is asked has a text, and an id that is a text.
LEMMA QuestionsAsked ==
    ASSUME NEW asked, QuestionList(Get(asked, "questions"))
    PROVE  /\ \E m \in Nat : DOMAIN Questions(asked) = 1..m
           /\ \A k \in DOMAIN Questions(asked) :
                Questions(asked)[k].text # Blank /\ Questions(asked)[k].id \in Seq(Word)
<1> DEFINE v == Get(asked, "questions")
           given == Objects(v)
           at == {i \in DOMAIN given : ~Empty(Get(given[i], "text"))}
           picked == Picked(given, at)
<1> USE ScalarForms
<1>1. v.type = "array" /\ IsSeq(v.val) /\ \A i \in DOMAIN v.val : v.val[i] = Null \/ IsQuestion(v.val[i])
  BY DEF QuestionList, ListOf
<1>2. /\ IsSeq(given) /\ \A p \in DOMAIN given : \E i \in Sound(v) : given[p] = v.val[i]
  BY <1>1, ObjectsInOrder
<1>3. \A p \in DOMAIN given : IsQuestion(given[p])
  BY <1>1, <1>2 DEF Sound
<1>4. PICK S : given \in Seq(S)
  BY <1>2, SeqIsTyped
<1>5. Questions(asked) =
        [i \in DOMAIN picked |-> [id |-> IF "id" \in DOMAIN picked[i].val THEN picked[i].val.id.val ELSE <<"Q", i>>,
                                  text |-> Get(picked[i], "text").val]]
  BY DEF Questions
<1> HIDE DEF given
<1>6. at \subseteq DOMAIN given /\ \A i \in at : ~Empty(Get(given[i], "text"))
  OBVIOUS
<1> HIDE DEF at
<1>7. picked \in Seq(S) /\ \A p \in DOMAIN picked : \E i \in at : picked[p] = given[i]
  BY <1>4, <1>6, PickedInOrder
<1>8. \A p \in DOMAIN picked : IsQuestion(picked[p]) /\ ~Empty(Get(picked[p], "text"))
  BY <1>3, <1>6, <1>7
<1> HIDE DEF picked
<1>9. Len(picked) \in Nat /\ DOMAIN picked = 1..Len(picked)
  BY <1>7
<1>10. ASSUME NEW k \in DOMAIN picked
      PROVE  Questions(asked)[k].text # Blank /\ Questions(asked)[k].id \in Seq(Word)
  <2>1. Get(picked[k], "text").val # Blank
    BY <1>8 DEF IsQuestion, Empty
  <2>2. <<"Q", k>> \in Seq(Word)
    BY <1>9, IdIsText
  <2>3. "id" \in DOMAIN picked[k].val => picked[k].val.id.val \in Seq(Word)
    BY <1>8 DEF IsQuestion
  <2>4. Questions(asked)[k] = [id |-> IF "id" \in DOMAIN picked[k].val THEN picked[k].val.id.val ELSE <<"Q", k>>,
                               text |-> Get(picked[k], "text").val]
    BY <1>5
  <2> QED
    BY <2>1, <2>2, <2>3, <2>4
<1> QED
  BY <1>5, <1>9, <1>10

\* Which answer it is, and whether it says anything.
Replies(S) == S \X BOOLEAN

\* The reply that gives an answer, maybe an empty one, to each of these ids.
Answering(given) == Dict([answers |-> List([i \in DOMAIN given |-> AnswerForm(given[i][1], given[i][2])])])

LEMMA AnswerIds ==
    ASSUME NEW S, NEW pairs \in Seq(Replies(S)), NEW answered, answered = Answering(pairs)
    PROVE  /\ IsSeq(Objects(Get(answered, "answers")))
           /\ \A p \in DOMAIN Objects(Get(answered, "answers")) : \E id \in S, said \in BOOLEAN :
                Objects(Get(answered, "answers"))[p] = AnswerForm(id, said)
<1> DEFINE s == [i \in DOMAIN pairs |-> AnswerForm(pairs[i][1], pairs[i][2])]
           v == List(s)
<1> USE ScalarForms
<1>1. Get(answered, "answers") = v
  BY DEF Get, Answering
<1>2. Len(pairs) \in Nat /\ DOMAIN pairs = 1..Len(pairs) /\ \A i \in DOMAIN pairs : pairs[i] \in S \X BOOLEAN
  BY DEF Replies
<1>3. /\ DOMAIN s = 1..Len(pairs) /\ s = [i \in 1..Len(pairs) |-> s[i]]
      /\ \A i \in DOMAIN s : s[i] = AnswerForm(pairs[i][1], pairs[i][2])
  BY <1>2
<1> HIDE DEF s
<1>4. IsSeq(s)
  BY <1>2, <1>3, MapIsSeq
<1>5. v.type = "array" /\ v.val = s
  OBVIOUS
<1> HIDE DEF v
<1>6. IsSeq(Objects(v)) /\ \A p \in DOMAIN Objects(v) : \E i \in Sound(v) : Objects(v)[p] = v.val[i]
  BY <1>4, <1>5, ObjectsInOrder
<1>7. ASSUME NEW p \in DOMAIN Objects(v) PROVE \E id \in S, said \in BOOLEAN : Objects(v)[p] = AnswerForm(id, said)
  <2>1. PICK i \in DOMAIN s : Objects(v)[p] = s[i]
    BY <1>5, <1>6 DEF Sound
  <2>2. i \in DOMAIN pairs /\ pairs[i][1] \in S /\ pairs[i][2] \in BOOLEAN
    <3>1. i \in DOMAIN pairs
      BY <1>2, <1>3, <2>1
    <3> QED
      BY <1>2, <3>1
  <2>3. Objects(v)[p] = AnswerForm(pairs[i][1], pairs[i][2])
    BY <1>3, <2>1
  <2> QED
    BY <2>2, <2>3, Zenon
<1> QED
  BY <1>1, <1>6, <1>7

\* Answers to two ids are different answers.
LEMMA AnswerToInjective ==
    \A x, y \in Seq(Word) : <<"answer to">> \o x = <<"answer to">> \o y => x = y
<1>1. "answer to" \in Word
  BY DEF Word
<1>2. <<"answer to">> \in Seq(Word)
  <2>1. ASSUME NEW x \in Word PROVE <<x>> \in Seq(Word)
    OBVIOUS
  <2> QED
    BY <1>1, <2>1
<1> DEFINE head == <<"answer to">>
<1> HIDE DEF head
<1>3. \A x, y \in Seq(Word) : head \o x = head \o y => x = y
  BY <1>2, ConcatSimplifications DEF head
<1> QED
  BY <1>3 DEF head

TextOfId(q, questions, m, id) ==
    \/ q = Blank /\ \A k \in 1..m : questions[k].id # id
    \/ \E k \in 1..m : questions[k].id = id /\ q = questions[k].text

\* The text shown with an answer is that of the first question with the id it answers, and "" if there is none.
LEMMA QuestionOfId ==
    ASSUME NEW m \in Nat, NEW questions, DOMAIN questions = 1..m, NEW i, NEW id
    PROVE  TextOfId(QuestionOf(questions, i, id), questions, m, id)
<1> DEFINE at == {k \in DOMAIN questions : questions[k].id = id}
<1>1. CASE at = {}
  BY <1>1 DEF QuestionOf, TextOfId
<1>2. CASE at # {}
  <2>1. at \subseteq Nat
    OBVIOUS
  <2>2. Min(at) \in at
    <3> HIDE DEF at
    <3> QED
      BY <1>2, <2>1, LeastIsMember
  <2>3. QuestionOf(questions, i, id) = questions[Min(at)].text
    BY <1>2 DEF QuestionOf
  <2>4. Min(at) \in 1..m /\ questions[Min(at)].id = id
    BY <2>2
  <2> HIDE DEF at
  <2> QED
    BY <2>3, <2>4 DEF TextOfId
<1> QED
  BY <1>1, <1>2

\* The part of AnswersMatch about one answer.
AnswerMatched(v, asked, i) ==
    LET answer == Get(v, "answers").val[i]
        text == Get(answer, "question_text").val
        said == Get(answer, "answer_text")
        questions == Questions(asked)
    IN  /\ said.val # Blank /\ text # Blank =>
            \E k \in DOMAIN questions : questions[k].text = text /\ said.val = <<"answer to">> \o questions[k].id
        /\ said.val # Blank /\ text = Blank => \A k \in DOMAIN questions : said.val # <<"answer to">> \o questions[k].id
        /\ Get(SectionsOf(v)[i], "paragraphs").val = IF said.val = Blank THEN <<>> ELSE <<said>>

\* What answer_questions and solve_assignment make of the replies.
LEMMA AnswersAreMatched ==
    ASSUME NEW asked, QuestionList(Get(asked, "questions")),
           NEW pairs \in Seq(Seq(Word) \X BOOLEAN), NEW answered, answered = Answering(pairs),
           NEW v, v = SolveResult(asked, answered), NEW i \in DOMAIN Get(v, "answers").val
    PROVE  AnswerMatched(v, asked, i)
<1> DEFINE questions == Questions(asked)
           answers == Answers(questions, answered)
           given == Objects(Get(answered, "answers"))
<1> DEFINE rows == [j \in DOMAIN answers |-> Dict(answers[j])]
           sections == [j \in DOMAIN answers |->
                            Dict(Section(Text(answers[j].question_id.val \o <<": ">> \o answers[j].question_text.val), 1,
                                         IF Empty(answers[j].answer_text) THEN <<>> ELSE <<answers[j].answer_text>>, <<>>))]
           r == [title |-> Get(asked, "title"),
                 questions_extracted |-> Num(Len(questions)), questions_answered |-> Num(Len(answers)),
                 sections |-> List(sections), answers |-> List(rows)]
<1>14. v = Dict(r)
  BY DEF SolveResult
<1> HIDE DEF answers
<1>1. Get(v, "answers").val = rows
  <2> HIDE DEF rows, sections
  <2> QED
    BY <1>14, GetField, ScalarForms
<1>2. SectionsOf(v) = sections
  <2> HIDE DEF rows, sections
  <2> QED
    BY <1>14, GetField, ScalarForms DEF SectionsOf
<1> HIDE DEF r
<1>3. i \in DOMAIN answers
  BY <1>1
<1>4. PICK id, to, q :
            /\ id \in Seq(Word) /\ (to = Blank \/ to = <<"answer to">> \o id) /\ q = QuestionOf(questions, i, id)
            /\ answers[i] = [question_id |-> Text(id), question_text |-> Text(q), answer_text |-> Text(to)]
  <2>1. questions # <<>>
    BY <1>3 DEF answers, Answers
  <2>2. answers = [j \in DOMAIN given |->
            LET id == Get(given[j], "question_id").val
            IN  [question_id |-> Text(id), question_text |-> Text(QuestionOf(questions, j, id)),
                 answer_text |-> Get(given[j], "answer_text")]]
    BY <2>1 DEF answers, Answers
  <2>3. PICK id \in Seq(Word), said \in BOOLEAN : given[i] = AnswerForm(id, said)
    <3>1. i \in DOMAIN given
      BY <1>3, <2>2
    <3>2. \A p \in DOMAIN given : \E id \in Seq(Word), said \in BOOLEAN : given[p] = AnswerForm(id, said)
      <4> DEFINE W == Seq(Word)
      <4>1. pairs \in Seq(Replies(W))
        BY DEF Replies
      <4> HIDE DEF W
      <4>2. \A p \in DOMAIN given : \E id \in W, said \in BOOLEAN : given[p] = AnswerForm(id, said)
        BY <4>1, AnswerIds
      <4> QED
        BY <4>2 DEF W
    <3> QED
      BY <3>1, <3>2, Zenon
  <2> DEFINE to == IF said THEN <<"answer to">> \o id ELSE Blank
             q == QuestionOf(questions, i, id)
  <2>4. given[i] = Dict([question_id |-> Text(id), answer_text |-> Text(to)])
    BY <2>3 DEF AnswerForm
  <2> HIDE DEF to
  <2>5. Get(given[i], "question_id") = Text(id) /\ Get(given[i], "answer_text") = Text(to)
    BY <2>4, GetField, ScalarForms
  <2> HIDE DEF given, questions
  <2>8. Get(given[i], "question_id").val = id
    BY <2>5, ScalarForms
  <2>6. answers[i] = [question_id |-> Text(id), question_text |-> Text(q), answer_text |-> Text(to)]
    BY <1>3, <2>2, <2>5, <2>8
  <2>7. (to = Blank \/ to = <<"answer to">> \o id) /\ q = QuestionOf(questions, i, id)
    BY Zenon DEF to, q
  <2> HIDE DEF q
  <2> QED
    BY <2>6, <2>7, Zenon
<1> DEFINE answer == Get(v, "answers").val[i]
<1>5. answer = Dict(answers[i])
  BY <1>1, <1>3
<1>6. Get(answer, "question_text").val = q /\ Get(answer, "answer_text") = Text(to)
  <2> HIDE DEF answer
  <2>1. answer = Dict([question_id |-> Text(id), question_text |-> Text(q), answer_text |-> Text(to)])
    BY <1>4, <1>5
  <2> QED
    BY <2>1, GetField, ScalarForms
<1>7. Get(SectionsOf(v)[i], "paragraphs").val = IF to = Blank THEN <<>> ELSE <<Text(to)>>
  <2> DEFINE heading == Text(answers[i].question_id.val \o <<": ">> \o answers[i].question_text.val)
             told == IF Empty(answers[i].answer_text) THEN <<>> ELSE <<answers[i].answer_text>>
  <2>1. SectionsOf(v)[i] = Dict(Section(heading, 1, told, <<>>))
    BY <1>2, <1>3
  <2>2. told = IF to = Blank THEN <<>> ELSE <<Text(to)>>
    <3>1. answers[i].answer_text = Text(to)
      <4>1. answers[i] = [question_id |-> Text(id), question_text |-> Text(q), answer_text |-> Text(to)]
        BY <1>4
      <4> QED
        BY <4>1
    <3>2. Empty(Text(to)) <=> to = Blank
      BY ScalarForms DEF Empty
    <3> QED
      BY <3>1, <3>2
  <2> HIDE DEF heading, told
  <2>3. Get(SectionsOf(v)[i], "paragraphs") = List(told)
    BY <2>1, GetField, ScalarForms DEF Section
  <2> QED
    BY <2>2, <2>3, ScalarForms
<1>8. PICK m \in Nat : DOMAIN questions = 1..m
  BY QuestionsAsked
<1>9. \A k \in 1..m : questions[k].text # Blank /\ questions[k].id \in Seq(Word)
  BY <1>8, QuestionsAsked
<1> HIDE DEF questions, answer, rows, sections
<1>10. \/ q = Blank /\ \A k \in 1..m : questions[k].id # id
       \/ \E k \in 1..m : questions[k].id = id /\ q = questions[k].text
  <2>1. TextOfId(QuestionOf(questions, i, id), questions, m, id)
    BY <1>8, QuestionOfId
  <2> QED
    BY <1>4, <2>1, Zenon DEF TextOfId
<1>11. \A x, y \in Seq(Word) : <<"answer to">> \o x = <<"answer to">> \o y => x = y
  BY AnswerToInjective
<1>12. to # Blank /\ q # Blank =>
            \E k \in DOMAIN questions : questions[k].text = q /\ to = <<"answer to">> \o questions[k].id
  BY <1>4, <1>8, <1>10, Zenon
<1>13. to # Blank /\ q = Blank => \A k \in DOMAIN questions : to # <<"answer to">> \o questions[k].id
  BY <1>4, <1>8, <1>9, <1>10, <1>11, Zenon
<1> DEFINE reply_text == Get(answer, "answer_text")
<1>15. /\ reply_text.val # Blank /\ q # Blank =>
            \E k \in DOMAIN questions : questions[k].text = q /\ reply_text.val = <<"answer to">> \o questions[k].id
       /\ reply_text.val # Blank /\ q = Blank => \A k \in DOMAIN questions : reply_text.val # <<"answer to">> \o questions[k].id
       /\ Get(SectionsOf(v)[i], "paragraphs").val = IF reply_text.val = Blank THEN <<>> ELSE <<reply_text>>
  <2>1. reply_text.val = to /\ reply_text = Text(to)
    BY <1>6, ScalarForms
  <2> HIDE DEF reply_text
  <2> QED
    BY <1>7, <1>12, <1>13, <2>1, Zenon
<1> QED
  BY <1>6, <1>15, Zenon DEF AnswerMatched, questions, answer

SolveLeaves ==
    /\ tool' = "assignment_solve"
    /\ \/ result' # "ok" /\ value' = Nothing
       \/ \E asked, answered : \E pairs \in Seq(Seq(Word) \X BOOLEAN) :
            /\ reply' = Dict([questions |-> asked, answers |-> answered])
            /\ QuestionList(Get(asked, "questions"))
            /\ answered = Answering(pairs)
            /\ Returns(SolveResult(asked, answered), AssignmentOutput)

\* What assignment_solve leaves behind, in every of its cases.
LEMMA SolveStep ==
    ASSUME AssignmentSolve
    PROVE  SolveLeaves /\ file' = NoFile
<1>1. tool' = "assignment_solve" /\ file' = NoFile
  BY DEF AssignmentSolve, Calls
<1>2. CASE AuthorFails("assignment_failed")
  BY <1>1, <1>2 DEF AuthorFails, Fails, SolveLeaves
<1>3. ASSUME NEW n \in 0..MaxParts, NEW pairs \in BoundedSeq({<<"Q", 1>>, <<"Q", 2>>, <<"Q", 9>>} \X BOOLEAN, 2),
             NEW flaw \in Flaws(n, 4), NEW title,
             LET asked == Dict([title |-> title, questions |-> PartsWith(QuestionForm, n, flaw)])
                 answered == Dict([answers |-> List([i \in DOMAIN pairs |-> AnswerForm(pairs[i][1], pairs[i][2])])])
             IN  /\ reply' = Dict([questions |-> asked, answers |-> answered])
                 /\ Returns(SolveResult(asked, answered), AssignmentOutput)
      PROVE  SolveLeaves
  <2> DEFINE asked == Dict([title |-> title, questions |-> PartsWith(QuestionForm, n, flaw)])
             answered == Dict([answers |-> List([i \in DOMAIN pairs |-> AnswerForm(pairs[i][1], pairs[i][2])])])
  <2>1. n \in Nat
    BY DocumentsAssumption DEF DocumentsAssumption
  <2>2. QuestionList(Get(asked, "questions"))
    BY <2>1, QuestionPartsFormed, ScalarForms DEF Get
  <2>3. pairs \in Seq(Seq(Word) \X BOOLEAN)
    <3>1. {<<"Q", 1>>, <<"Q", 2>>, <<"Q", 9>>} \subseteq Seq(Word)
      BY IdIsText
    <3> DEFINE Q == {<<"Q", 1>>, <<"Q", 2>>, <<"Q", 9>>}
               W == Seq(Word)
    <3>2. PICK m \in 0..2 : pairs \in [1..m -> Q \X BOOLEAN]
      BY DEF BoundedSeq, SeqOf
    <3>3. Q \subseteq W
      BY <3>1
    <3> HIDE DEF Q, W
    <3>4. pairs \in [1..m -> W \X BOOLEAN]
      BY <3>2, <3>3
    <3>5. pairs \in Seq(W \X BOOLEAN)
      BY <3>4
    <3> QED
      BY <3>5 DEF W
  <2>4. answered = Answering(pairs)
    BY DEF Answering
  <2>5. reply' = Dict([questions |-> asked, answers |-> answered]) /\ Returns(SolveResult(asked, answered), AssignmentOutput)
    BY <1>3
  <2> HIDE DEF asked, answered
  <2> QED
    BY <1>1, <2>2, <2>3, <2>4, <2>5 DEF SolveLeaves
<1> QED
  BY <1>1, <1>2, <1>3 DEF AssignmentSolve

LEMMA AnswersMatchAfter ==
    ASSUME tool' # "assignment_solve" \/ SolveLeaves
    PROVE  AnswersMatch'
<1>1. SUFFICES ASSUME tool' = "assignment_solve", result' = "ok" PROVE AnswersMatch'
  BY DEF AnswersMatch
<1>2. PICK asked, answered : \E pairs \in Seq(Seq(Word) \X BOOLEAN) :
            /\ reply' = Dict([questions |-> asked, answers |-> answered])
            /\ QuestionList(Get(asked, "questions"))
            /\ answered = Answering(pairs)
            /\ Returns(SolveResult(asked, answered), AssignmentOutput)
  BY <1>1 DEF SolveLeaves
<1>3. value' = SolveResult(asked, answered)
  BY <1>1, <1>2 DEF Returns, Fails
<1>4. Get(reply', "questions") = asked
  BY <1>2, ScalarForms DEF Get
<1>5. \A i \in DOMAIN Get(value', "answers").val : AnswerMatched(value', asked, i)
  BY <1>2, <1>3, AnswersAreMatched
<1> QED
  BY <1>4, <1>5, Zenon DEF AnswersMatch, AnswerMatched, SectionsOf

\* Every answer stands with a question that has the id it answers, or with none if no question has it, for
\* any number of questions and answers in any order, ids missing, given twice or unknown; its section has
\* the answer for its text, and no text if the answer is empty
\* (assignment.py:132-161).
THEOREM AnswersStandRight == Spec => []AnswersMatch
<1>1. Init => AnswersMatch
  BY DEF Init, AnswersMatch
<1>2. AnswersMatch /\ [Next]_vars => AnswersMatch'
  <2> SUFFICES ASSUME AnswersMatch, [Next]_vars PROVE AnswersMatch'
    OBVIOUS
  <2>1. CASE AssignmentSolve
    BY <2>1, SolveStep, AnswersMatchAfter
  <2>2. CASE DocumentRead \/ ExtractStructure \/ Extract \/ AuthorContent \/ Generate \/ NewPlan
    <3>1. tool' # "assignment_solve"
      BY <2>2, CallNames, VisionStep, ExtractStep DEF ExtractLeaves
    <3> QED
      BY <3>1, AnswersMatchAfter
  <2>3. CASE UNCHANGED vars
    BY <2>3 DEF vars, AnswersMatch
  <2> QED
    BY <2>1, <2>2, <2>3 DEF Next
<1> QED
  BY <1>1, <1>2, PTL DEF Spec

-----------------------------------------------------------------------------
(* Joined and Placed, as the functions that their definitions choose. *)

JoinedBy(g, ss) == g = [n \in 0..Len(ss) |-> (IF n = 0 THEN <<>> ELSE g[n - 1] \o ss[n])]

JoinSteps(g, ss) == g[0] = <<>> /\ \A n \in 1..Len(ss) : g[n] = g[n - 1] \o ss[n]

\* Joined is the end of a function that appends the sequences one by one.
LEMMA JoinedUnfolds ==
    ASSUME NEW S, NEW ss \in Seq(Seq(S))
    PROVE  \E g \in [0..Len(ss) -> Seq(S)] : Joined(ss) = g[Len(ss)] /\ JoinSteps(g, ss)
<1> DEFINE step == [n \in 1..Len(ss) |-> [r \in Seq(S) |-> r \o ss[n]]]
<1>1. Len(ss) \in Nat /\ \A n \in 1..Len(ss) : ss[n] \in Seq(S)
  <2> DEFINE T == Seq(S)
  <2>1. ss \in Seq(T)
    OBVIOUS
  <2> HIDE DEF T
  <2>2. Len(ss) \in Nat /\ \A n \in 1..Len(ss) : ss[n] \in T
    BY <2>1
  <2> QED
    BY <2>2 DEF T
<1>2. \A r, t \in Seq(S) : r \o t \in Seq(S)
  BY ConcatProperties
<1>3. step \in [1..Len(ss) -> [Seq(S) -> Seq(S)]] /\ <<>> \in Seq(S)
  BY <1>1, <1>2
<1>4. PICK f : Iterates(f, Len(ss), Seq(S), <<>>, step)
  <2> HIDE DEF step
  <2> QED
    BY <1>1, <1>3, Recursion
<1>5. f \in [0..Len(ss) -> Seq(S)] /\ f[0] = <<>> /\ \A n \in 1..Len(ss) : f[n] = step[n][f[n - 1]]
  BY <1>4 DEF Iterates
<1>6. \A n \in 1..Len(ss) : n - 1 \in 0..Len(ss) /\ f[n - 1] \in Seq(S)
  <2>1. \A n \in 1..Len(ss) : n - 1 \in 0..Len(ss)
    BY <1>1
  <2> QED
    BY <1>5, <2>1, Zenon
<1>7. \A n \in 1..Len(ss) : f[n] = f[n - 1] \o ss[n]
  BY <1>5, <1>6
<1>8. JoinedBy(f, ss)
  <2>1. f = [n \in 0..Len(ss) |-> f[n]]
    BY <1>5
  <2>2. \A n \in 0..Len(ss) : f[n] = IF n = 0 THEN <<>> ELSE f[n - 1] \o ss[n]
    <3>1. \A n \in 0..Len(ss) : n = 0 \/ n \in 1..Len(ss)
      BY <1>1
    <3> QED
      BY <3>1, <1>5, <1>7
  <2> QED
    BY <2>1, <2>2, Zenon DEF JoinedBy
<1> DEFINE G == CHOOSE g : JoinedBy(g, ss)
<1>9. JoinedBy(G, ss)
  BY <1>8, Zenon
<1>10. Joined(ss) = G[Len(ss)]
  BY DEF Joined, JoinedBy
<1> HIDE DEF G
<1>11. JoinSteps(G, ss)
  <2>1. \A n \in 0..Len(ss) : G[n] = IF n = 0 THEN <<>> ELSE G[n - 1] \o ss[n]
    BY <1>9, Zenon DEF JoinedBy
  <2>2. 0 \in 0..Len(ss) /\ \A n \in 1..Len(ss) : n \in 0..Len(ss) /\ n # 0
    BY <1>1
  <2> QED
    BY <2>1, <2>2, Zenon DEF JoinSteps
<1> DEFINE Typed == {n \in 0..Len(ss) : G[n] \in Seq(S)}
<1>12. \A n \in 0..Len(ss) : n \in Typed
  <2>1. 0 \in Typed
    <3>1. 0 \in 0..Len(ss)
      BY <1>1
    <3> QED
      BY <1>3, <1>11, <3>1 DEF JoinSteps
  <2>2. \A n \in 0..(Len(ss) - 1) : n \in Typed => n + 1 \in Typed
    <3> SUFFICES ASSUME NEW n \in 0..(Len(ss) - 1), G[n] \in Seq(S) PROVE n + 1 \in Typed
      BY <1>1
    <3>1. n + 1 \in 1..Len(ss) /\ n + 1 \in 0..Len(ss) /\ (n + 1) - 1 = n
      BY <1>1
    <3>2. G[n + 1] = G[n] \o ss[n + 1] /\ ss[n + 1] \in Seq(S)
      BY <1>1, <1>11, <3>1 DEF JoinSteps
    <3>3. G[n + 1] \in Seq(S)
      BY <1>2, <3>2
    <3> QED
      BY <3>1, <3>3
  <2> HIDE DEF Typed
  <2> QED
    BY <1>1, <2>1, <2>2, Induction
<1>13. G \in [0..Len(ss) -> Seq(S)]
  <2>1. DOMAIN G = 0..Len(ss) /\ G = [n \in DOMAIN G |-> G[n]]
    BY <1>9 DEF JoinedBy
  <2> QED
    BY <1>12, <2>1
<1> QED
  BY <1>10, <1>11, <1>13

LEMMA JoinedTyped ==
    ASSUME NEW S, NEW ss \in Seq(Seq(S))
    PROVE  Joined(ss) \in Seq(S)
<1>1. PICK g \in [0..Len(ss) -> Seq(S)] : Joined(ss) = g[Len(ss)]
  BY JoinedUnfolds
<1>2. Len(ss) \in 0..Len(ss)
  OBVIOUS
<1> QED
  BY <1>1, <1>2

\* Sections of a document that is read, before a table is attached.
TextLists(T) == {List(q) : q \in Seq({Text(x) : x \in T})}

Prose(T, L) == [heading : {Null} \cup {Text(x) : x \in T}, level : {Num(l) : l \in L},
                paragraphs : TextLists(T), bullets : TextLists(T)]

\* The section that is written to, and the list of it.
Open(sections) == IF sections = <<>> THEN <<Section(Null, 1, <<>>, <<>>)>> ELSE sections
ListFor(style) == IF style = "List Bullet" THEN "bullets" ELSE "paragraphs"

\* The sections that are filled paragraph by paragraph stay sections of such texts and levels.
LEMMA SectionTyped ==
    ASSUME NEW T, NEW L, NEW x \in T, NEW l \in L
    PROVE  Section(Text(x), l, <<>>, <<>>) \in Prose(T, L)
<1> DEFINE W == {Text(y) : y \in T}
<1>1. <<>> \in Seq(W)
  OBVIOUS
<1>2. List(<<>>) \in TextLists(T)
  BY <1>1 DEF TextLists
<1> QED
  BY <1>2 DEF Section, Prose

LEMMA OpenTyped ==
    ASSUME NEW T, NEW L, 1 \in L, NEW sections \in Seq(Prose(T, L))
    PROVE  /\ Open(sections) \in Seq(Prose(T, L)) /\ Len(Open(sections)) \in Nat \ {0}
           /\ Open(sections)[Len(Open(sections))] \in Prose(T, L)
           /\ \A i \in 1..Len(Open(sections)) : Open(sections)[i] \in Prose(T, L)
<1> DEFINE first == Section(Null, 1, <<>>, <<>>)
           P == Prose(T, L)
<1>1. first \in P
  <2> DEFINE W == {Text(y) : y \in T}
  <2>1. <<>> \in Seq(W)
    OBVIOUS
  <2>2. List(<<>>) \in TextLists(T)
    BY <2>1 DEF TextLists
  <2> QED
    BY <2>2 DEF Section, Prose
<1>2. sections \in Seq(P)
  OBVIOUS
<1> HIDE DEF first, P
<1>3. Open(sections) \in Seq(P) /\ Open(sections) # <<>>
  BY <1>1, <1>2 DEF Open, first
<1> HIDE DEF Open
<1> DEFINE o == Open(sections)
<1> HIDE DEF o
<1>4. o \in Seq(P) /\ o # <<>>
  BY <1>3 DEF o
<1>5. Len(o) \in Nat \ {0} /\ o[Len(o)] \in P /\ \A i \in 1..Len(o) : o[i] \in P
  BY <1>4
<1> QED
  BY <1>4, <1>5 DEF o, P

\* A text added to one list of a section.
Added(section, list, x) == [section EXCEPT ![list] = List(Append(@.val, Text(x)))]

LEMMA AddedTyped ==
    ASSUME NEW T, NEW L, NEW section \in Prose(T, L), NEW list \in {"paragraphs", "bullets"}, NEW x \in T
    PROVE  Added(section, list, x) \in Prose(T, L)
<1> DEFINE W == {Text(y) : y \in T}
<1>1. PICK q \in Seq(W) : section[list] = List(q)
  BY DEF Prose, TextLists
<1>2. Text(x) \in W
  OBVIOUS
<1> HIDE DEF W
<1>3. Append(q, Text(x)) \in Seq(W)
  BY <1>1, <1>2
<1>4. section[list].val = q
  BY <1>1, ScalarForms
<1>5. List(Append(q, Text(x))) \in TextLists(T)
  BY <1>3 DEF TextLists, W
<1>6. Added(section, list, x) = [section EXCEPT ![list] = List(Append(q, Text(x)))]
  BY <1>4 DEF Added
<1> DEFINE longer == List(Append(q, Text(x)))
<1> HIDE DEF longer
<1>7. [section EXCEPT ![list] = longer] \in Prose(T, L)
  BY <1>5 DEF Prose, longer
<1> QED
  BY <1>6, <1>7 DEF longer

LEMMA PlaceText ==
    ASSUME NEW T, NEW L, 1 \in L, NEW sections \in Seq(Prose(T, L)), NEW block, block.style # "Heading"
    PROVE  Place(sections, block) =
                [Open(sections) EXCEPT ![Len(Open(sections))] =
                    Added(Open(sections)[Len(Open(sections))], ListFor(block.style), block.text)]
BY DEF Place, Open, Added, ListFor

LEMMA PlaceTyped ==
    ASSUME NEW T, NEW L, 1 \in L, NEW sections \in Seq(Prose(T, L)), NEW block, block.text \in T, block.level \in L
    PROVE  Place(sections, block) \in Seq(Prose(T, L))
<1> DEFINE P == Prose(T, L)
<1>1. sections \in Seq(P)
  OBVIOUS
<1>2. CASE block.style = "Heading"
  <2>1. Section(Text(block.text), block.level, <<>>, <<>>) \in P
    BY SectionTyped
  <2>2. Place(sections, block) = Append(sections, Section(Text(block.text), block.level, <<>>, <<>>))
    BY <1>2 DEF Place
  <2> HIDE DEF P
  <2>3. Place(sections, block) \in Seq(P)
    BY <1>1, <2>1, <2>2
  <2> QED
    BY <2>3 DEF P
<1>3. CASE block.style # "Heading"
  <2> DEFINE o == Open(sections)
             new == Added(o[Len(o)], ListFor(block.style), block.text)
  <2>1. o \in Seq(P) /\ Len(o) \in Nat \ {0} /\ o[Len(o)] \in P
    BY OpenTyped
  <2>2. new \in P
    <3>1. ListFor(block.style) \in {"paragraphs", "bullets"}
      BY DEF ListFor
    <3> QED
      BY <2>1, <3>1, AddedTyped
  <2>3. Place(sections, block) = [o EXCEPT ![Len(o)] = new]
    BY <1>3, PlaceText
  <2> HIDE DEF P, o, new
  <2>4. [o EXCEPT ![Len(o)] = new] \in Seq(P)
    BY <2>1, <2>2
  <2> QED
    BY <2>3, <2>4 DEF P
<1> QED
  BY <1>2, <1>3

PlacedBy(g, body) == g = [n \in 0..Len(body) |-> (IF n = 0 THEN <<>> ELSE Place(g[n - 1], body[n]))]

PlaceSteps(g, body) == g[0] = <<>> /\ \A n \in 1..Len(body) : g[n] = Place(g[n - 1], body[n])

\* Placed is the end of a function that places the blocks one by one.
LEMMA PlacedUnfolds ==
    ASSUME NEW T, NEW L, 1 \in L, NEW body, Len(body) \in Nat,
           \A n \in 1..Len(body) : body[n].text \in T /\ body[n].level \in L
    PROVE  \E g \in [0..Len(body) -> Seq(Prose(T, L))] : Placed(body) = g[Len(body)] /\ PlaceSteps(g, body)
<1> DEFINE Q == Seq(Prose(T, L))
           step == [n \in 1..Len(body) |-> [r \in Q |-> Place(r, body[n])]]
<1>1. \A n \in 1..Len(body) : \A r \in Q : Place(r, body[n]) \in Q
  BY PlaceTyped
<1>2. <<>> \in Q
  OBVIOUS
<1> HIDE DEF Q
<1>3. step \in [1..Len(body) -> [Q -> Q]]
  BY <1>1
<1>4. PICK f : Iterates(f, Len(body), Q, <<>>, step)
  <2> HIDE DEF step
  <2> QED
    BY <1>2, <1>3, Recursion
<1>5. f \in [0..Len(body) -> Q] /\ f[0] = <<>> /\ \A n \in 1..Len(body) : f[n] = step[n][f[n - 1]]
  BY <1>4 DEF Iterates
<1>6. \A n \in 1..Len(body) : n - 1 \in 0..Len(body) /\ f[n - 1] \in Q
  BY <1>5
<1>7. \A n \in 1..Len(body) : f[n] = Place(f[n - 1], body[n])
  BY <1>5, <1>6
<1>8. PlacedBy(f, body)
  <2>1. f = [n \in 0..Len(body) |-> f[n]]
    BY <1>5
  <2>2. \A n \in 0..Len(body) : f[n] = IF n = 0 THEN <<>> ELSE Place(f[n - 1], body[n])
    <3>1. \A n \in 0..Len(body) : n = 0 \/ n \in 1..Len(body)
      OBVIOUS
    <3> QED
      BY <3>1, <1>5, <1>7
  <2> QED
    BY <2>1, <2>2, Zenon DEF PlacedBy
<1> DEFINE G == CHOOSE g : PlacedBy(g, body)
<1>9. PlacedBy(G, body)
  BY <1>8, Zenon
<1>10. Placed(body) = G[Len(body)]
  BY DEF Placed, PlacedBy
<1> HIDE DEF G
<1>11. PlaceSteps(G, body)
  <2>1. \A n \in 0..Len(body) : G[n] = IF n = 0 THEN <<>> ELSE Place(G[n - 1], body[n])
    BY <1>9, Zenon DEF PlacedBy
  <2>2. 0 \in 0..Len(body) /\ \A n \in 1..Len(body) : n \in 0..Len(body) /\ n # 0
    OBVIOUS
  <2> QED
    BY <2>1, <2>2, Zenon DEF PlaceSteps
<1> DEFINE Typed == {n \in 0..Len(body) : G[n] \in Q}
<1>12. \A n \in 0..Len(body) : n \in Typed
  <2>1. 0 \in Typed
    <3>1. 0 \in 0..Len(body)
      OBVIOUS
    <3> QED
      BY <1>2, <1>11, <3>1 DEF PlaceSteps
  <2>2. \A n \in 0..(Len(body) - 1) : n \in Typed => n + 1 \in Typed
    <3> SUFFICES ASSUME NEW n \in 0..(Len(body) - 1), G[n] \in Q PROVE n + 1 \in Typed
      OBVIOUS
    <3>1. n + 1 \in 1..Len(body) /\ n + 1 \in 0..Len(body) /\ (n + 1) - 1 = n
      OBVIOUS
    <3>2. G[n + 1] = Place(G[n], body[n + 1])
      BY <1>11, <3>1 DEF PlaceSteps
    <3>3. G[n + 1] \in Q
      BY <1>1, <3>1, <3>2
    <3> QED
      BY <3>1, <3>3
  <2> HIDE DEF Typed
  <2> QED
    BY <2>1, <2>2, Induction
<1>13. G \in [0..Len(body) -> Q]
  <2>1. DOMAIN G = 0..Len(body) /\ G = [n \in DOMAIN G |-> G[n]]
    BY <1>9 DEF PlacedBy
  <2> QED
    BY <1>12, <2>1
<1> QED
  BY <1>10, <1>11, <1>13 DEF Q

-----------------------------------------------------------------------------
(* document_read. *)

Styles == {"Title", "Heading", "List Bullet", "Body"}

FileTable(t) == FormedTable(t) /\ HasHeaders(t) /\ RowTexts(t.val["rows"])

FileFormed(f) ==
    /\ IsSeq(f.blocks) /\ \A i \in DOMAIN f.blocks : f.blocks[i].style \in Styles
    /\ IsSeq(f.tables) /\ \A i \in DOMAIN f.tables : FileTable(f.tables[i].cells)

\* The body has no blank block, and each of its blocks has the style of one of the document.
LEMMA BodyTyped ==
    ASSUME NEW blocks, IsSeq(blocks), \A i \in DOMAIN blocks : blocks[i].style \in Styles
    PROVE  /\ IsSeq(Body(blocks)) /\ Len(Body(blocks)) \in Nat /\ DOMAIN Body(blocks) = 1..Len(Body(blocks))
           /\ \A p \in DOMAIN Body(blocks) : Body(blocks)[p].style \in Styles /\ Body(blocks)[p].text # Blank
<1> DEFINE trimmed == [i \in DOMAIN blocks |-> Trimmed(blocks[i])]
           at == {i \in DOMAIN blocks : i # TitleAt(blocks) /\ trimmed[i].text # Blank}
<1>1. Len(blocks) \in Nat /\ DOMAIN blocks = 1..Len(blocks)
  BY SeqIsTyped
<1>2. Body(blocks) = Picked(trimmed, at)
  BY DEF Body
<1>3. \A i \in at : trimmed[i].style \in Styles /\ trimmed[i].text # Blank
  BY DEF Trimmed, Block
<1>7. DOMAIN trimmed = 1..Len(blocks) /\ trimmed = [i \in 1..Len(blocks) |-> trimmed[i]] /\ at \subseteq 1..Len(blocks)
  BY <1>1
<1> HIDE DEF at, trimmed
<1>8. PICK S : trimmed \in Seq(S)
  <2>1. IsSeq(trimmed)
    BY <1>1, <1>7, MapIsSeq
  <2> QED
    BY <2>1, SeqIsTyped
<1>9. at \subseteq DOMAIN trimmed
  BY <1>7
<1>6. /\ Body(blocks) \in Seq(S)
      /\ \A p \in DOMAIN Body(blocks) : \E i \in at : Body(blocks)[p] = trimmed[i]
  <2>1. /\ Picked(trimmed, at) \in Seq(S)
        /\ \A p \in DOMAIN Picked(trimmed, at) : \E i \in at : Picked(trimmed, at)[p] = trimmed[i]
    BY <1>8, <1>9, PickedInOrder
  <2> QED
    BY <1>2, <2>1, Zenon
<1>4. \A p \in DOMAIN Body(blocks) : Body(blocks)[p].style \in Styles /\ Body(blocks)[p].text # Blank
  BY <1>3, <1>6
<1>5. IsSeq(Body(blocks))
  BY <1>6, SeqOfSome
<1> QED
  BY <1>4, <1>5, <1>6

\* The texts and levels of a body, and what its sections are made of.
TextsIn(body)  == {body[i].text : i \in DOMAIN body}
LevelsIn(body) == {1} \cup {body[i].level : i \in DOMAIN body}

LEMMA PlacedTyped ==
    ASSUME NEW body, Len(body) \in Nat, DOMAIN body = 1..Len(body)
    PROVE  /\ \E g \in [0..Len(body) -> Seq(Prose(TextsIn(body), LevelsIn(body)))] :
                Placed(body) = g[Len(body)] /\ PlaceSteps(g, body)
           /\ Placed(body) \in Seq(Prose(TextsIn(body), LevelsIn(body)))
<1> DEFINE T == TextsIn(body)
           L == LevelsIn(body)
<1>1. 1 \in L /\ \A n \in 1..Len(body) : body[n].text \in T /\ body[n].level \in L
  BY DEF TextsIn, LevelsIn
<1> HIDE DEF T, L
<1>2. PICK g \in [0..Len(body) -> Seq(Prose(T, L))] : Placed(body) = g[Len(body)] /\ PlaceSteps(g, body)
  BY <1>1, PlacedUnfolds
<1>3. Placed(body) \in Seq(Prose(T, L))
  <2>1. Len(body) \in 0..Len(body)
    OBVIOUS
  <2> QED
    BY <1>2, <2>1, Zenon
<1> QED
  BY <1>2, <1>3 DEF T, L

LEMMA TextListForms ==
    ASSUME NEW T, NEW v \in TextLists(T)
    PROVE  Texts(v) /\ Flat(v)
<1> DEFINE W == {Text(x) : x \in T}
<1>1. PICK q \in Seq(W) : v = List(q)
  BY DEF TextLists
<1>2. \A w \in W : Scalar(w) /\ w.type = "string"
  BY ScalarForms
<1> HIDE DEF W
<1>3. \A i \in DOMAIN q : q[i] \in W
  OBVIOUS
<1>4. IsSeq(q)
  BY SeqOfSome
<1>5. Flat(List(q))
  BY <1>2, <1>3, <1>4, ListForms
<1>6. Texts(List(q))
  BY <1>2, <1>3, ScalarForms DEF Texts, Array, Str
<1> QED
  BY <1>1, <1>5, <1>6

LEMMA ProseFields ==
    ASSUME NEW T, NEW L, NEW s \in Prose(T, L)
    PROVE  /\ DOMAIN s = {"heading", "level", "paragraphs", "bullets"}
           /\ s.heading = Null \/ \E x \in T : s.heading = Text(x)
           /\ \E l \in L : s.level = Num(l)
           /\ s.paragraphs \in TextLists(T) /\ s.bullets \in TextLists(T)
BY DEF Prose

\* The fields of a section that is being read have the types the schema asks for, but for a heading that is
\* None.
LEMMA ProseForms ==
    ASSUME NEW T, NEW L, NEW s \in Prose(T, L)
    PROVE  /\ Scalar(s["heading"]) /\ Scalar(s["level"]) /\ AnyInt(s["level"])
           /\ s["heading"] # Null => Str(s["heading"])
           /\ Texts(s["paragraphs"]) /\ Flat(s["paragraphs"]) /\ Texts(s["bullets"]) /\ Flat(s["bullets"])
<1>1. Scalar(s["heading"]) /\ Scalar(s["level"]) /\ AnyInt(s["level"]) /\ (s["heading"] # Null => Str(s["heading"]))
  BY ProseFields, ScalarForms DEF AnyInt, Str
<1>2. s["paragraphs"] \in TextLists(T) /\ s["bullets"] \in TextLists(T)
  BY ProseFields
<1> QED
  BY <1>1, <1>2, TextListForms

\* A section that is handed on by document_read.
ReadForm(r) ==
    /\ DOMAIN r \in {{"heading", "level", "paragraphs", "bullets"}, {"heading", "level", "paragraphs", "bullets", "table"}}
    /\ FormedSection(Dict(r)) /\ (r["heading"] # Null => ReadSection(Dict(r)))
    /\ "table" \in DOMAIN r => FileTable(r["table"])

LEMMA FileTableFits ==
    ASSUME NEW t, FileTable(t)
    PROVE  ReadTable(t) /\ GenerateTable(t) /\ t.type = "object"
<1>1. t.type = "object"
  BY ScalarForms DEF FileTable, HasHeaders
<1> QED
  BY <1>1 DEF FileTable, HasHeaders, ReadTable, GenerateTable, Obj, Property

LEMMA ProseIsRead ==
    ASSUME NEW T, NEW L, NEW s \in Prose(T, L)
    PROVE  ReadForm(s)
<1>1. DOMAIN s = {"heading", "level", "paragraphs", "bullets"}
  BY ProseFields
<1> QED
  BY <1>1, ProseForms, ScalarForms DEF ReadForm, FormedSection, ReadSection, Obj, Property

\* A table added to a section changes none of its other fields.
LEMMA WithTableIsRead ==
    ASSUME NEW T, NEW L, NEW s \in Prose(T, L), NEW table, FileTable(table)
    PROVE  /\ ReadForm(WithTable(s, table))
           /\ \A key \in {"heading", "level", "paragraphs", "bullets"} : WithTable(s, table)[key] = s[key]
           /\ WithTable(s, table)["table"] = table /\ "table" \in DOMAIN WithTable(s, table)
<1> DEFINE r == WithTable(s, table)
<1>1. DOMAIN s = {"heading", "level", "paragraphs", "bullets"}
  BY ProseFields
<1>2. /\ DOMAIN r = {"heading", "level", "paragraphs", "bullets", "table"}
      /\ \A key \in {"heading", "level", "paragraphs", "bullets"} : r[key] = s[key]
      /\ r["table"] = table
  BY <1>1 DEF WithTable
<1> HIDE DEF r
<1>3. FormedTable(table) /\ ReadTable(table)
  BY FileTableFits DEF FileTable
<1>4. ReadForm(r)
  BY <1>2, <1>3, ProseForms, ScalarForms DEF ReadForm, FormedSection, ReadSection, Obj, Property
<1> QED
  BY <1>2, <1>4 DEF r

\* Attaching a table to the last section, position by position.
LEMMA FrontIs ==
    ASSUME NEW P, NEW s \in Seq(P), s # <<>>
    PROVE  /\ Front(s) \in Seq(P) /\ Len(Front(s)) = Len(s) - 1
           /\ \A i \in 1..(Len(s) - 1) : Front(s)[i] = s[i]
<1> DEFINE m == Len(s) - 1
<1>1. m \in Nat /\ Len(s) = m + 1 /\ \A i \in 1..m : s[i] \in P
  OBVIOUS
<1>2. Front(s) = SubSeq(s, 1, m)
  BY DEF Front
<1> HIDE DEF m
<1>3. Len(SubSeq(s, 1, m)) = m /\ \A i \in 1..m : SubSeq(s, 1, m)[i] = s[i]
  BY <1>1
<1>4. SubSeq(s, 1, m) \in Seq(P)
  BY <1>1
<1> QED
  BY <1>1, <1>2, <1>3, <1>4 DEF m

LEMMA AttachedIs ==
    ASSUME NEW P, NEW sections \in Seq(P), sections # <<>>, NEW S, NEW tables \in Seq(S), tables # <<>>
    PROVE  /\ Attached(sections, tables) =
                [i \in 1..Len(sections) |-> IF i = Len(sections) THEN WithTable(sections[i], Last(tables)) ELSE sections[i]]
           /\ Last(tables) \in S
<1> DEFINE front == Front(sections)
           last == WithTable(Last(sections), Last(tables))
<1>1. Attached(sections, tables) = Append(front, last)
  BY DEF Attached, Attach
<1>2. Len(sections) \in Nat \ {0}
  OBVIOUS
<1>3. front \in Seq(P) /\ Len(front) = Len(sections) - 1 /\ \A i \in 1..(Len(sections) - 1) : front[i] = sections[i]
  BY FrontIs DEF front
<1>4. last = WithTable(sections[Len(sections)], Last(tables))
  BY DEF Last
<1> HIDE DEF front, last
<1>5. Append(front, last) = [i \in 1..Len(sections) |-> IF i = Len(sections) THEN last ELSE sections[i]]
  <2> DEFINE V == P \cup {last}
             a == Append(front, last)
  <2>1. front \in Seq(V) /\ last \in V
    BY <1>3
  <2> HIDE DEF V
  <2>2. a \in Seq(V) /\ Len(a) = Len(sections) /\ a[Len(sections)] = last
    BY <1>2, <1>3, <2>1
  <2>3. \A i \in 1..(Len(sections) - 1) : a[i] = sections[i]
    BY <1>2, <1>3, <2>1
  <2> HIDE DEF a
  <2>4. a = [i \in 1..Len(sections) |-> a[i]]
    BY <2>2
  <2>5. \A i \in 1..Len(sections) : a[i] = IF i = Len(sections) THEN last ELSE sections[i]
    BY <1>2, <2>2, <2>3
  <2> QED
    BY <2>4, <2>5, Zenon DEF a
<1>6. Last(tables) \in S
  BY DEF Last
<1> QED
  BY <1>1, <1>4, <1>5, <1>6

\* A list of texts of a section that may be rendered.
LEMMA TextsListed ==
    ASSUME NEW v, Flat(v), Texts(v)
    PROVE  /\ v = List(v.val) /\ IsSeq(v.val) /\ \A i \in DOMAIN v.val : Scalar(v.val[i]) /\ Str(v.val[i])
           /\ Len(v.val) \in Nat /\ DOMAIN v.val = 1..Len(v.val)
<1>1. ListOf(v, Scalar)
  BY ScalarForms DEF Flat, Scalar, Texts, Array
<1>2. Len(v.val) \in Nat /\ DOMAIN v.val = 1..Len(v.val)
  BY <1>1, SeqIsTyped DEF ListOf
<1> QED
  BY <1>1, <1>2 DEF ListOf, Texts, Array

\* A row without the white space around its cells.
LEMMA StripRowFits ==
    ASSUME NEW v, Flat(v), Texts(v)
    PROVE  Flat(StripRow(v)) /\ Texts(StripRow(v))
<1> DEFINE n == Len(v.val)
           cells == [i \in DOMAIN v.val |-> StripText(v.val[i])]
<1>1. n \in Nat /\ DOMAIN v.val = 1..n
  BY TextsListed
<1> HIDE DEF n
<1>2. DOMAIN cells = 1..n /\ cells = [i \in 1..n |-> cells[i]]
  BY <1>1
<1>3. \A i \in DOMAIN cells : Scalar(cells[i]) /\ Str(cells[i])
  BY ScalarForms DEF StripText, Str
<1>4. StripRow(v) = List(cells)
  BY DEF StripRow, Each
<1> HIDE DEF cells
<1>5. IsSeq(cells)
  BY <1>1, <1>2, MapIsSeq
<1> QED
  BY <1>3, <1>4, <1>5, ListForms, ScalarForms DEF Texts, Array

\* What document_read takes of a table is a table of texts.
LEMMA TableReadFits ==
    ASSUME NEW t, FileTable(t)
    PROVE  FileTable(TableRead(t))
<1> DEFINE headers == Get(t, "headers")
           rows == Get(t, "rows")
           lines == [i \in DOMAIN rows.val |-> StripRow(rows.val[i])]
           read == [headers |-> StripRow(headers), rows |-> List(lines)]
<1>1. Flat(headers) /\ Texts(headers) /\ Nested(rows) /\ RowTexts(rows)
  BY DEF FileTable, FormedTable, HasHeaders, Get
<1>2. ListOf(rows, Flat)
  BY <1>1, ScalarForms DEF Nested, Scalar, RowTexts, Array
<1>3. TableRead(t) = Dict(read)
  BY DEF TableRead, Each
<1> HIDE DEF headers, rows
<1>4. PICK n \in Nat : DOMAIN rows.val = 1..n
  BY <1>2, SeqIsTyped DEF ListOf
<1>5. \A i \in 1..n : Flat(lines[i]) /\ Texts(lines[i])
  <2>1. \A i \in 1..n : Flat(rows.val[i]) /\ Texts(rows.val[i])
    BY <1>1, <1>2, <1>4 DEF ListOf, RowTexts, Array
  <2> QED
    BY <1>4, <2>1, StripRowFits
<1>6. DOMAIN lines = 1..n /\ lines = [i \in 1..n |-> lines[i]]
  BY <1>4
<1> HIDE DEF lines
<1>7. Nested(List(lines)) /\ RowTexts(List(lines))
  <2>1. IsSeq(lines)
    BY <1>6, MapIsSeq
  <2> QED
    BY <1>5, <1>6, <2>1, ListForms, ScalarForms DEF RowTexts, Array
<1>8. Flat(StripRow(headers)) /\ Texts(StripRow(headers))
  BY <1>1, StripRowFits
<1>9. DOMAIN read = {"headers", "rows"} /\ read["headers"] = StripRow(headers) /\ read["rows"] = List(lines)
  OBVIOUS
<1> HIDE DEF read
<1> QED
  BY <1>3, <1>7, <1>8, <1>9, ScalarForms DEF FileTable, FormedTable, HasHeaders

LEMMA TablesReadAre ==
    ASSUME NEW f, FileFormed(f)
    PROVE  /\ IsSeq(TablesRead(f.tables)) /\ Len(TablesRead(f.tables)) = Len(f.tables)
           /\ DOMAIN TablesRead(f.tables) = DOMAIN f.tables
           /\ \A k \in DOMAIN f.tables :
                TablesRead(f.tables)[k] = TableRead(f.tables[k].cells) /\ FileTable(TablesRead(f.tables)[k])
           /\ TablesRead(f.tables) = <<>> <=> f.tables = <<>>
<1> DEFINE s == [k \in DOMAIN f.tables |-> TableRead(f.tables[k].cells)]
           n == Len(f.tables)
<1>1. IsSeq(f.tables) /\ \A k \in DOMAIN f.tables : FileTable(f.tables[k].cells)
  BY DEF FileFormed
<1>2. n \in Nat /\ DOMAIN f.tables = 1..n /\ (f.tables = <<>> <=> n = 0)
  <2>1. PICK S : f.tables \in Seq(S)
    BY <1>1, SeqIsTyped
  <2> QED
    BY <2>1
<1>3. TablesRead(f.tables) = s
  BY DEF TablesRead
<1>4. DOMAIN s = 1..n /\ s = [k \in 1..n |-> s[k]] /\ \A k \in 1..n : s[k] = TableRead(f.tables[k].cells) /\ FileTable(s[k])
  BY <1>1, <1>2, TableReadFits
<1> HIDE DEF n, s
<1>5. IsSeq(s) /\ Len(s) = n
  BY <1>2, <1>4, MapIsSeq
<1>6. s = <<>> <=> n = 0
  <2>1. PICK S : s \in Seq(S)
    BY <1>5, SeqIsTyped
  <2> QED
    BY <1>5, <2>1
<1> QED
  BY <1>2, <1>3, <1>4, <1>5, <1>6 DEF n

\* What document_read makes of a document, whatever is in it.
LEMMA ReadDocxForm ==
    ASSUME NEW f, FileFormed(f)
    PROVE  LET v == ReadDocx(f)
               sections == Attached(Placed(Body(f.blocks)), TablesRead(f.tables))
           IN  /\ v = Dict(v.val) /\ DOMAIN v.val = {"title", "sections", "tables"}
               /\ \E x : v.val["title"] = Text(x)
               /\ v.val["sections"] = List([i \in DOMAIN sections |-> Dict(sections[i])])
               /\ v.val["tables"] = List(TablesRead(f.tables))
               /\ IsSeq(sections) /\ \A i \in DOMAIN sections : ReadForm(sections[i])
<1> DEFINE body == Body(f.blocks)
           placed == Placed(body)
           tables == TablesRead(f.tables)
           sections == Attached(placed, tables)
           T == TextsIn(body)
           L == LevelsIn(body)
<1>1. IsSeq(tables) /\ \A i \in DOMAIN tables : FileTable(tables[i])
  BY TablesReadAre
<1>2. Len(body) \in Nat /\ DOMAIN body = 1..Len(body)
  BY BodyTyped DEF FileFormed
<1>3. placed \in Seq(Prose(T, L))
  BY <1>2, PlacedTyped
<1> HIDE DEF placed, T, L, tables
<1>4. \A i \in DOMAIN placed : placed[i] \in Prose(T, L)
  BY <1>3
<1>5. IsSeq(sections) /\ \A i \in DOMAIN sections : ReadForm(sections[i])
  <2>1. PICK S : tables \in Seq(S)
    BY <1>1, SeqIsTyped
  <2>2. CASE tables = <<>>
    <3>1. sections = placed
      BY <2>2 DEF Attached
    <3>2. \A i \in DOMAIN placed : ReadForm(placed[i])
      BY <1>4, ProseIsRead
    <3>3. IsSeq(placed)
      BY <1>3, SeqOfSome
    <3> QED
      BY <3>1, <3>2, <3>3
  <2>3. CASE tables # <<>>
    <3>1. Last(tables) \in {tables[i] : i \in DOMAIN tables}
      BY <2>1, <2>3 DEF Last
    <3>2. FileTable(Last(tables))
      BY <1>1, <3>1
    <3>3. CASE placed = <<>>
      <4> DEFINE first == Section(Text(<<"Tables">>), 1, <<>>, <<>>)
      <4>1. sections = <<WithTable(first, Last(tables))>>
        BY <2>3, <3>3 DEF Attached, Attach
      <4>2. first \in Prose({<<"Tables">>}, {1})
        BY SectionTyped
      <4> HIDE DEF first
      <4>3. ReadForm(WithTable(first, Last(tables)))
        BY <3>2, <4>2, WithTableIsRead
      <4> QED
        BY <4>1, <4>3, ShortLists
    <3>4. CASE placed # <<>>
      <4> DEFINE last == WithTable(placed[Len(placed)], Last(tables))
      <4>1. sections = [i \in 1..Len(placed) |-> IF i = Len(placed) THEN WithTable(placed[i], Last(tables)) ELSE placed[i]]
        BY <1>3, <2>1, <2>3, <3>4, AttachedIs
      <4>2. Len(placed) \in Nat \ {0} /\ \A i \in 1..Len(placed) : placed[i] \in Prose(T, L)
        BY <1>3, <3>4
      <4> HIDE DEF sections
      <4>3. ASSUME NEW i \in 1..Len(placed) PROVE ReadForm(sections[i])
        <5>1. ReadForm(placed[i]) /\ ReadForm(WithTable(placed[i], Last(tables)))
          BY <3>2, <4>2, ProseIsRead, WithTableIsRead
        <5> QED
          BY <4>1, <5>1
      <4>4. DOMAIN sections = 1..Len(placed) /\ sections = [i \in 1..Len(placed) |-> sections[i]]
        BY <4>1
      <4> QED
        BY <4>2, <4>3, <4>4, MapIsSeq
    <3> QED
      BY <3>3, <3>4
  <2> QED
    BY <2>2, <2>3
<1> HIDE DEF sections
<1> DEFINE x == IF TitleAt(f.blocks) = 0 THEN Blank ELSE Strip(f.blocks[TitleAt(f.blocks)].text)
           listed == [i \in DOMAIN sections |-> Dict(sections[i])]
<1>6. ReadDocx(f) = Dict([title |-> Text(x), sections |-> List(listed), tables |-> List(tables)])
  BY DEF ReadDocx, sections, placed, tables
<1> HIDE DEF x
<1>7. /\ ReadDocx(f) = Dict(ReadDocx(f).val) /\ DOMAIN ReadDocx(f).val = {"title", "sections", "tables"}
      /\ ReadDocx(f).val["title"] = Text(x) /\ ReadDocx(f).val["tables"] = List(tables)
      /\ ReadDocx(f).val["sections"] = List(listed)
  <2> HIDE DEF listed
  <2> QED
    BY <1>6, ScalarForms
<1> QED
  BY <1>5, <1>7 DEF sections, placed, tables

-----------------------------------------------------------------------------
(* document_generate_*. *)

\* What stands in u stands in s or in t.
FromEither(u, s, t) == \A p \in DOMAIN u : (\E i \in DOMAIN s : u[p] = s[i]) \/ (\E i \in DOMAIN t : u[p] = t[i])

\* Every block of two documents one after the other is a block of one of them.
LEMMA ConcatIsSeq ==
    ASSUME NEW s, NEW t, IsSeq(s), IsSeq(t)
    PROVE  IsSeq(s \o t) /\ FromEither(s \o t, s, t)
<1> DEFINE S == {s[i] : i \in DOMAIN s}
           T == {t[i] : i \in DOMAIN t}
           U == S \cup T
<1>1. s \in Seq(S) /\ t \in Seq(T)
  BY DEF IsSeq
<1>2. s \in Seq(U) /\ t \in Seq(U)
  <2> HIDE DEF S, T
  <2> QED
    BY <1>1
<1>3. s \o t \in Seq(U)
  <2> HIDE DEF U
  <2> QED
    BY <1>2
<1>4. \A p \in DOMAIN (s \o t) : (s \o t)[p] \in U
  <2> HIDE DEF U
  <2> QED
    BY <1>3
<1>5. IsSeq(s \o t)
  BY <1>3, SeqOfSome
<1>6. FromEither(s \o t, s, t)
  BY <1>4 DEF FromEither
<1> QED
  BY <1>5, <1>6

\* The sequences that are joined need not be of one kind.
LEMMA JoinedIsSeq ==
    ASSUME NEW ss, NEW n \in Nat, ss = [i \in 1..n |-> ss[i]], \A i \in 1..n : IsSeq(ss[i])
    PROVE  /\ IsSeq(Joined(ss))
           /\ \A p \in DOMAIN Joined(ss) : \E i \in 1..n : \E j \in DOMAIN ss[i] : Joined(ss)[p] = ss[i][j]
<1> DEFINE S == UNION {{ss[i][j] : j \in DOMAIN ss[i]} : i \in 1..n}
           Q == Seq(S)
<1>1. \A i \in 1..n : ss[i] \in Q
  <2> SUFFICES ASSUME NEW i \in 1..n PROVE ss[i] \in Q
    OBVIOUS
  <2> DEFINE T == {ss[i][j] : j \in DOMAIN ss[i]}
  <2>1. ss[i] \in Seq(T)
    BY DEF IsSeq
  <2>2. T \subseteq S
    OBVIOUS
  <2> HIDE DEF T, S
  <2> QED
    BY <2>1, <2>2
<1> HIDE DEF Q
<1>2. ss \in Seq(Q)
  BY <1>1
<1> HIDE DEF S
<1>3. Joined(ss) \in Seq(S)
  BY <1>2, JoinedTyped DEF Q
<1>4. \A p \in DOMAIN Joined(ss) : Joined(ss)[p] \in S
  BY <1>3
<1> QED
  BY <1>3, <1>4, SeqOfSome DEF S

Styling(blocks) == IsSeq(blocks) /\ \A p \in DOMAIN blocks : blocks[p].style \in Styles

LEMMA StyledBlocks ==
    ASSUME NEW v, Flat(v), Texts(v), NEW style \in Styles
    PROVE  Styling(Styled(style, v))
<1> DEFINE n == Len(v.val)
           s == [i \in DOMAIN v.val |-> Block(style, 1, v.val[i].val)]
<1>1. n \in Nat /\ DOMAIN v.val = 1..n
  BY TextsListed
<1> HIDE DEF n
<1>2. DOMAIN s = 1..n /\ s = [i \in 1..n |-> s[i]] /\ \A i \in 1..n : s[i].style \in Styles
  BY <1>1 DEF Block
<1>3. Styled(style, v) = s
  BY DEF Styled
<1> HIDE DEF s
<1>4. IsSeq(s)
  BY <1>1, <1>2, MapIsSeq
<1> QED
  BY <1>2, <1>3, <1>4 DEF Styling

LEMMA StylingConcat ==
    ASSUME NEW s, NEW t, Styling(s), Styling(t)
    PROVE  Styling(s \o t)
<1>1. IsSeq(s \o t) /\ FromEither(s \o t, s, t)
  BY ConcatIsSeq DEF Styling
<1>2. ASSUME NEW p \in DOMAIN (s \o t) PROVE (s \o t)[p].style \in Styles
  <2>1. (\E i \in DOMAIN s : (s \o t)[p] = s[i]) \/ (\E i \in DOMAIN t : (s \o t)[p] = t[i])
    BY <1>1, Zenon DEF FromEither
  <2> QED
    BY <2>1 DEF Styling
<1> QED
  BY <1>1, <1>2 DEF Styling

LEMMA StylingShort ==
    /\ Styling(<<>>)
    /\ \A style \in Styles : \A level, text : Styling(<<Block(style, level, text)>>)
BY ShortLists DEF Styling, Block

Blocks(format, s) == CASE format = "docx" -> DocxBlocks(s) [] format = "pdf" -> PdfBlocks(s) [] format = "pptx" -> PptxBlocks(s)

\* What GenerateInput says of a section that has the form of one.
LEMMA GenerateFields ==
    ASSUME NEW s, FormedSection(s), GenerateSection(s)
    PROVE  /\ Flat(Get(s, "paragraphs")) /\ Texts(Get(s, "paragraphs"))
           /\ Flat(Get(s, "bullets")) /\ Texts(Get(s, "bullets"))
           /\ Scalar(Get(s, "heading")) /\ Str(Get(s, "heading"))
           /\ GenerateLevel(Get(s, "level"))
           /\ Get(s, "table") = Null \/ (FormedTable(Get(s, "table")) /\ GenerateTable(Get(s, "table")))
<1>1. /\ \A key \in {"heading", "level", "paragraphs", "bullets"} : key \in DOMAIN s.val /\ Get(s, key) = s.val[key]
      /\ Scalar(Get(s, "heading")) /\ Flat(Get(s, "paragraphs")) /\ Flat(Get(s, "bullets"))
  BY FormedFields
<1>2. Str(s.val["heading"]) /\ GenerateLevel(s.val["level"]) /\ Texts(s.val["paragraphs"]) /\ Texts(s.val["bullets"])
  BY <1>1 DEF GenerateSection, Property
<1>3. CASE "table" \notin DOMAIN s.val
  BY <1>1, <1>2, <1>3 DEF Get
<1>4. CASE "table" \in DOMAIN s.val
  <2>1. GenerateTable(s.val["table"])
    BY <1>4 DEF GenerateSection, Property
  <2>2. s.val["table"].type = "object"
    BY <2>1 DEF GenerateTable, Obj
  <2>3. FormedTable(s.val["table"])
    BY <1>4, <2>2, ScalarForms DEF FormedSection, Scalar
  <2> QED
    BY <1>1, <1>2, <1>4, <2>1, <2>3 DEF Get
<1> QED
  BY <1>3, <1>4

\* Each format makes blocks of known styles of a section that GenerateInput accepts.
LEMMA BlocksFormed ==
    ASSUME NEW s, FormedSection(s), GenerateSection(s), NEW format \in {"docx", "pptx", "pdf"}
    PROVE  Styling(Blocks(format, s))
<1>1. \A deepest : Styling(Heading(s, deepest))
  BY StylingShort DEF Heading, Styles
<1>2. \A style \in Styles : Styling(Styled(style, Get(s, "paragraphs"))) /\ Styling(Styled(style, Get(s, "bullets")))
  BY GenerateFields, StyledBlocks
<1>3. Styling(DocxBlocks(s)) /\ Styling(PdfBlocks(s)) /\ Styling(PptxBlocks(s))
  <2>1. "Body" \in Styles /\ "List Bullet" \in Styles
    BY DEF Styles
  <2> DEFINE shown == IF Get(s, "bullets").val # <<>> THEN Get(s, "bullets") ELSE Get(s, "paragraphs")
  <2>2. Styling(Styled("Body", shown))
    BY <1>2, <2>1
  <2>3. \A deepest : Styling(Heading(s, deepest) \o Styled("Body", Get(s, "paragraphs")))
    BY <1>1, <1>2, <2>1, StylingConcat
  <2>4. Styling(DocxBlocks(s))
    BY <1>2, <2>1, <2>3, StylingConcat DEF DocxBlocks
  <2>5. Styling(PdfBlocks(s))
    BY <1>2, <2>1, <2>3, StylingConcat DEF PdfBlocks
  <2>6. Styling(PptxBlocks(s))
    BY <1>1, <2>2, StylingConcat DEF PptxBlocks
  <2> QED
    BY <2>4, <2>5, <2>6
<1> QED
  BY <1>3 DEF Blocks

\* A section has at most one table, which is written with headers and rows of texts.
LEMMA GridFormed ==
    ASSUME NEW s, FormedSection(s), GenerateSection(s)
    PROVE  /\ IsSeq(Grid(s)) /\ \A p \in DOMAIN Grid(s) : FileTable(Grid(s)[p])
           /\ Grid(s) = <<>> \/ Len(Grid(s)) = 1
<1> DEFINE table == Get(s, "table")
           headers == Get(table, "headers")
           rows == Get(table, "rows")
           width == Len(headers.val)
           Row(r) == List([i \in 1..width |-> IF i <= Len(r.val) THEN r.val[i] ELSE Text(Blank)])
           shown == Each(Row, rows.val)
           written == Dict([headers |-> headers, rows |-> shown])
<1>1. CASE table.type = "null" \/ width = 0
  <2>1. Grid(s) = <<>>
    BY <1>1 DEF Grid
  <2> QED
    BY <2>1, ShortLists
<1>2. CASE ~(table.type = "null" \/ width = 0)
  <2>1. Grid(s) = <<written>>
    BY <1>2 DEF Grid
  <2>2. FormedTable(table) /\ GenerateTable(table)
    BY <1>2, GenerateFields, ScalarForms
  <2>3. /\ Flat(headers) /\ Nested(rows) /\ Texts(headers) /\ RowTexts(rows)
        /\ headers = table.val["headers"] /\ rows = table.val["rows"]
    BY <2>2 DEF FormedTable, GenerateTable, Property, Get
  <2>4. width \in Nat
    BY <2>3, TextsListed
  <2>5. ListOf(rows, Flat)
    BY <2>3, ScalarForms DEF Nested, Scalar, RowTexts, Array
  <2>6. PICK n \in Nat : DOMAIN rows.val = 1..n
    BY <2>5, SeqIsTyped DEF ListOf
  <2> HIDE DEF table, headers, rows, width
  <2>7. ASSUME NEW i \in 1..n PROVE Flat(Row(rows.val[i])) /\ Texts(Row(rows.val[i]))
    <3> DEFINE r == rows.val[i]
               cells == [j \in 1..width |-> IF j <= Len(r.val) THEN r.val[j] ELSE Text(Blank)]
    <3>1. Flat(r) /\ Texts(r)
      BY <2>3, <2>5, <2>6 DEF ListOf, RowTexts, Array
    <3>2. Len(r.val) \in Nat /\ \A j \in 1..Len(r.val) : Scalar(r.val[j]) /\ Str(r.val[j])
      BY <3>1, TextsListed
    <3> HIDE DEF r
    <3>3. \A j \in 1..width : Scalar(cells[j]) /\ Str(cells[j])
      BY <2>4, <3>2, ScalarForms DEF Str
    <3>4. DOMAIN cells = 1..width /\ cells = [j \in 1..width |-> cells[j]]
      OBVIOUS
    <3>5. Row(r) = List(cells)
      OBVIOUS
    <3> HIDE DEF cells
    <3>6. Flat(List(cells)) /\ Texts(List(cells))
      <4>1. IsSeq(cells)
        BY <2>4, <3>4, MapIsSeq
      <4>2. \A j \in DOMAIN cells : Scalar(cells[j]) /\ Str(cells[j])
        BY <3>3, <3>4
      <4>3. Flat(List(cells))
        BY <4>1, <4>2, ListForms
      <4>4. List(cells).type = "array" /\ List(cells).val = cells
        BY ScalarForms
      <4>5. Texts(List(cells))
        BY <4>2, <4>4, Zenon DEF Texts, Array
      <4> QED
        BY <4>3, <4>5
    <3> QED
      BY <3>5, <3>6 DEF r
  <2> DEFINE lines == [i \in DOMAIN rows.val |-> Row(rows.val[i])]
  <2>8. shown = List(lines)
    BY Zenon DEF Each
  <2>9. DOMAIN lines = 1..n /\ lines = [i \in 1..n |-> lines[i]] /\ \A i \in 1..n : Flat(lines[i]) /\ Texts(lines[i])
    BY <2>6, <2>7
  <2> HIDE DEF lines
  <2>10. Nested(List(lines)) /\ RowTexts(List(lines))
    <3>1. IsSeq(lines)
      BY <2>9, MapIsSeq
    <3> QED
      BY <2>9, <3>1, ListForms, ScalarForms DEF RowTexts, Array
  <2> HIDE DEF shown
  <2>11. FileTable(written)
    BY <2>3, <2>8, <2>10, ScalarForms DEF FileTable, FormedTable, HasHeaders
  <2> HIDE DEF written
  <2> QED
    BY <2>1, <2>11, ShortLists
<1> QED
  BY <1>1, <1>2

\* The table of a section as it stands in the document.
LEMMA StandingFormed ==
    ASSUME NEW sections, NEW i, FormedSection(sections[i]), GenerateSection(sections[i])
    PROVE  /\ IsSeq(Standing(sections, i)) /\ \A j \in DOMAIN Standing(sections, i) : FileTable(Standing(sections, i)[j].cells)
           /\ DOMAIN Standing(sections, i) = DOMAIN Grid(sections[i])
           /\ \A j \in DOMAIN Grid(sections[i]) :
                /\ Standing(sections, i)[j].cells = Grid(sections[i])[j]
                /\ Standing(sections, i)[j].under = Cardinality({k \in 1..i : Get(sections[k], "heading").val # Blank})
<1> DEFINE grid == Grid(sections[i])
           under == Cardinality({k \in 1..i : Get(sections[k], "heading").val # Blank})
           s == [j \in DOMAIN grid |-> [under |-> under, cells |-> grid[j]]]
<1>1. IsSeq(grid) /\ \A j \in DOMAIN grid : FileTable(grid[j])
  BY GridFormed
<1>2. Standing(sections, i) = s
  BY DEF Standing
<1> HIDE DEF grid, under
<1>3. PICK n \in Nat : DOMAIN grid = 1..n
  BY <1>1, SeqIsTyped
<1>4. /\ DOMAIN s = 1..n /\ s = [j \in 1..n |-> s[j]]
      /\ \A j \in 1..n : s[j].cells = grid[j] /\ s[j].under = under
  BY <1>3
<1> HIDE DEF s
<1>5. IsSeq(s)
  BY <1>3, <1>4, MapIsSeq
<1> QED
  BY <1>1, <1>2, <1>3, <1>4, <1>5 DEF grid, under

\* The arguments of the call that writes a document.
Arguments(args) ==
    /\ args = Dict(args.val) /\ DOMAIN args.val = {"title", "subtitle", "author", "sections"}
    /\ args.val["title"] = Text(<<"report">>) /\ args.val["subtitle"] = Text(Blank)
    /\ args.val["author"] \in {Text(Blank), Text(<<"author">>)}
    /\ FormedSections(args.val["sections"]) /\ GenerateInput(args)

\* What GenerateInput says of the arguments of a call.
LEMMA ArgumentSections ==
    ASSUME NEW args, Arguments(args)
    PROVE  /\ Get(args, "title") = Text(<<"report">>) /\ Get(args, "subtitle") = Text(Blank)
           /\ Get(args, "author") \in {Text(Blank), Text(<<"author">>)}
           /\ Len(SectionsOf(args)) \in Nat /\ DOMAIN SectionsOf(args) = 1..Len(SectionsOf(args))
           /\ \A i \in DOMAIN SectionsOf(args) : FormedSection(SectionsOf(args)[i]) /\ GenerateSection(SectionsOf(args)[i])
<1>1. /\ Get(args, "title") = Text(<<"report">>) /\ Get(args, "subtitle") = Text(Blank)
      /\ Get(args, "author") \in {Text(Blank), Text(<<"author">>)} /\ Get(args, "sections") = args.val["sections"]
  BY DEF Arguments, Get
<1>2. ListOf(Get(args, "sections"), FormedSection) /\ GenerateSections(Get(args, "sections"))
  BY <1>1 DEF Arguments, FormedSections, GenerateInput, Property
<1>3. Len(SectionsOf(args)) \in Nat /\ DOMAIN SectionsOf(args) = 1..Len(SectionsOf(args))
  BY <1>2, SeqIsTyped DEF ListOf, SectionsOf
<1> QED
  BY <1>1, <1>2, <1>3 DEF ListOf, GenerateSections, Array, SectionsOf

\* A document that was written has the form that document_read expects.
LEMMA RenderFormed ==
    ASSUME NEW args, Arguments(args), NEW format \in {"docx", "pptx", "pdf"}
    PROVE  FileFormed(Render(format, args))
<1> DEFINE sections == SectionsOf(args)
           n == Len(sections)
           front == <<Block("Title", 0, Get(args, "title").val)>> \o Line(Get(args, "subtitle")) \o Line(Get(args, "author"))
           texts == [i \in DOMAIN sections |-> Blocks(format, sections[i])]
           grids == [i \in DOMAIN sections |-> Standing(sections, i)]
<1>1. Render(format, args) = [format |-> format, made |-> <<args>>, blocks |-> front \o Joined(texts), tables |-> Joined(grids)]
  BY DEF Render, Blocks
<1>2. n \in Nat /\ DOMAIN sections = 1..n /\ \A i \in 1..n : FormedSection(sections[i]) /\ GenerateSection(sections[i])
  BY ArgumentSections
<1> HIDE DEF sections, n
<1>3. Styling(front)
  <2>1. \A v : Styling(Line(v))
    BY StylingShort DEF Line, Styles
  <2>2. \A text : Styling(<<Block("Title", 0, text)>>)
    BY StylingShort DEF Styles
  <2>3. Styling(<<Block("Title", 0, Get(args, "title").val)>> \o Line(Get(args, "subtitle")))
    BY <2>1, <2>2, StylingConcat
  <2> QED
    BY <2>1, <2>3, StylingConcat
<1>4. Styling(Joined(texts))
  <2>1. texts = [i \in 1..n |-> texts[i]] /\ \A i \in 1..n : Styling(texts[i])
    BY <1>2, BlocksFormed
  <2> HIDE DEF texts
  <2>2. \A i \in 1..n : IsSeq(texts[i]) /\ \A j \in DOMAIN texts[i] : texts[i][j].style \in Styles
    BY <2>1 DEF Styling
  <2>3. /\ IsSeq(Joined(texts))
        /\ \A p \in DOMAIN Joined(texts) : \E i \in 1..n : \E j \in DOMAIN texts[i] : Joined(texts)[p] = texts[i][j]
    BY <1>2, <2>1, <2>2, JoinedIsSeq
  <2> QED
    BY <2>2, <2>3 DEF Styling
<1>5. IsSeq(Joined(grids)) /\ \A p \in DOMAIN Joined(grids) : FileTable(Joined(grids)[p].cells)
  <2>1. /\ grids = [i \in 1..n |-> grids[i]]
        /\ \A i \in 1..n : IsSeq(grids[i]) /\ \A j \in DOMAIN grids[i] : FileTable(grids[i][j].cells)
    <3>1. ASSUME NEW i \in 1..n
          PROVE  IsSeq(Standing(sections, i)) /\ \A j \in DOMAIN Standing(sections, i) : FileTable(Standing(sections, i)[j].cells)
      BY <1>2, StandingFormed
    <3> QED
      BY <1>2, <3>1
  <2> HIDE DEF grids
  <2>2. /\ IsSeq(Joined(grids))
        /\ \A p \in DOMAIN Joined(grids) : \E i \in 1..n : \E j \in DOMAIN grids[i] : Joined(grids)[p] = grids[i][j]
    BY <1>2, <2>1, JoinedIsSeq
  <2> QED
    BY <2>1, <2>2
<1> HIDE DEF front, texts, grids
<1>6. Styling(front \o Joined(texts))
  BY <1>3, <1>4, StylingConcat
<1> QED
  BY <1>1, <1>5, <1>6 DEF FileFormed, Styling

-----------------------------------------------------------------------------
(* What a call hands on to the next. *)

\* Sections that the authors take, whose tables have headers.
Handed(v) ==
    /\ AuthoredSections(Get(v, "sections"))
    /\ \A i \in DOMAIN Get(v, "sections").val : Property(Get(v, "sections").val[i], "table", GenerateTable)

SourceFormed(v) == Get(v, "sections") = Null \/ FormedSections(Get(v, "sections"))

\* A file that was written is what the call that wrote it makes of its arguments.
Made(f) ==
    f.made = <<>> \/ \E format \in {"docx", "pptx", "pdf"} : Arguments(f.made[1]) /\ f = Render(format, f.made[1])

HandingTools == {"document_read", "vision_extract_structure", "author_content", "assignment_solve"}

Handing ==
    /\ SourceFormed(value)
    /\ result = "ok" /\ tool \in HandingTools => Handed(value)

FilesFormed == FileFormed(file) /\ Made(file)

\* Sections that the authors take are sections that the renderers take, if their levels are.
LEMMA HandedFits ==
    ASSUME NEW v, SourceFormed(v), Handed(v)
    PROVE  LET sections == Get(v, "sections") IN
           /\ AuthoredSections(sections)
           /\ (\A i \in DOMAIN sections.val : Get(sections.val[i], "level").val \in 1..9) => GenerateSections(sections)
<1> DEFINE sections == Get(v, "sections")
<1>1. AuthoredSections(sections) /\ sections.type = "array" /\ \A i \in DOMAIN sections.val : AuthoredSection(sections.val[i])
  BY DEF Handed, AuthoredSections, Array
<1>2. FormedSections(sections)
  BY <1>1, ScalarForms DEF SourceFormed
<1>3. ASSUME NEW i \in DOMAIN sections.val, Get(sections.val[i], "level").val \in 1..9
      PROVE  GenerateSection(sections.val[i])
  <2> DEFINE s == sections.val[i]
  <2>1. AuthoredSection(s) /\ FormedSection(s) /\ Property(s, "table", GenerateTable)
    BY <1>1, <1>2 DEF Handed, FormedSections, ListOf
  <2>2. Get(s, "level") = s.val["level"] /\ "level" \in DOMAIN s.val
    BY <2>1, FormedFields
  <2>3. GenerateLevel(s.val["level"])
    BY <1>3, <2>1, <2>2 DEF AuthoredSection, Property, AnyInt, GenerateLevel, Bounded
  <2> HIDE DEF s
  <2>4. GenerateSection(s)
    BY <2>1, <2>3 DEF AuthoredSection, GenerateSection, Property, Obj
  <2> QED
    BY <2>4 DEF s
<1> QED
  BY <1>1, <1>3 DEF GenerateSections, Array

LEMMA NothingFits == SourceFormed(Nothing) /\ Handed(Nothing)
<1>1. Get(Nothing, "sections") = List(<<>>)
  BY GetField DEF Nothing
<1> QED
  BY <1>1, ShortLists, ScalarForms DEF SourceFormed, FormedSections, ListOf, Handed, AuthoredSections, Array

\* A section that is read is one that is handed on.
LEMMA ReadIsAuthored ==
    ASSUME NEW s, ReadSection(s)
    PROVE  AuthoredSection(s)
BY DEF ReadSection, AuthoredSection

\* What document_read returns has the form of sections.
LEMMA ReadSourceFormed ==
    ASSUME NEW f, FileFormed(f)
    PROVE  /\ SourceFormed(ReadDocx(f))
           /\ ReadOutput(ReadDocx(f)) => Handed(ReadDocx(f))
<1> DEFINE v == ReadDocx(f)
           sections == Attached(Placed(Body(f.blocks)), TablesRead(f.tables))
           listed == [i \in DOMAIN sections |-> Dict(sections[i])]
<1>1. /\ v = Dict(v.val) /\ DOMAIN v.val = {"title", "sections", "tables"} /\ v.val["sections"] = List(listed)
      /\ IsSeq(sections) /\ \A i \in DOMAIN sections : ReadForm(sections[i])
  BY ReadDocxForm
<1> HIDE DEF sections, v
<1>2. PICK n \in Nat : DOMAIN sections = 1..n
  BY <1>1, SeqIsTyped
<1>3. /\ DOMAIN listed = 1..n /\ listed = [i \in 1..n |-> listed[i]]
      /\ \A i \in 1..n : listed[i] = Dict(sections[i]) /\ ReadForm(sections[i])
  BY <1>1, <1>2
<1> HIDE DEF listed
<1>4. IsSeq(listed)
  BY <1>3, MapIsSeq
<1>5. \A i \in 1..n : FormedSection(listed[i])
  BY <1>3 DEF ReadForm
<1>6. Get(v, "sections") = List(listed)
  BY <1>1 DEF Get
<1>7. SourceFormed(v)
  BY <1>3, <1>4, <1>5, <1>6, ScalarForms DEF SourceFormed, FormedSections, ListOf
<1>8. ASSUME ReadOutput(v) PROVE Handed(v)
  <2>1. ReadSections(List(listed))
    BY <1>1, <1>8 DEF ReadOutput, Property
  <2>2. AuthoredSections(List(listed))
    BY <2>1, ReadIsAuthored DEF ReadSections, AuthoredSections, Array
  <2>3. ASSUME NEW i \in 1..n PROVE Property(listed[i], "table", GenerateTable)
    <3>1. "table" \in DOMAIN sections[i] => GenerateTable(sections[i]["table"])
      BY <1>3, FileTableFits DEF ReadForm
    <3> QED
      BY <1>3, <3>1, ScalarForms DEF Property
  <2> QED
    BY <1>3, <1>6, <2>2, <2>3, ScalarForms DEF Handed
<1> QED
  BY <1>7, <1>8 DEF v

\* What vision_extract_structure returns is accepted by the authors, whatever the model replied.
LEMMA StructureHanded ==
    ASSUME NEW raw, FormedReply(raw), VisionOutput(Structure(raw))
    PROVE  SourceFormed(Structure(raw)) /\ Handed(Structure(raw))
<1> DEFINE sections == Get(Structure(raw), "sections")
<1>1. /\ VisionOutput(Structure(raw)) /\ FormedSections(sections) /\ "sections" \in DOMAIN Structure(raw).val
      /\ \A i \in DOMAIN sections.val : "table" \in DOMAIN sections.val[i].val => HasHeaders(sections.val[i].val["table"])
  BY StructureFits
<1>2. sections = Structure(raw).val["sections"]
  BY <1>1 DEF Get
<1>3. ReadSections(sections)
  BY <1>1, <1>2 DEF VisionOutput, Property, VisionSections
<1> HIDE DEF sections
<1>4. sections.type = "array" /\ \A i \in DOMAIN sections.val : ReadSection(sections.val[i])
  BY <1>3 DEF ReadSections, Array
<1>5. AuthoredSections(sections)
  BY <1>4, ReadIsAuthored DEF AuthoredSections, Array
<1>6. ASSUME NEW i \in DOMAIN sections.val PROVE Property(sections.val[i], "table", GenerateTable)
  <2> DEFINE s == sections.val[i]
  <2>1. "table" \in DOMAIN s.val => ReadTable(s.val["table"]) /\ HasHeaders(s.val["table"])
    BY <1>1, <1>4 DEF ReadSection, Property
  <2> HIDE DEF s
  <2>2. "table" \in DOMAIN s.val => GenerateTable(s.val["table"])
    BY <2>1, ScalarForms DEF ReadTable, HasHeaders, GenerateTable, Obj, Property
  <2> QED
    BY <2>2 DEF s, Property
<1> QED
  BY <1>1, <1>5, <1>6 DEF SourceFormed, Handed, sections

\* What the authors make of a reply that does not raise has the form of sections.
LEMMA AuthoredForm ==
    ASSUME NEW raw, FormedRaw(raw)
    PROVE  FormedSection(Authored(raw)) /\ DOMAIN Authored(raw).val = {"heading", "level", "paragraphs", "bullets"}
<1> DEFINE heading == IF Empty(Get(raw, "heading")) THEN Text(Blank) ELSE Get(raw, "heading")
           level == IF Empty(Get(raw, "level")) THEN Num(1) ELSE IntOf(Get(raw, "level"))
           paragraphs == Listed(GetOr(raw, "paragraphs", List(<<>>)))
           bullets == Listed(GetOr(raw, "bullets", List(<<>>)))
           section == [heading |-> heading, level |-> level, paragraphs |-> paragraphs, bullets |-> bullets]
<1>1. \A v : Flat(v) => Flat(Listed(v))
  BY ShortScalarLists, ScalarForms DEF Listed
<1>5. \A v : Scalar(v) => Scalar(IntOf(v))
  BY ScalarForms DEF IntOf
<1>6. /\ Scalar(Get(raw, "heading")) /\ Scalar(Get(raw, "level"))
      /\ Flat(Get(raw, "paragraphs")) /\ Flat(Get(raw, "bullets"))
  BY DEF FormedRaw
<1>7. \A key \in {"paragraphs", "bullets"} : Flat(GetOr(raw, key, List(<<>>)))
  BY <1>6, ShortScalarLists DEF Get, GetOr
<1>2. Scalar(heading) /\ Scalar(level) /\ Flat(paragraphs) /\ Flat(bullets)
  BY <1>1, <1>5, <1>6, <1>7, ScalarForms
<1>3. Authored(raw) = Dict(section)
  BY DEF Authored
<1> HIDE DEF heading, level, paragraphs, bullets
<1>4. /\ DOMAIN section = {"heading", "level", "paragraphs", "bullets"}
      /\ section["heading"] = heading /\ section["level"] = level
      /\ section["paragraphs"] = paragraphs /\ section["bullets"] = bullets
  OBVIOUS
<1> HIDE DEF section
<1> QED
  BY <1>2, <1>3, <1>4, ScalarForms DEF FormedSection

LEMMA AuthorHanded ==
    ASSUME NEW raw, FormedReply(raw), raw # Null
    PROVE  /\ SourceFormed(AuthorResult(raw))
           /\ AuthorOutput(AuthorResult(raw)) => Handed(AuthorResult(raw))
<1> DEFINE sent == Get(raw, "sections")
           parts == Objects(sent)
           taken == [i \in DOMAIN parts |-> Authored(parts[i])]
           title == IF Empty(Get(raw, "title")) THEN Text(<<"Untitled">>) ELSE Get(raw, "title")
<1>1. IsSeq(parts) /\ \A p \in DOMAIN parts : FormedRaw(parts[p])
  <2>1. CASE sent.type = "array"
    <3>1. ListOf(sent, FormedPart)
      BY <2>1, ScalarForms DEF FormedReply, Scalar
    <3>2. IsSeq(parts) /\ \A p \in DOMAIN parts : \E i \in Sound(sent) : parts[p] = sent.val[i]
      BY <2>1, <3>1, ObjectsInOrder DEF ListOf
    <3> QED
      BY <3>1, <3>2, ScalarForms DEF ListOf, Sound, FormedPart
  <2>2. CASE sent.type # "array"
    BY <2>2, ShortLists DEF Objects
  <2> QED
    BY <2>1, <2>2
<1>2. AuthorResult(raw) = Dict([title |-> title, sections |-> List(taken), unresolved |-> List(<<>>)])
  BY DEF AuthorResult, Each
<1>3. PICK n \in Nat : DOMAIN parts = 1..n
  BY <1>1, SeqIsTyped
<1> HIDE DEF parts, title
<1>4. DOMAIN taken = 1..n /\ taken = [i \in 1..n |-> taken[i]] /\ \A i \in 1..n : taken[i] = Authored(parts[i])
  BY <1>3
<1> HIDE DEF taken
<1>5. \A i \in 1..n : FormedSection(taken[i]) /\ "table" \notin DOMAIN taken[i].val
  BY <1>1, <1>3, <1>4, AuthoredForm
<1>6. IsSeq(taken)
  BY <1>4, MapIsSeq
<1>7. Get(AuthorResult(raw), "sections") = List(taken) /\ AuthorResult(raw).val["sections"] = List(taken)
      /\ "sections" \in DOMAIN AuthorResult(raw).val
  BY <1>2, GetField, ScalarForms
<1>8. SourceFormed(AuthorResult(raw))
  BY <1>4, <1>5, <1>6, <1>7, ScalarForms DEF SourceFormed, FormedSections, ListOf
<1>9. AuthorOutput(AuthorResult(raw)) => AuthoredSections(List(taken))
  BY <1>7 DEF AuthorOutput, Property
<1> QED
  BY <1>4, <1>5, <1>7, <1>8, <1>9, ScalarForms DEF Handed, Property

LEMMA AuthorStep ==
    ASSUME AuthorContent
    PROVE  /\ file' = NoFile
           /\ \/ value' = Nothing
              \/ \E raw : FormedReply(raw) /\ raw # Null /\ value' = AuthorResult(raw) /\ AuthorOutput(AuthorResult(raw))
<1>1. file' = NoFile
  BY DEF AuthorContent
<1>2. CASE AuthorFails("authoring_failed")
  BY <1>1, <1>2 DEF AuthorFails, Fails
<1>3. CASE SectionReply(LAMBDA raw :
            /\ reply' = raw
            /\ IF AuthorRaises(raw) THEN Fails("authoring_failed") ELSE Returns(AuthorResult(raw), AuthorOutput))
  <2>1. PICK raw : SectionReplyIs(raw) /\ (IF AuthorRaises(raw) THEN Fails("authoring_failed") ELSE Returns(AuthorResult(raw), AuthorOutput))
    BY <1>3 DEF SectionReply, SectionReplyIs
  <2>2. FormedReply(raw)
    BY <2>1, SectionRepliesFormed
  <2>3. raw = Null => AuthorRaises(raw)
    BY ScalarForms DEF AuthorRaises
  <2> QED
    BY <1>1, <2>1, <2>2, <2>3 DEF Returns, Fails
<1> QED
  BY <1>2, <1>3 DEF AuthorContent

\* What assignment_solve returns is accepted, whatever the model replied.
LEMMA SolveHanded ==
    ASSUME NEW asked, QuestionList(Get(asked, "questions")), NEW pairs \in Seq(Seq(Word) \X BOOLEAN)
    PROVE  LET v == SolveResult(asked, Answering(pairs))
           IN  SourceFormed(v) /\ (AssignmentOutput(v) => Handed(v))
<1> DEFINE v == SolveResult(asked, Answering(pairs))
           questions == Questions(asked)
           answers == Answers(questions, Answering(pairs))
           given == Objects(Get(Answering(pairs), "answers"))
           Shown(a) == Dict(Section(Text(a.question_id.val \o <<": ">> \o a.question_text.val), 1,
                                   IF Empty(a.answer_text) THEN <<>> ELSE <<a.answer_text>>, <<>>))
           sections == [i \in DOMAIN answers |-> Shown(answers[i])]
           rows == [i \in DOMAIN answers |-> Dict(answers[i])]
           r == [title |-> Get(asked, "title"),
                 questions_extracted |-> Num(Len(questions)), questions_answered |-> Num(Len(answers)),
                 sections |-> List(sections), answers |-> List(rows)]
           W == Seq(Word)
<1>1. v = Dict(r)
  BY DEF SolveResult
<1>12. pairs \in Seq(Replies(W))
  BY DEF Replies
<1> HIDE DEF W
<1>2. \E m \in Nat : DOMAIN answers = 1..m /\ \A i \in 1..m : Scalar(answers[i].answer_text)
  <2>1. CASE questions = <<>>
    <3>1. answers = <<>>
      BY <2>1 DEF Answers
    <3> HIDE DEF answers
    <3>2. DOMAIN answers = 1..0 /\ 0 \in Nat
      BY <3>1
    <3> QED
      BY <3>2
  <2>2. CASE questions # <<>>
    <3>1. answers = [j \in DOMAIN given |->
            LET id == Get(given[j], "question_id").val
            IN  [question_id |-> Text(id), question_text |-> Text(QuestionOf(questions, j, id)),
                 answer_text |-> Get(given[j], "answer_text")]]
      BY <2>2 DEF Answers
    <3>2. PICK m \in Nat : DOMAIN given = 1..m
      <4>1. IsSeq(given)
        BY <1>12, AnswerIds
      <4> QED
        BY <4>1, SeqIsTyped
    <3>3. \A p \in DOMAIN given : \E id \in W, said \in BOOLEAN : given[p] = AnswerForm(id, said)
      BY <1>12, AnswerIds
    <3>4. ASSUME NEW p \in DOMAIN given PROVE Scalar(Get(given[p], "answer_text"))
      <4>1. PICK id, said : given[p] = AnswerForm(id, said)
        BY <3>3
      <4> DEFINE to == Text(IF said THEN <<"answer to">> \o id ELSE Blank)
      <4>2. given[p] = Dict([question_id |-> Text(id), answer_text |-> to])
        BY <4>1 DEF AnswerForm
      <4>3. Scalar(to)
        BY ScalarForms
      <4> HIDE DEF to
      <4>4. Get(given[p], "answer_text") = to
        BY <4>2, GetField
      <4> QED
        BY <4>3, <4>4
    <3> HIDE DEF given, questions, answers
    <3>5. DOMAIN answers = 1..m /\ \A i \in 1..m : answers[i].answer_text = Get(given[i], "answer_text")
      BY <3>1, <3>2
    <3> QED
      BY <3>2, <3>4, <3>5
  <2> QED
    BY <2>1, <2>2
<1> HIDE DEF answers
<1>3. PICK m \in Nat : DOMAIN answers = 1..m /\ \A i \in 1..m : Scalar(answers[i].answer_text)
  BY <1>2
<1>4. DOMAIN sections = 1..m /\ sections = [i \in 1..m |-> sections[i]] /\ \A i \in 1..m : sections[i] = Shown(answers[i])
  BY <1>3
<1>5. \A i \in 1..m : FormedSection(Shown(answers[i])) /\ "table" \notin DOMAIN Shown(answers[i]).val
  <2> SUFFICES ASSUME NEW i \in 1..m
               PROVE  FormedSection(Shown(answers[i])) /\ "table" \notin DOMAIN Shown(answers[i]).val
    OBVIOUS
  <2> DEFINE heading == Text(answers[i].question_id.val \o <<": ">> \o answers[i].question_text.val)
             told == IF Empty(answers[i].answer_text) THEN <<>> ELSE <<answers[i].answer_text>>
             section == Section(heading, 1, told, <<>>)
  <2>1. Scalar(heading) /\ Flat(List(told)) /\ Flat(List(<<>>))
    BY <1>3, ScalarForms, ShortScalarLists
  <2>2. Shown(answers[i]) = Dict(section)
    OBVIOUS
  <2> HIDE DEF heading, told
  <2>3. /\ DOMAIN section = {"heading", "level", "paragraphs", "bullets"}
        /\ section["heading"] = heading /\ section["level"] = Num(1)
        /\ section["paragraphs"] = List(told) /\ section["bullets"] = List(<<>>)
    BY DEF Section
  <2> HIDE DEF section
  <2>4. Dict(section).val = section /\ Scalar(Num(1))
    BY ScalarForms
  <2>6. /\ Scalar(Dict(section).val["heading"]) /\ Scalar(Dict(section).val["level"])
        /\ Flat(Dict(section).val["paragraphs"]) /\ Flat(Dict(section).val["bullets"])
    BY <2>1, <2>3, <2>4, Zenon
  <2>7. {"heading", "level", "paragraphs", "bullets"} \subseteq DOMAIN Dict(section).val /\ "table" \notin DOMAIN Dict(section).val
    BY <2>3, <2>4
  <2>5. FormedSection(Dict(section)) /\ "table" \notin DOMAIN Dict(section).val
    BY <2>4, <2>6, <2>7, Zenon DEF FormedSection
  <2> QED
    BY <2>5, Zenon DEF section, heading, told
<1> HIDE DEF Shown
<1>11. \A i \in 1..m : FormedSection(sections[i]) /\ "table" \notin DOMAIN sections[i].val
  BY <1>4, <1>5, Zenon
<1> HIDE DEF sections, rows
<1>6. IsSeq(sections)
  BY <1>4, MapIsSeq
<1>7. Get(v, "sections") = List(sections) /\ v.val["sections"] = List(sections) /\ "sections" \in DOMAIN v.val
  BY <1>1, GetField, ScalarForms
<1> HIDE DEF v, r
<1>8. SourceFormed(v)
  <2>1. DOMAIN sections = 1..m
    BY <1>4
  <2>2. FormedSections(List(sections))
    BY <1>6, <1>11, <2>1, ScalarForms DEF FormedSections, ListOf
  <2> QED
    BY <1>7, <2>2, Zenon DEF SourceFormed
<1>9. AssignmentOutput(v) => AuthoredSections(List(sections))
  BY <1>7 DEF AssignmentOutput, Property
<1>10. AssignmentOutput(v) => Handed(v)
  <2>1. List(sections).val = sections /\ DOMAIN sections = 1..m
    BY <1>4, ScalarForms
  <2>2. \A i \in DOMAIN sections : Property(sections[i], "table", GenerateTable)
    BY <1>11, <2>1 DEF Property
  <2> QED
    BY <1>7, <1>9, <2>1, <2>2, Zenon DEF Handed
<1> QED
  BY <1>8, <1>10 DEF v

LEMMA ExtractHands ==
    ASSUME Extract
    PROVE  SourceFormed(value')
<1>1. \A raw : Get(ParseStatement(raw), "sections") = Null
  BY GetField DEF ParseStatement
<1>2. \A raw : Get(ParseReceipt(raw), "sections") = Null
  BY GetField DEF ParseReceipt
<1>3. value' = Nothing \/ \E raw : value' = ParseStatement(raw) \/ value' = ParseReceipt(raw)
  BY DEF Extract, VisionFails, Fails
<1> QED
  BY <1>1, <1>2, <1>3, NothingFits DEF SourceFormed

LEMMA NoFileFormed == FileFormed(NoFile) /\ Made(NoFile)
BY ShortLists DEF NoFile, FileFormed, Made

\* A call that writes a document leaves one that Render made of arguments the schema accepted.
LEMMA GenerateStep ==
    ASSUME Generate, SourceFormed(value), FilesFormed
    PROVE  FilesFormed' /\ value' = Nothing
<1>1. CASE file' = file
  <2>1. value' = Nothing
    BY <1>1 DEF Generate, Fails
  <2> QED
    BY <1>1, <2>1 DEF FilesFormed
<1>2. ASSUME NEW format \in {"docx", "pptx", "pdf"}, NEW author \in {Blank, <<"author">>}, NEW args,
             args = Dict([title |-> Text(<<"report">>), subtitle |-> Text(Blank), author |-> Text(author),
                          sections |-> Get(value, "sections")]),
             GenerateInput(args), file' = Render(format, args), value' = Nothing
      PROVE  FilesFormed' /\ value' = Nothing
  <2>1. /\ args = Dict(args.val) /\ DOMAIN args.val = {"title", "subtitle", "author", "sections"}
        /\ args.val["title"] = Text(<<"report">>) /\ args.val["subtitle"] = Text(Blank)
        /\ args.val["author"] \in {Text(Blank), Text(<<"author">>)} /\ args.val["sections"] = Get(value, "sections")
    BY <1>2, ScalarForms
  <2>2. GenerateSections(Get(value, "sections"))
    BY <1>2, <2>1 DEF GenerateInput, Property
  <2>3. FormedSections(Get(value, "sections"))
    BY <2>2, ScalarForms DEF GenerateSections, Array, SourceFormed
  <2>4. Arguments(args)
    BY <1>2, <2>1, <2>3 DEF Arguments
  <2>5. FileFormed(Render(format, args))
    BY <2>4, RenderFormed
  <2>6. Render(format, args).made = <<args>>
    BY DEF Render
  <2>7. Made(Render(format, args))
    BY <2>4, <2>6 DEF Made
  <2> QED
    BY <1>2, <2>5, <2>7 DEF FilesFormed
<1> QED
  BY <1>1, <1>2, Zenon DEF Generate, Fails

LEMMA WrittenTableIsFile ==
    ASSUME NEW k
    PROVE  FileTable(WrittenTable(k))
<1> DEFINE headers == List(<<Text(<<Space, "column">>)>>)
           cell == Text(Name("cell", k))
           rows == List(<<List(<<cell>>)>>)
<1>1. WrittenTable(k) = Dict([headers |-> headers, rows |-> rows])
  BY DEF WrittenTable
<1>3. Flat(headers) /\ Nested(rows)
  BY ShortScalarLists, ScalarForms
<1>2. Texts(headers) /\ RowTexts(rows)
  <2> HIDE DEF cell
  <2>1. Str(cell)
    BY ScalarForms DEF cell, Str
  <2> QED
    BY <2>1, ScalarForms DEF Texts, RowTexts, Array, Str
<1> HIDE DEF headers, rows
<1> QED
  BY <1>1, <1>2, <1>3, ScalarForms DEF FileTable, HasHeaders, FormedTable

LEMMA InitFormed ==
    ASSUME Init
    PROVE  FilesFormed /\ value = Nothing /\ tool = "none" /\ result = "none"
<1>1. CASE file = [NoFile EXCEPT !.format = "scan"]
  <2>1. file.blocks = <<>> /\ file.tables = <<>> /\ file.made = <<>>
    BY <1>1 DEF NoFile
  <2> QED
    BY <2>1, ShortLists DEF Init, FilesFormed, FileFormed, Made
<1>2. ASSUME NEW b \in Written, NEW at \in Placings(b),
             file = [format |-> "docx", made |-> <<>>,
                     tables |-> [k \in DOMAIN at |-> [under |-> at[k], cells |-> WrittenTable(k)]],
                     blocks |-> [i \in DOMAIN b |-> Block(b[i][1][1], b[i][1][2], WrittenText(i, b[i][2]))]]
      PROVE  FilesFormed
  <2> DEFINE kinds == {<<"Title", 0>>, <<"Heading", 1>>, <<"Heading", 2>>, <<"List Bullet", 1>>, <<"Body", 1>>}
             blocks == [i \in DOMAIN b |-> Block(b[i][1][1], b[i][1][2], WrittenText(i, b[i][2]))]
             tables == [k \in DOMAIN at |-> [under |-> at[k], cells |-> WrittenTable(k)]]
  <2>1. PICK m \in 0..MaxBlocks : b \in [1..m -> kinds \X BOOLEAN]
    BY DEF Written, BoundedSeq, SeqOf
  <2>2. \A i \in 1..m : b[i][1][1] \in Styles
    <3>1. \A k \in kinds : k[1] \in Styles
      <4>1. \A x, y : <<x, y>>[1] = x
        OBVIOUS
      <4>2. \A k \in kinds : \E x \in Styles : \E y : k = <<x, y>>
        BY Zenon DEF Styles
      <4> HIDE DEF kinds
      <4> QED
        BY <4>1, <4>2
    <3> HIDE DEF kinds
    <3>2. \A i \in 1..m : b[i][1] \in kinds
      BY <2>1
    <3> QED
      BY <3>1, <3>2
  <2>8. PICK n \in 0..MaxTables : DOMAIN at = 1..n
    BY DEF Placings, BoundedSeq, SeqOf
  <2>3. m \in Nat /\ n \in Nat
    BY DocumentsAssumption DEF DocumentsAssumption
  <2>4. DOMAIN blocks = 1..m /\ blocks = [i \in 1..m |-> blocks[i]] /\ \A i \in 1..m : blocks[i].style \in Styles
    BY <2>1, <2>2 DEF Block
  <2>5. DOMAIN tables = 1..n /\ tables = [i \in 1..n |-> tables[i]] /\ \A i \in 1..n : FileTable(tables[i].cells)
    BY <2>8, WrittenTableIsFile
  <2>6. file.blocks = blocks /\ file.tables = tables /\ file.made = <<>>
    BY <1>2
  <2> HIDE DEF blocks, tables
  <2>7. IsSeq(blocks) /\ IsSeq(tables)
    BY <2>3, <2>4, <2>5, MapIsSeq
  <2> QED
    BY <2>4, <2>5, <2>6, <2>7 DEF FilesFormed, FileFormed, Made
<1> QED
  BY <1>1, <1>2 DEF Init

\* The inductive invariant of what is handed on.
ChainInv == FilesFormed /\ Handing

\* The document on disk and the value that was handed on are in every state of the forms that the next tool
\* looks at (registry.py:96, schema.py), and a document that was written is what Render makes of the
\* arguments of the call.
THEOREM ChainInvariant == Spec => []ChainInv
<1>1. Init => ChainInv
  BY InitFormed, NothingFits DEF ChainInv, Handing
<1>2. ChainInv /\ [Next]_vars => ChainInv'
  <2> SUFFICES ASSUME ChainInv, [Next]_vars PROVE ChainInv'
    OBVIOUS
  <2> DEFINE Kept == FilesFormed' /\ SourceFormed(value') /\ Handed(value')
  <2>0. Kept => ChainInv'
    BY DEF ChainInv, Handing
  <2>1. CASE DocumentRead
    <3>1. file' = file /\ FilesFormed' /\ FileFormed(file)
      BY <2>1 DEF DocumentRead, ChainInv, FilesFormed
    <3>2. CASE value' = Nothing
      BY <2>0, <3>1, <3>2, NothingFits
    <3>3. CASE value' = ReadDocx(file) /\ ReadOutput(ReadDocx(file))
      BY <2>0, <3>1, <3>3, ReadSourceFormed
    <3> QED
      BY <2>1, <3>2, <3>3 DEF DocumentRead, Fails, Returns
  <2>2. CASE ExtractStructure
    <3>1. FilesFormed'
      BY <2>2, VisionStep, NoFileFormed DEF FilesFormed
    <3>2. CASE value' = Nothing
      BY <2>0, <3>1, <3>2, NothingFits
    <3>3. CASE value' = Structure(reply') /\ FormedReply(reply') /\ VisionOutput(value')
      BY <2>0, <3>1, <3>3, StructureHanded
    <3> QED
      BY <2>2, <3>2, <3>3, VisionStep
  <2>3. CASE Extract
    <3>1. FilesFormed' /\ tool' = "extract"
      BY <2>3, ExtractStep, NoFileFormed DEF FilesFormed, ExtractLeaves
    <3> QED
      BY <2>3, <3>1, ExtractHands DEF ChainInv, Handing, HandingTools
  <2>4. CASE AuthorContent
    <3>1. FilesFormed'
      BY <2>4, AuthorStep, NoFileFormed DEF FilesFormed
    <3>2. CASE value' = Nothing
      BY <2>0, <3>1, <3>2, NothingFits
    <3>3. ASSUME NEW raw, FormedReply(raw), raw # Null, value' = AuthorResult(raw), AuthorOutput(AuthorResult(raw))
          PROVE  Kept
      BY <3>1, <3>3, AuthorHanded
    <3> QED
      BY <2>0, <2>4, <3>2, <3>3, AuthorStep
  <2>5. CASE AssignmentSolve
    <3>1. FilesFormed' /\ SolveLeaves
      BY <2>5, SolveStep, NoFileFormed DEF FilesFormed
    <3>2. CASE value' = Nothing
      BY <2>0, <3>1, <3>2, NothingFits
    <3>3. ASSUME NEW asked, QuestionList(Get(asked, "questions")), NEW pairs \in Seq(Seq(Word) \X BOOLEAN), NEW answered,
                 answered = Answering(pairs), value' # Nothing, Returns(SolveResult(asked, answered), AssignmentOutput)
          PROVE  Kept
      <4>1. value' = SolveResult(asked, Answering(pairs)) /\ AssignmentOutput(value')
        BY <3>3 DEF Returns, Fails
      <4> QED
        BY <3>1, <3>3, <4>1, SolveHanded
    <3> QED
      BY <2>0, <3>1, <3>2, <3>3 DEF SolveLeaves
  <2>6. CASE Generate
    BY <2>0, <2>6, GenerateStep, NothingFits DEF ChainInv, Handing
  <2>7. CASE NewPlan
    BY <2>0, <2>7, NothingFits DEF NewPlan, ChainInv, FilesFormed
  <2>8. CASE UNCHANGED vars
    BY <2>8 DEF vars, ChainInv, FilesFormed, Handing
  <2> QED
    BY <2>1, <2>2, <2>3, <2>4, <2>5, <2>6, <2>7, <2>8 DEF Next
<1> QED
  BY <1>1, <1>2, PTL DEF Spec

\* What a reading, looking, authoring or solving tool returns is accepted by the authors, and by the renderers
\* once its levels are those of a document, for every document and every reply (tools/authoring/tools.py:66).
THEOREM HandedOnIsAccepted == Spec => []HandedOnFits
<1>1. ChainInv => HandedOnFits
  <2> SUFFICES ASSUME ChainInv, result = "ok", tool \in HandingTools PROVE HandedOnFits
    BY DEF HandedOnFits, HandingTools
  <2>1. SourceFormed(value) /\ Handed(value)
    BY DEF ChainInv, Handing
  <2> QED
    BY <2>1, HandedFits DEF HandedOnFits
<1> QED
  BY <1>1, ChainInvariant, PTL

-----------------------------------------------------------------------------
(* Every paragraph under its heading: TextIsKept. *)

\* The rank of the last position, and of one that is not the last.
LEMMA RankOfLast ==
    ASSUME NEW n \in Nat, NEW at, at \subseteq 1..n, NEW i \in at
    PROVE  /\ (\A h \in at : h <= i) => Rank(at, i) = Cardinality(at)
           /\ \A h \in at : i < h => Rank(at, i) # Cardinality(at)
<1> DEFINE T == {j \in at : j <= i}
<1>1. (\A h \in at : h <= i) => T = at
  OBVIOUS
<1>2. ASSUME NEW h \in at, i < h, Cardinality(T) = Cardinality(at) PROVE FALSE
  <2>1. IsFiniteSet(at) /\ T \in SUBSET at
    BY RankBounds
  <2>2. T = at
    <3> HIDE DEF T
    <3> QED
      BY <1>2, <2>1, FS_Subset
  <2>3. ~(h <= i)
    BY <1>2
  <2> QED
    BY <2>2, <2>3
<1> QED
  BY <1>1, <1>2 DEF Rank

\* The texts of a list after one more was added.
LEMMA ValuesOf ==
    ASSUME NEW T, NEW v \in TextLists(T)
    PROVE  /\ Values(List(<<>>)) = <<>>
           /\ Values(v) \in Seq(T)
           /\ \A x \in T : Values(List(Append(v.val, Text(x)))) = Append(Values(v), x)
<1> DEFINE W == {Text(y) : y \in T}
<1>1. PICK q \in Seq(W) : v = List(q)
  BY DEF TextLists
<1>2. \A w \in W : w.val \in T
  BY ScalarForms
<1>3. \A x \in T : Text(x) \in W /\ Text(x).val = x
  BY ScalarForms
<1> HIDE DEF W
<1>4. Values(v) = [i \in 1..Len(q) |-> q[i].val] /\ v.val = q
  BY <1>1, ScalarForms DEF Values
<1>5. Values(v) \in Seq(T) /\ Len(Values(v)) = Len(q)
  BY <1>1, <1>2, <1>4
<1>6. ASSUME NEW x \in T PROVE Values(List(Append(q, Text(x)))) = Append(Values(v), x)
  <2> DEFINE t == Text(x)
             a == Append(q, t)
             y == Values(v)
             m == Len(q)
  <2>1. t \in W /\ t.val = x
    BY <1>3
  <2> HIDE DEF t
  <2>2. DOMAIN a = 1..(m + 1) /\ a[m + 1] = t /\ m \in Nat /\ \A i \in 1..m : a[i] = q[i]
    BY <1>1, <2>1
  <2>7. y \in Seq(T) /\ Len(y) = m /\ \A i \in 1..m : y[i] = q[i].val
    BY <1>4, <1>5
  <2> HIDE DEF y, m
  <2> DEFINE b == Append(y, x)
  <2>3. /\ DOMAIN b = 1..(m + 1) /\ b[m + 1] = x /\ \A i \in 1..m : b[i] = y[i]
        /\ b = [i \in 1..(m + 1) |-> b[i]]
    <3>1. b \in Seq(T) /\ Len(b) = m + 1 /\ b[m + 1] = x
      BY <2>2, <2>7
    <3>2. \A i \in 1..m : b[i] = y[i]
      BY <2>2, <2>7
    <3> HIDE DEF b
    <3> QED
      BY <3>1, <3>2
  <2>4. Values(List(a)) = [i \in DOMAIN a |-> a[i].val]
    BY DEF Values, List
  <2> HIDE DEF a, b
  <2>5. \A i \in 1..(m + 1) : a[i].val = b[i]
    <3>1. \A i \in 1..(m + 1) : i = m + 1 \/ i \in 1..m
      BY <2>2
    <3> QED
      BY <2>1, <2>2, <2>3, <2>7, <3>1
  <2>6. Values(List(a)) = b
    BY <2>2, <2>3, <2>4, <2>5
  <2> QED
    BY <2>6 DEF a, b, t, y
<1>7. Values(List(<<>>)) = <<>>
  BY DEF Values, List
<1> QED
  BY <1>4, <1>5, <1>6, <1>7

LEMMA AddedIs ==
    ASSUME NEW T, NEW L, NEW s \in Prose(T, L), NEW list \in {"paragraphs", "bullets"}, NEW x \in T
    PROVE  /\ Added(s, list, x)["heading"] = s["heading"] /\ Added(s, list, x)["level"] = s["level"]
           /\ Added(s, list, x)[list] = List(Append(s[list].val, Text(x)))
           /\ \A other \in {"paragraphs", "bullets"} \ {list} : Added(s, list, x)[other] = s[other]
<1>1. DOMAIN s = {"heading", "level", "paragraphs", "bullets"}
  BY ProseFields
<1> DEFINE longer == List(Append(s[list].val, Text(x)))
<1>2. Added(s, list, x) = [key \in DOMAIN s |-> IF key = list THEN longer ELSE s[key]]
  <2>1. s = [key \in DOMAIN s |-> s[key]]
    BY DEF Prose
  <2> QED
    BY <1>1, <2>1 DEF Added
<1> HIDE DEF longer
<1> QED
  BY <1>1, <1>2 DEF longer

HeadingsOf(body) == {i \in DOMAIN body : body[i].style = "Heading"}
TextOf(body)     == [i \in DOMAIN body |-> body[i].text]

\* The blocks up to n that stand under heading i and have one of the styles.
Below(body, i, n, styles) ==
    {j \in 1..n : i < j /\ (\A h \in HeadingsOf(body) : h <= i \/ j < h) /\ body[j].style \in styles}

SectionKept(s, body, i, n) ==
    /\ s["heading"] = Text(body[i].text)
    /\ InOrder(Values(s["paragraphs"]), TextOf(body), Below(body, i, n, {"Body", "Title"}))
    /\ InOrder(Values(s["bullets"]), TextOf(body), Below(body, i, n, {"List Bullet"}))

KeptUpTo(sections, body, n) ==
    /\ Len(sections) = Cardinality(HeadingsOf(body) \cap (1..n))
    /\ \A i \in HeadingsOf(body) \cap (1..n) :
        SectionKept(sections[Rank(HeadingsOf(body) \cap (1..n), i)], body, i, n)

\* One more block below a heading.
LEMMA BelowGrows ==
    ASSUME NEW body, NEW N \in Nat, DOMAIN body = 1..N, NEW n \in 0..(N - 1), NEW i \in HeadingsOf(body) \cap (1..n),
           NEW styles, "Heading" \notin styles
    PROVE  /\ Below(body, i, n, styles) \subseteq 1..n
           /\ body[n + 1].style \notin styles => Below(body, i, n + 1, styles) = Below(body, i, n, styles)
           /\ (\E h \in HeadingsOf(body) \cap (1..n) : i < h) => Below(body, i, n + 1, styles) = Below(body, i, n, styles)
           /\ body[n + 1].style \in styles /\ (\A h \in HeadingsOf(body) \cap (1..n) : h <= i) =>
                Below(body, i, n + 1, styles) = Below(body, i, n, styles) \cup {n + 1}
<1>1. n + 1 \in 1..N /\ 1..(n + 1) = (1..n) \cup {n + 1} /\ \A j \in 1..n : j < n + 1 /\ ~(n + 1 < j)
  OBVIOUS
<1>2. Below(body, i, n, styles) \subseteq 1..n
  BY DEF Below
<1>3. Below(body, i, n + 1, styles) \ {n + 1} = Below(body, i, n, styles) /\ n + 1 \notin Below(body, i, n, styles)
  BY <1>1 DEF Below
<1>4. n + 1 \in Below(body, i, n + 1, styles) <=>
        (\A h \in HeadingsOf(body) : h <= i \/ n + 1 < h) /\ body[n + 1].style \in styles
  BY <1>1 DEF Below
<1>5. ASSUME body[n + 1].style \in styles, \A h \in HeadingsOf(body) \cap (1..n) : h <= i
      PROVE  \A h \in HeadingsOf(body) : h <= i \/ n + 1 < h
  <2>1. n + 1 \notin HeadingsOf(body)
    BY <1>5 DEF HeadingsOf
  <2>2. \A h \in HeadingsOf(body) : h \in 1..n \/ h = n + 1 \/ n + 1 < h
    BY DEF HeadingsOf
  <2> QED
    BY <1>5, <2>1, <2>2
<1>6. ASSUME NEW h \in HeadingsOf(body) \cap (1..n), i < h
      PROVE  ~(h <= i \/ n + 1 < h)
  BY <1>6
<1> QED
  BY <1>2, <1>3, <1>4, <1>5, <1>6

\* A heading opens a section and leaves the ones before it as they are (reader.py:76).
LEMMA PlaceHeadingKeeps ==
    ASSUME NEW T, NEW L, NEW body, NEW N \in Nat, DOMAIN body = 1..N, NEW n \in 0..(N - 1),
           NEW sections \in Seq(Prose(T, L)), KeptUpTo(sections, body, n),
           body[n + 1].text \in T, body[n + 1].level \in L, body[n + 1].style = "Heading"
    PROVE  KeptUpTo(Place(sections, body[n + 1]), body, n + 1)
<1> DEFINE H == HeadingsOf(body) \cap (1..n)
           new == Section(Text(body[n + 1].text), body[n + 1].level, <<>>, <<>>)
           P == Prose(T, L)
           next == Append(sections, new)
<1>1. HeadingsOf(body) \cap (1..(n + 1)) = H \cup {n + 1} /\ n + 1 \in 1..N /\ n + 1 \in Nat \ {0} /\ (n + 1) - 1 = n
  BY DEF HeadingsOf
<1>2. H \subseteq 1..n /\ n \in Nat
  OBVIOUS
<1>3. /\ Cardinality(H \cup {n + 1}) = Cardinality(H) + 1
      /\ \A i \in H : Rank(H \cup {n + 1}, i) = Rank(H, i)
      /\ Rank(H \cup {n + 1}, n + 1) = Cardinality(H) + 1
  <2> HIDE DEF H
  <2> QED
    BY <1>1, <1>2, RankGrows
<1>4. \A i \in H : Rank(H, i) \in 1..Cardinality(H)
  <2> HIDE DEF H
  <2> QED
    BY <1>2, RankBounds
<1>5. Len(sections) = Cardinality(H) /\ \A i \in H : SectionKept(sections[Rank(H, i)], body, i, n)
  BY DEF KeptUpTo
<1>6. Place(sections, body[n + 1]) = next
  BY DEF Place
<1>7. new \in P
  BY SectionTyped
<1>8. new["heading"] = Text(body[n + 1].text) /\ new["paragraphs"] = List(<<>>) /\ new["bullets"] = List(<<>>)
  BY DEF Section
<1> HIDE DEF P, new
<1>9. /\ Len(next) = Len(sections) + 1 /\ next[Len(sections) + 1] = new
      /\ \A p \in 1..Len(sections) : next[p] = sections[p]
  <2>1. sections \in Seq(P)
    BY DEF P
  <2> QED
    BY <1>7, <2>1
<1> HIDE DEF next
<1>10. ASSUME NEW i \in H PROVE SectionKept(next[Rank(H, i)], body, i, n + 1)
  <2>1. i \in HeadingsOf(body) \cap (1..n)
    OBVIOUS
  <2>2. /\ Below(body, i, n + 1, {"Body", "Title"}) = Below(body, i, n, {"Body", "Title"})
        /\ Below(body, i, n + 1, {"List Bullet"}) = Below(body, i, n, {"List Bullet"})
    <3>1. "Heading" \notin {"Body", "Title"} /\ "Heading" \notin {"List Bullet"}
      OBVIOUS
    <3>2. body[n + 1].style \notin {"Body", "Title"} /\ body[n + 1].style \notin {"List Bullet"}
      OBVIOUS
    <3>3. Below(body, i, n + 1, {"Body", "Title"}) = Below(body, i, n, {"Body", "Title"})
      BY <2>1, <3>1, <3>2, BelowGrows
    <3>4. Below(body, i, n + 1, {"List Bullet"}) = Below(body, i, n, {"List Bullet"})
      <4> DEFINE styles == {"List Bullet"}
      <4>1. "Heading" \notin styles /\ body[n + 1].style \notin styles
        OBVIOUS
      <4> HIDE DEF styles
      <4>2. Below(body, i, n + 1, styles) = Below(body, i, n, styles)
        BY <2>1, <4>1, BelowGrows
      <4> QED
        BY <4>2 DEF styles
    <3> QED
      BY <3>3, <3>4
  <2>3. next[Rank(H, i)] = sections[Rank(H, i)]
    <3> HIDE DEF H
    <3> QED
      BY <1>4, <1>5, <1>9
  <2> QED
    BY <1>5, <2>2, <2>3 DEF SectionKept
<1>11. SectionKept(new, body, n + 1, n + 1)
  <2>1. \A styles : Below(body, n + 1, n + 1, styles) = {}
    BY DEF Below
  <2>2. Values(List(<<>>)) = <<>>
    BY DEF Values, List
  <2> QED
    BY <1>8, <2>1, <2>2, InOrderEmpty DEF SectionKept
<1>12. \A i \in H \cup {n + 1} : SectionKept(next[Rank(H \cup {n + 1}, i)], body, i, n + 1)
  <2> HIDE DEF H
  <2> QED
    BY <1>3, <1>5, <1>9, <1>10, <1>11
<1> HIDE DEF H
<1>13. Len(next) = Cardinality(H \cup {n + 1})
  BY <1>3, <1>5, <1>9
<1> QED
  BY <1>1, <1>6, <1>12, <1>13 DEF KeptUpTo

\* A text goes to the last section only, and there behind what it already has (reader.py:93).
LEMMA PlaceTextKeeps ==
    ASSUME NEW T, NEW L, 1 \in L, NEW body, NEW N \in Nat, DOMAIN body = 1..N, NEW n \in 1..(N - 1),
           \A j \in 1..N : body[j].text \in T,
           NEW sections \in Seq(Prose(T, L)), KeptUpTo(sections, body, n), sections # <<>>,
           body[n + 1].style \in Styles, body[n + 1].style # "Heading"
    PROVE  KeptUpTo(Place(sections, body[n + 1]), body, n + 1)
<1> DEFINE H == HeadingsOf(body) \cap (1..n)
           P == Prose(T, L)
           m == Len(sections)
           list == ListFor(body[n + 1].style)
           x == body[n + 1].text
           next == Place(sections, body[n + 1])
<1>1. HeadingsOf(body) \cap (1..(n + 1)) = H /\ n + 1 \in 1..N /\ n + 1 \in Nat \ {0} /\ (n + 1) - 1 = n /\ n \in 0..(N - 1)
  BY DEF HeadingsOf
<1>2. H \subseteq 1..n /\ n \in Nat /\ x \in T
  BY <1>1
<1>3. Len(sections) = Cardinality(H) /\ \A i \in H : SectionKept(sections[Rank(H, i)], body, i, n)
  BY DEF KeptUpTo
<1>4. \A i \in H : Rank(H, i) \in 1..Cardinality(H)
  <2> HIDE DEF H
  <2> QED
    BY <1>2, RankBounds
<1>5. list \in {"paragraphs", "bullets"} /\ (list = "bullets" <=> body[n + 1].style = "List Bullet")
      /\ (list = "paragraphs" <=> body[n + 1].style \in {"Body", "Title"})
  BY DEF ListFor, Styles
<1>6. next = [sections EXCEPT ![m] = Added(sections[m], list, x)]
  BY PlaceText DEF Open
<1>7. m \in Nat \ {0} /\ \A p \in 1..m : sections[p] \in P
  <2> HIDE DEF P
  <2>1. sections \in Seq(P)
    BY DEF P
  <2> QED
    BY <2>1
<1>8. DOMAIN sections = 1..m
  <2> HIDE DEF P
  <2>1. sections \in Seq(P)
    BY DEF P
  <2> QED
    BY <2>1
<1> HIDE DEF m, list, x
<1>9. /\ Len(next) = m /\ next[m] = Added(sections[m], list, x)
      /\ \A p \in (1..m) \ {m} : next[p] = sections[p]
  <2> DEFINE y == Added(sections[m], list, x)
  <2> HIDE DEF y
  <2>1. DOMAIN next = 1..m /\ next[m] = y /\ \A p \in (1..m) \ {m} : next[p] = sections[p]
    BY <1>6, <1>7, <1>8 DEF y
  <2>2. next = [p \in 1..m |-> next[p]] /\ m \in Nat
    BY <1>6, <1>7, <1>8
  <2> HIDE DEF next, P
  <2>3. Len(next) = m
    BY <2>1, <2>2, MapIsSeq
  <2> QED
    BY <2>1, <2>3 DEF y
<1> HIDE DEF next
<1>10. ASSUME NEW i \in H PROVE SectionKept(next[Rank(H, i)], body, i, n + 1)
  <2>1. i \in HeadingsOf(body) \cap (1..n) /\ i \in H
    OBVIOUS
  <2> HIDE DEF H
  <2>2. Rank(H, i) \in 1..m /\ SectionKept(sections[Rank(H, i)], body, i, n)
    BY <1>3, <1>4, <2>1 DEF m
  <2>3. CASE \E h \in H : i < h
    <3>1. Rank(H, i) # m
      BY <1>2, <1>3, <2>3, RankOfLast DEF m
    <3>2. next[Rank(H, i)] = sections[Rank(H, i)]
      BY <1>9, <2>2, <3>1
    <3>3. /\ Below(body, i, n + 1, {"Body", "Title"}) = Below(body, i, n, {"Body", "Title"})
          /\ Below(body, i, n + 1, {"List Bullet"}) = Below(body, i, n, {"List Bullet"})
      <4>1. "Heading" \notin {"Body", "Title"} /\ "Heading" \notin {"List Bullet"}
        OBVIOUS
      <4>2. \E h \in HeadingsOf(body) \cap (1..n) : i < h
        BY <2>3 DEF H
      <4>3. Below(body, i, n + 1, {"Body", "Title"}) = Below(body, i, n, {"Body", "Title"})
        BY <1>1, <2>1, <4>1, <4>2, BelowGrows
      <4>4. Below(body, i, n + 1, {"List Bullet"}) = Below(body, i, n, {"List Bullet"})
        <5> DEFINE styles == {"List Bullet"}
        <5>1. "Heading" \notin styles
          OBVIOUS
        <5> HIDE DEF styles
        <5>2. Below(body, i, n + 1, styles) = Below(body, i, n, styles)
          BY <1>1, <2>1, <4>2, <5>1, BelowGrows
        <5> QED
          BY <5>2 DEF styles
      <4> QED
        BY <4>3, <4>4
    <3> QED
      BY <2>2, <3>2, <3>3 DEF SectionKept
  <2>4. CASE ~ \E h \in H : i < h
    <3>1. \A h \in H : h <= i
      BY <1>2, <2>4
    <3>2. Rank(H, i) = m
      BY <1>2, <1>3, <3>1, RankOfLast DEF m
    <3> DEFINE s == sections[m]
    <3>3. s \in P /\ SectionKept(s, body, i, n)
      BY <1>7, <2>2, <3>2
    <3> HIDE DEF s
    <3>4. /\ Added(s, list, x)["heading"] = s["heading"]
          /\ Added(s, list, x)[list] = List(Append(s[list].val, Text(x)))
          /\ \A other \in {"paragraphs", "bullets"} \ {list} : Added(s, list, x)[other] = s[other]
      <4>1. s \in Prose(T, L) /\ list \in {"paragraphs", "bullets"} /\ x \in T
        BY <1>2, <1>5, <3>3 DEF P
      <4> QED
        BY <4>1, AddedIs
    <3>5. s["paragraphs"] \in TextLists(T) /\ s["bullets"] \in TextLists(T)
      BY <3>3, ProseFields
    <3>6. TextOf(body)[n + 1] = x
      BY <1>1 DEF TextOf, x
    <3>7. ASSUME NEW styles, InOrder(Values(s[list]), TextOf(body), Below(body, i, n, styles)),
                 "Heading" \notin styles, body[n + 1].style \in styles
          PROVE  InOrder(Values(Added(s, list, x)[list]), TextOf(body), Below(body, i, n + 1, styles))
      <4>1. s[list] \in TextLists(T)
        BY <1>5, <3>5
      <4>2. Values(s[list]) \in Seq(T) /\ Values(Added(s, list, x)[list]) = Append(Values(s[list]), x)
        BY <1>2, <3>4, <4>1, ValuesOf
      <4>3. /\ Below(body, i, n, styles) \subseteq 1..n
            /\ Below(body, i, n + 1, styles) = Below(body, i, n, styles) \cup {n + 1}
        BY <1>1, <2>1, <3>1, <3>7, BelowGrows DEF H
      <4> DEFINE vals == Values(s[list])
                 at == Below(body, i, n, styles)
      <4> HIDE DEF vals, at
      <4>4. InOrder(Append(vals, TextOf(body)[n + 1]), TextOf(body), at \cup {n + 1})
        <5>1. vals \in Seq(T) /\ TextOf(body)[n + 1] \in T /\ at \subseteq 1..((n + 1) - 1) /\ InOrder(vals, TextOf(body), at)
          BY <1>1, <1>2, <3>6, <3>7, <4>2, <4>3 DEF vals, at
        <5> QED
          BY <1>1, <5>1, InOrderAppend
      <4> QED
        BY <3>6, <4>2, <4>3, <4>4 DEF vals, at
    <3>8. ASSUME NEW styles, "Heading" \notin styles, body[n + 1].style \notin styles
          PROVE  Below(body, i, n + 1, styles) = Below(body, i, n, styles)
      BY <1>1, <2>1, <3>8, BelowGrows DEF H
    <3>9. CASE list = "bullets"
      <4>1. body[n + 1].style \in {"List Bullet"} /\ body[n + 1].style \notin {"Body", "Title"}
        BY <1>5, <3>9
      <4>2. InOrder(Values(Added(s, list, x)["bullets"]), TextOf(body), Below(body, i, n + 1, {"List Bullet"}))
        BY <3>3, <3>7, <3>9, <4>1 DEF SectionKept
      <4>3. Added(s, list, x)["paragraphs"] = s["paragraphs"]
        BY <3>4, <3>9
      <4>4. InOrder(Values(Added(s, list, x)["paragraphs"]), TextOf(body), Below(body, i, n + 1, {"Body", "Title"}))
        BY <3>3, <3>8, <4>1, <4>3 DEF SectionKept
      <4> QED
        BY <1>9, <3>2, <3>3, <3>4, <4>2, <4>4 DEF SectionKept, s
    <3>10. CASE list = "paragraphs"
      <4>1. body[n + 1].style \notin {"List Bullet"} /\ body[n + 1].style \in {"Body", "Title"}
        BY <1>5, <3>10
      <4>2. InOrder(Values(Added(s, list, x)["paragraphs"]), TextOf(body), Below(body, i, n + 1, {"Body", "Title"}))
        BY <3>3, <3>7, <3>10, <4>1 DEF SectionKept
      <4>3. Added(s, list, x)["bullets"] = s["bullets"]
        BY <3>4, <3>10
      <4>4. InOrder(Values(Added(s, list, x)["bullets"]), TextOf(body), Below(body, i, n + 1, {"List Bullet"}))
        BY <3>3, <3>8, <4>1, <4>3 DEF SectionKept
      <4> QED
        BY <1>9, <3>2, <3>3, <3>4, <4>2, <4>4 DEF SectionKept, s
    <3> QED
      BY <1>5, <3>9, <3>10
  <2> QED
    BY <2>3, <2>4
<1> HIDE DEF H
<1> QED
  BY <1>1, <1>3, <1>9, <1>10 DEF KeptUpTo, m, next

\* Text before the first heading opens a section without heading, which stays the first.
LEMMA PlaceKeepsFirst ==
    ASSUME NEW T, NEW L, 1 \in L, NEW sections \in Seq(Prose(T, L)), NEW block, block.text \in T, block.level \in L,
           sections # <<>>
    PROVE  Place(sections, block) # <<>> /\ Place(sections, block)[1]["heading"] = sections[1]["heading"]
<1> DEFINE P == Prose(T, L)
           m == Len(sections)
           next == Place(sections, block)
<1>1. sections \in Seq(P)
  OBVIOUS
<1>2. CASE block.style = "Heading"
  <2> DEFINE new == Section(Text(block.text), block.level, <<>>, <<>>)
  <2>1. new \in P
    BY SectionTyped
  <2>2. next = Append(sections, new)
    BY <1>2 DEF Place
  <2> HIDE DEF new, P, next
  <2>3. next # <<>> /\ next[1] = sections[1]
    BY <1>1, <2>1, <2>2
  <2> QED
    BY <2>3 DEF next
<1>3. CASE block.style # "Heading"
  <2> DEFINE new == Added(sections[m], ListFor(block.style), block.text)
  <2>1. sections[m] \in Prose(T, L)
    <3> HIDE DEF P
    <3>1. sections[m] \in P
      BY <1>1
    <3> QED
      BY <3>1 DEF P
  <2>2. ListFor(block.style) \in {"paragraphs", "bullets"}
    BY DEF ListFor
  <2>3. new["heading"] = sections[m]["heading"]
    BY <2>1, <2>2, AddedIs
  <2>4. next = [sections EXCEPT ![m] = new]
    BY <1>3, PlaceText DEF Open
  <2> HIDE DEF new, P, next
  <2>5. DOMAIN next = DOMAIN sections /\ 1 \in DOMAIN sections
    BY <1>1, <2>4
  <2>6. next[1] = IF m = 1 THEN new ELSE sections[1]
    BY <1>1, <2>4, <2>5
  <2> QED
    BY <2>3, <2>5, <2>6 DEF next
<1> QED
  BY <1>2, <1>3

\* A body that begins with a heading is kept; another one has a section without a heading at first.
LEMMA PlacedKeeps ==
    ASSUME NEW body, NEW N \in Nat, Len(body) = N, DOMAIN body = 1..N, N # 0,
           \A j \in 1..N : body[j].style \in Styles
    PROVE  /\ Placed(body) # <<>>
           /\ body[1].style = "Heading" => KeptUpTo(Placed(body), body, N)
           /\ body[1].style # "Heading" => Placed(body)[1]["heading"] = Null
<1> DEFINE T == TextsIn(body)
           L == LevelsIn(body)
<1>1. 1 \in L /\ \A n \in 1..N : body[n].text \in T /\ body[n].level \in L
  BY DEF TextsIn, LevelsIn
<1> HIDE DEF T, L
<1>2. PICK g \in [0..N -> Seq(Prose(T, L))] : Placed(body) = g[N] /\ PlaceSteps(g, body)
  BY PlacedTyped DEF T, L
<1>3. g[0] = <<>> /\ \A n \in 1..N : g[n] = Place(g[n - 1], body[n])
  BY <1>2 DEF PlaceSteps
<1>4. \A n \in 0..N : g[n] \in Seq(Prose(T, L))
  BY <1>2, Zenon
<1>5. 1 \in 1..N /\ 0 \in 0..N /\ 1 \in 0..N /\ N - 1 \in Nat /\ N \in 1..N
  OBVIOUS
<1>6. g[1] = Place(<<>>, body[1])
  BY <1>3, <1>5
<1> DEFINE First == {n \in 1..N : g[n] # <<>> /\ (body[1].style # "Heading" => g[n][1]["heading"] = Null)}
<1>7. 1 \in First
  <2>1. CASE body[1].style = "Heading"
    <3>1. g[1] = Append(<<>>, Section(Text(body[1].text), body[1].level, <<>>, <<>>))
      BY <1>6, <2>1 DEF Place
    <3> DEFINE new == Section(Text(body[1].text), body[1].level, <<>>, <<>>)
    <3> HIDE DEF new
    <3>2. g[1] = Append(<<>>, new)
      BY <3>1 DEF new
    <3>3. g[1] # <<>>
      BY <3>2
    <3> QED
      BY <1>5, <2>1, <3>3
  <2>2. CASE body[1].style # "Heading"
    <3> DEFINE first == Section(Null, 1, <<>>, <<>>)
               new == Added(first, ListFor(body[1].style), body[1].text)
    <3>1. Open(<<>>) = <<first>>
      BY DEF Open
    <3>2. <<>> \in Seq(Prose(T, L))
      BY <1>3, <1>4, <1>5
    <3>3. Place(<<>>, body[1]) =
            [Open(<<>>) EXCEPT ![Len(Open(<<>>))] = Added(Open(<<>>)[Len(Open(<<>>))], ListFor(body[1].style), body[1].text)]
      BY <2>2 DEF Place, Open, Added, ListFor
    <3>4. first \in Prose(T, L)
      <4>1. Open(<<>>)[Len(Open(<<>>))] \in Prose(T, L)
        BY <1>1, <3>2, OpenTyped
      <4> HIDE DEF first
      <4>2. <<first>>[Len(<<first>>)] = first
        OBVIOUS
      <4> QED
        BY <3>1, <4>1, <4>2, Zenon
    <3>5. new["heading"] = first["heading"]
      <4> HIDE DEF first
      <4>1. ListFor(body[1].style) \in {"paragraphs", "bullets"}
        BY DEF ListFor
      <4> QED
        BY <1>1, <1>5, <3>4, <4>1, AddedIs
    <3>6. first["heading"] = Null
      BY DEF Section
    <3> HIDE DEF first
    <3>7. g[1] = [<<first>> EXCEPT ![1] = new]
      BY <1>6, <3>1, <3>3
    <3> HIDE DEF new
    <3>8. g[1] # <<>> /\ g[1][1] = new
      BY <3>7
    <3> QED
      BY <1>5, <3>5, <3>6, <3>8
  <2> QED
    BY <2>1, <2>2
<1> DEFINE Good == {n \in 0..(N - 1) : n + 1 \in First}
<1>8. 0 \in Good
  <2> HIDE DEF First
  <2> QED
    BY <1>5, <1>7
<1>9. \A n \in 0..((N - 1) - 1) : n \in Good => n + 1 \in Good
  <2> SUFFICES ASSUME NEW n \in 0..((N - 1) - 1), n + 1 \in First PROVE n + 1 \in Good
    OBVIOUS
  <2>1. /\ n + 1 \in 0..(N - 1) /\ n + 1 \in 0..N /\ (n + 1) + 1 \in 1..N /\ ((n + 1) + 1) - 1 = n + 1
    OBVIOUS
  <2> DEFINE k == n + 1
  <2>2. k \in 0..N /\ k + 1 \in 1..N /\ g[k + 1] = Place(g[k], body[k + 1])
    BY <1>3, <2>1
  <2>3. g[k] # <<>> /\ (body[1].style # "Heading" => g[k][1]["heading"] = Null) /\ g[k] \in Seq(Prose(T, L))
    BY <1>4, <2>2
  <2> HIDE DEF k
  <2>4. g[k + 1] # <<>> /\ g[k + 1][1]["heading"] = g[k][1]["heading"]
    BY <1>1, <2>2, <2>3, PlaceKeepsFirst
  <2>5. k + 1 \in First
    BY <2>2, <2>3, <2>4
  <2> HIDE DEF First
  <2> QED
    BY <2>1, <2>5 DEF k
<1>10. \A n \in 0..(N - 1) : n \in Good
  <2> HIDE DEF Good
  <2> QED
    BY <1>5, <1>8, <1>9, Induction
<1>11. \A n \in 1..N : n \in First
  <2> HIDE DEF First
  <2>1. \A n \in 1..N : n - 1 \in 0..(N - 1) /\ (n - 1) + 1 = n
    OBVIOUS
  <2> QED
    BY <1>10, <2>1
<1>12. ASSUME body[1].style = "Heading" PROVE KeptUpTo(g[N], body, N)
  <2> DEFINE Kept == {n \in 0..N : KeptUpTo(g[n], body, n)}
  <2>1. 0 \in Kept
    <3>1. 1..0 = {} /\ HeadingsOf(body) \cap {} = {}
      OBVIOUS
    <3> QED
      BY <1>3, <1>5, <3>1, FS_EmptySet DEF KeptUpTo
  <2>2. \A n \in 0..(N - 1) : n \in Kept => n + 1 \in Kept
    <3> SUFFICES ASSUME NEW n \in 0..(N - 1), KeptUpTo(g[n], body, n) PROVE n + 1 \in Kept
      BY Zenon
    <3>1. n \in 0..N /\ n + 1 \in 0..N /\ n + 1 \in 1..N /\ (n + 1) - 1 = n /\ body[n + 1].style \in Styles
      OBVIOUS
    <3> DEFINE sections == g[n]
    <3>2. sections \in Seq(Prose(T, L)) /\ g[n + 1] = Place(sections, body[n + 1]) /\ KeptUpTo(sections, body, n)
      BY <1>3, <1>4, <3>1
    <3>5. body[n + 1].text \in T /\ body[n + 1].level \in L /\ 1 \in L /\ \A j \in 1..N : body[j].text \in T
      BY <1>1, <3>1
    <3>3. CASE body[n + 1].style = "Heading"
      <4> HIDE DEF sections
      <4>1. KeptUpTo(Place(sections, body[n + 1]), body, n + 1)
        BY <3>2, <3>3, <3>5, PlaceHeadingKeeps
      <4> QED
        BY <3>1, <3>2, <4>1
    <3>4. CASE body[n + 1].style # "Heading"
      <4>1. n \in 1..(N - 1) /\ n \in 1..N
        BY <1>12, <3>4
      <4>2. sections # <<>>
        BY <1>11, <4>1
      <4> HIDE DEF sections
      <4>3. KeptUpTo(Place(sections, body[n + 1]), body, n + 1)
        BY <3>1, <3>2, <3>4, <3>5, <4>1, <4>2, PlaceTextKeeps
      <4> QED
        BY <3>1, <3>2, <4>3
    <3> QED
      BY <3>3, <3>4
  <2>3. \A n \in 0..N : n \in Kept
    <3> HIDE DEF Kept
    <3> QED
      BY <2>1, <2>2, Induction
  <2>4. N \in 0..N
    OBVIOUS
  <2> QED
    BY <2>3, <2>4
<1> QED
  BY <1>2, <1>5, <1>11, <1>12

\* What TextIsKept says of a document and of what is read of it.
TextKept(f, v) ==
    LET body == Body(f.blocks)
        text == [i \in DOMAIN body |-> body[i].text]
        headings == {i \in DOMAIN body : body[i].style = "Heading"}
        Under(i) == {j \in DOMAIN body : i < j /\ \A h \in headings : h <= i \/ j < h}
        sections == SectionsOf(v)
        tables == Get(v, "tables").val
    IN  /\ Len(tables) = Len(f.tables)
        /\ \A k \in DOMAIN f.tables : tables[k] = TableRead(f.tables[k].cells)
        /\ \A i \in DOMAIN sections :
            /\ "table" \in DOMAIN sections[i].val <=> i = Len(sections) /\ tables # <<>>
            /\ "table" \in DOMAIN sections[i].val => Get(sections[i], "table") = tables[Len(tables)]
        /\ body # <<>> => Len(sections) = Cardinality(headings)
        /\ \A i \in headings :
            LET s == sections[Cardinality({j \in headings : j <= i})] IN
            /\ Get(s, "heading").val = body[i].text
            /\ InOrder(Values(Get(s, "paragraphs")), text, {j \in Under(i) : body[j].style \in {"Body", "Title"}})
            /\ InOrder(Values(Get(s, "bullets")), text, {j \in Under(i) : body[j].style = "List Bullet"})

\* Only the last section has a table, which is the last.
LastHasTable(sections, tables) ==
    \A p \in DOMAIN sections :
        /\ "table" \in DOMAIN sections[p] <=> p = Len(sections) /\ tables # <<>>
        /\ "table" \in DOMAIN sections[p] => sections[p]["table"] = tables[Len(tables)]

\* A document without text has a section for its tables, if there are any.
LEMMA AttachedToNone ==
    ASSUME NEW tables
    PROVE  LastHasTable(Attached(<<>>, tables), tables)
<1>1. CASE tables = <<>>
  BY <1>1 DEF Attached, LastHasTable
<1>2. CASE tables # <<>>
  <2> DEFINE s == Section(Text(<<"Tables">>), 1, <<>>, <<>>)
             w == WithTable(s, Last(tables))
  <2>1. Attached(<<>>, tables) = <<w>>
    BY <1>2 DEF Attached, Attach
  <2>2. "table" \in DOMAIN w /\ w["table"] = Last(tables)
    BY DEF WithTable
  <2> HIDE DEF w
  <2>3. \A p \in DOMAIN <<w>> : p = Len(<<w>>) /\ <<w>>[p] = w
    OBVIOUS
  <2> QED
    BY <1>2, <2>1, <2>2, <2>3 DEF LastHasTable, Last
<1> QED
  BY <1>1, <1>2

\* Attaching the tables changes nothing else.
LEMMA AttachedKeeps ==
    ASSUME NEW T, NEW L, NEW sections \in Seq(Prose(T, L)), sections # <<>>, NEW tables, IsSeq(tables),
           \A i \in DOMAIN tables : FileTable(tables[i])
    PROVE  LET a == Attached(sections, tables) IN
           /\ Len(a) = Len(sections) /\ DOMAIN a = 1..Len(sections)
           /\ \A p \in 1..Len(sections) : \A key \in {"heading", "level", "paragraphs", "bullets"} : a[p][key] = sections[p][key]
           /\ LastHasTable(a, tables)
<1> DEFINE P == Prose(T, L)
           a == Attached(sections, tables)
           m == Len(sections)
<1>1. m \in Nat \ {0} /\ DOMAIN sections = 1..m /\ \A p \in 1..m : sections[p] \in P
  <2>1. sections \in Seq(P)
    OBVIOUS
  <2> HIDE DEF P
  <2> QED
    BY <2>1
<1>2. \A p \in 1..m : DOMAIN sections[p] = {"heading", "level", "paragraphs", "bullets"}
  BY <1>1, ProseFields
<1>3. CASE tables = <<>>
  <2>1. a = sections
    BY <1>3 DEF Attached
  <2> HIDE DEF P, a
  <2>2. LastHasTable(a, tables)
    BY <1>1, <1>2, <1>3, <2>1 DEF LastHasTable
  <2> QED
    BY <1>1, <2>1, <2>2 DEF a
<1>4. CASE tables # <<>>
  <2>1. PICK S : tables \in Seq(S)
    BY SeqIsTyped
  <2>2. /\ a = [i \in 1..m |-> IF i = m THEN WithTable(sections[i], Last(tables)) ELSE sections[i]]
        /\ Last(tables) \in {tables[i] : i \in DOMAIN tables}
    <3>1. a = [i \in 1..m |-> IF i = m THEN WithTable(sections[i], Last(tables)) ELSE sections[i]]
      <4>1. sections \in Seq(P)
        OBVIOUS
      <4> HIDE DEF P
      <4> QED
        BY <1>4, <2>1, <4>1, AttachedIs
    <3>2. Last(tables) \in {tables[i] : i \in DOMAIN tables}
      BY <1>4, <2>1 DEF Last
    <3> QED
      BY <3>1, <3>2
  <2>3. FileTable(Last(tables))
    BY <2>2
  <2>4. \A p \in 1..m :
            /\ \A key \in {"heading", "level", "paragraphs", "bullets"} : WithTable(sections[p], Last(tables))[key] = sections[p][key]
            /\ "table" \in DOMAIN WithTable(sections[p], Last(tables))
            /\ WithTable(sections[p], Last(tables))["table"] = Last(tables)
    <3>1. \A p \in 1..m : WithTable(sections[p], Last(tables))["table"] = Last(tables)
      BY DEF WithTable
    <3> QED
      BY <1>1, <2>3, <3>1, WithTableIsRead
  <2> DEFINE W(p) == WithTable(sections[p], Last(tables))
  <2>5. DOMAIN a = 1..m /\ a = [i \in 1..m |-> a[i]] /\ \A p \in 1..m : a[p] = IF p = m THEN W(p) ELSE sections[p]
    BY <2>2
  <2> HIDE DEF a, P
  <2>6. Len(a) = m
    BY <1>1, <2>5, MapIsSeq
  <2>7. \A p \in 1..m : \A key \in {"heading", "level", "paragraphs", "bullets"} : a[p][key] = sections[p][key]
    BY <2>4, <2>5
  <2>8. LastHasTable(a, tables)
    <3>1. ASSUME NEW p \in 1..m
          PROVE  ("table" \in DOMAIN a[p] <=> p = m) /\ ("table" \in DOMAIN a[p] => a[p]["table"] = Last(tables))
      <4>1. CASE p = m
        BY <2>4, <2>5, <4>1
      <4>2. CASE p # m
        <5>1. DOMAIN a[p] = {"heading", "level", "paragraphs", "bullets"}
          BY <1>2, <2>5, <4>2
        <5> QED
          BY <4>2, <5>1
      <4> QED
        BY <4>1, <4>2
    <3>2. Last(tables) = tables[Len(tables)]
      BY DEF Last
    <3>3. DOMAIN a = 1..m /\ Len(a) = m
      BY <2>5, <2>6
    <3> QED
      BY <1>4, <3>1, <3>2, <3>3, Zenon DEF LastHasTable
  <2> QED
    BY <1>4, <2>5, <2>6, <2>7, <2>8 DEF a
<1> QED
  BY <1>3, <1>4

\* The sections that are read, one by one.
LEMMA ReadSectionsAre ==
    ASSUME NEW f, FileFormed(f)
    PROVE  LET sections == Attached(Placed(Body(f.blocks)), TablesRead(f.tables))
               got == SectionsOf(ReadDocx(f))
           IN  /\ IsSeq(sections) /\ Len(got) = Len(sections) /\ DOMAIN got = DOMAIN sections
               /\ \A p \in DOMAIN sections : got[p] = Dict(sections[p]) /\ ReadForm(sections[p])
               /\ Get(ReadDocx(f), "tables").val = TablesRead(f.tables)
               /\ ReadOutput(ReadDocx(f)) => \A p \in DOMAIN sections : sections[p]["heading"] # Null
<1> DEFINE v == ReadDocx(f)
           sections == Attached(Placed(Body(f.blocks)), TablesRead(f.tables))
           listed == [i \in DOMAIN sections |-> Dict(sections[i])]
<1>1. /\ v = Dict(v.val) /\ DOMAIN v.val = {"title", "sections", "tables"} /\ v.val["sections"] = List(listed)
      /\ v.val["tables"] = List(TablesRead(f.tables))
      /\ IsSeq(sections) /\ \A i \in DOMAIN sections : ReadForm(sections[i])
  BY ReadDocxForm
<1> HIDE DEF sections, v
<1>2. PICK n \in Nat : DOMAIN sections = 1..n /\ Len(sections) = n
  BY <1>1, SeqIsTyped
<1>3. /\ DOMAIN listed = 1..n /\ listed = [i \in 1..n |-> listed[i]]
      /\ \A i \in 1..n : listed[i] = Dict(sections[i])
  BY <1>2
<1> HIDE DEF listed
<1>4. Len(listed) = n
  BY <1>3, MapIsSeq
<1>5. Get(v, "sections") = List(listed) /\ Get(v, "tables") = List(TablesRead(f.tables))
  BY <1>1 DEF Get
<1>6. SectionsOf(v) = listed /\ Get(v, "tables").val = TablesRead(f.tables)
  BY <1>5, ScalarForms DEF SectionsOf
<1>7. ASSUME ReadOutput(v), NEW p \in DOMAIN sections PROVE sections[p]["heading"] # Null
  <2>1. ReadSections(List(listed))
    BY <1>1, <1>7 DEF ReadOutput, Property
  <2>2. ReadSection(listed[p])
    BY <1>2, <1>3, <2>1, ScalarForms DEF ReadSections, Array
  <2>3. ReadSection(Dict(sections[p])) /\ ReadForm(sections[p])
    BY <1>1, <1>2, <1>3, <2>2
  <2>4. "heading" \in DOMAIN sections[p]
    BY <2>3 DEF ReadForm
  <2>5. Str(sections[p]["heading"])
    BY <2>3, <2>4, ScalarForms DEF ReadSection, Property
  <2> QED
    BY <2>5, ScalarForms DEF Str
<1> QED
  BY <1>1, <1>2, <1>3, <1>4, <1>6, <1>7 DEF v, sections

\* TextIsKept of any document whose reading fits the output schema.
LEMMA ReadKeepsText ==
    ASSUME NEW f, FileFormed(f), ReadOutput(ReadDocx(f))
    PROVE  TextKept(f, ReadDocx(f))
<1> DEFINE v == ReadDocx(f)
           body == Body(f.blocks)
           placed == Placed(body)
           tables == TablesRead(f.tables)
           sections == Attached(placed, tables)
           got == SectionsOf(v)
           N == Len(body)
           H == HeadingsOf(body)
<1>1. /\ IsSeq(tables) /\ \A i \in DOMAIN tables : FileTable(tables[i])
      /\ N \in Nat /\ DOMAIN body = 1..N /\ \A j \in 1..N : body[j].style \in Styles
  BY BodyTyped, TablesReadAre DEF FileFormed
<1>2. /\ Len(got) = Len(sections) /\ DOMAIN got = DOMAIN sections
      /\ \A p \in DOMAIN sections : got[p] = Dict(sections[p]) /\ ReadForm(sections[p]) /\ sections[p]["heading"] # Null
      /\ Get(v, "tables").val = tables
  BY ReadSectionsAre
<1>5. /\ Len(tables) = Len(f.tables)
      /\ \A k \in DOMAIN f.tables : tables[k] = TableRead(f.tables[k].cells)
  BY TablesReadAre
<1>6. ASSUME LastHasTable(sections, tables), NEW i \in DOMAIN got
      PROVE  /\ "table" \in DOMAIN got[i].val <=> i = Len(got) /\ tables # <<>>
             /\ "table" \in DOMAIN got[i].val => Get(got[i], "table") = tables[Len(tables)]
  <2> HIDE DEF tables, sections, got, v
  <2>1. got[i] = Dict(sections[i]) /\ got[i].val = sections[i] /\ i \in DOMAIN sections
    BY <1>2, <1>6, ScalarForms
  <2> QED
    BY <1>2, <1>6, <2>1 DEF LastHasTable, Get
<1>3. CASE body = <<>>
  <2>1. DOMAIN body = {}
    BY <1>3
  <2>2. placed = <<>>
    <3>1. PICK g : Placed(body) = g[Len(body)] /\ PlaceSteps(g, body)
      BY <1>1, PlacedTyped
    <3> HIDE DEF body
    <3>2. Len(body) = 0
      BY <1>3
    <3> QED
      BY <3>1, <3>2 DEF PlaceSteps
  <2>3. LastHasTable(sections, tables)
    BY <2>2, AttachedToNone
  <2> HIDE DEF body, v, tables, sections, got
  <2> QED
    BY <1>2, <1>3, <1>5, <1>6, <2>1, <2>3 DEF TextKept, body, v, got
<1>4. CASE body # <<>>
  <2>1. N # 0
    <3>1. IsSeq(body)
      BY BodyTyped DEF FileFormed
    <3>2. PICK S : body \in Seq(S)
      BY <3>1, SeqIsTyped
    <3> HIDE DEF body
    <3> QED
      BY <1>4, <3>2
  <2> DEFINE T == TextsIn(body)
             L == LevelsIn(body)
  <2>2. placed \in Seq(Prose(T, L))
    BY <1>1, PlacedTyped
  <2>3. /\ placed # <<>>
        /\ body[1].style = "Heading" => KeptUpTo(placed, body, N)
        /\ body[1].style # "Heading" => placed[1]["heading"] = Null
    <3> HIDE DEF body
    <3> QED
      BY <1>1, <2>1, PlacedKeeps
  <2> HIDE DEF T, L, placed
  <2>4. /\ Len(sections) = Len(placed) /\ DOMAIN sections = 1..Len(placed)
        /\ \A p \in 1..Len(placed) : \A key \in {"heading", "level", "paragraphs", "bullets"} :
                sections[p][key] = placed[p][key]
        /\ LastHasTable(sections, tables)
    <3> HIDE DEF tables
    <3> QED
      BY <1>1, <2>2, <2>3, AttachedKeeps
  <2>5. Len(placed) \in Nat \ {0}
    <3> DEFINE P == Prose(T, L)
    <3>1. placed \in Seq(P)
      BY <2>2
    <3> HIDE DEF P
    <3> QED
      BY <2>3, <3>1
  <2> HIDE DEF sections, tables
  <2>6. body[1].style = "Heading"
    <3>1. 1 \in 1..Len(placed)
      BY <2>5
    <3>2. sections[1]["heading"] = placed[1]["heading"] /\ sections[1]["heading"] # Null
      BY <1>2, <2>4, <3>1
    <3> QED
      BY <2>3, <3>2
  <2>7. KeptUpTo(placed, body, N)
    BY <2>3, <2>6
  <2> HIDE DEF body, v, got
  <2>8. H \subseteq 1..N /\ H \cap (1..N) = H
    BY <1>1 DEF HeadingsOf
  <2>9. /\ Len(placed) = Cardinality(H)
        /\ \A i \in H : SectionKept(placed[Rank(H, i)], body, i, N)
    BY <2>7, <2>8 DEF KeptUpTo
  <2>10. \A i \in H : Rank(H, i) \in 1..Len(placed)
    <3> HIDE DEF H
    <3> QED
      BY <1>1, <2>8, <2>9, RankBounds
  <2> DEFINE text == [i \in DOMAIN body |-> body[i].text]
             headings == {i \in DOMAIN body : body[i].style = "Heading"}
             Under(i) == {j \in DOMAIN body : i < j /\ \A h \in headings : h <= i \/ j < h}
  <2>11. ASSUME NEW i \in headings
         PROVE  LET s == got[Cardinality({j \in headings : j <= i})] IN
                /\ Get(s, "heading").val = body[i].text
                /\ InOrder(Values(Get(s, "paragraphs")), text, {j \in Under(i) : body[j].style \in {"Body", "Title"}})
                /\ InOrder(Values(Get(s, "bullets")), text, {j \in Under(i) : body[j].style = "List Bullet"})
    <3> DEFINE p == Rank(H, i)
    <3>1. i \in H /\ headings = H
      BY DEF HeadingsOf
    <3>2. p \in 1..Len(placed) /\ SectionKept(placed[p], body, i, N)
      BY <2>9, <2>10, <3>1
    <3>3. p = Cardinality({j \in headings : j <= i})
      BY <3>1 DEF Rank
    <3> HIDE DEF p
    <3>4. /\ got[p] = Dict(sections[p])
          /\ \A key \in {"heading", "level", "paragraphs", "bullets"} : sections[p][key] = placed[p][key]
      BY <1>2, <2>4, <3>2
    <3>5. \A key \in {"heading", "paragraphs", "bullets"} : Get(got[p], key) = placed[p][key]
      <4>1. {"heading", "level", "paragraphs", "bullets"} \subseteq DOMAIN sections[p]
        BY <1>2, <2>4, <3>2 DEF ReadForm
      <4> QED
        BY <3>4, <4>1, GetField
    <3>6. Below(body, i, N, {"Body", "Title"}) = {j \in Under(i) : body[j].style \in {"Body", "Title"}}
      BY <1>1, <3>1 DEF Below
    <3>7. Below(body, i, N, {"List Bullet"}) = {j \in Under(i) : body[j].style = "List Bullet"}
      BY <1>1, <3>1 DEF Below
    <3>8. TextOf(body) = text
      BY DEF TextOf
    <3> HIDE DEF Under, text
    <3>9. Get(got[p], "heading").val = body[i].text
      <4>1. Get(got[p], "heading") = Text(body[i].text)
        <5>1. placed[p]["heading"] = Text(body[i].text)
          BY <3>2, Zenon DEF SectionKept
        <5> QED
          BY <3>5, <5>1
      <4> QED
        BY <4>1, ScalarForms, Zenon
    <3>10. /\ InOrder(Values(Get(got[p], "paragraphs")), text, {j \in Under(i) : body[j].style \in {"Body", "Title"}})
           /\ InOrder(Values(Get(got[p], "bullets")), text, {j \in Under(i) : body[j].style = "List Bullet"})
      <4> HIDE DEF headings, H
      <4> QED
        BY <3>2, <3>5, <3>6, <3>7, <3>8 DEF SectionKept
    <3> QED
      BY <3>3, <3>9, <3>10
  <2>12. Len(got) = Cardinality(headings)
    BY <1>2, <2>4, <2>9 DEF HeadingsOf
  <2> QED
    BY <1>2, <1>5, <1>6, <2>4, <2>11, <2>12, Zenon DEF TextKept, body, v, got
<1> QED
  BY <1>3, <1>4

\* What is known when document_read has just returned: the registry has checked its output.
ReadIs ==
    tool = "document_read" /\ result \in {"ok", "invalid_output"} =>
        /\ file.format = "docx"
        /\ result = "ok" => value = ReadDocx(file) /\ ReadOutput(ReadDocx(file))
        /\ result = "invalid_output" => ~ReadOutput(ReadDocx(file)) /\ value = Nothing

\* What document_read has just returned is what it makes of the file, if that fits its output schema.
LEMMA ReadIsHolds == Spec => []ReadIs
<1>1. Init => ReadIs
  BY DEF Init, ReadIs
<1>2. ReadIs /\ [Next]_vars => ReadIs'
  <2> SUFFICES ASSUME ReadIs, [Next]_vars PROVE ReadIs'
    OBVIOUS
  <2>1. CASE DocumentRead
    BY <2>1 DEF DocumentRead, Fails, Returns, ReadIs
  <2>2. CASE ExtractStructure \/ Extract \/ AuthorContent \/ AssignmentSolve \/ Generate \/ NewPlan
    <3>1. tool' # "document_read"
      BY <2>2, CallNames, VisionStep, ExtractStep DEF ExtractLeaves
    <3> QED
      BY <3>1 DEF ReadIs
  <2>3. CASE UNCHANGED vars
    BY <2>3 DEF vars, ReadIs
  <2> QED
    BY <2>1, <2>2, <2>3 DEF Next
<1> QED
  BY <1>1, <1>2, PTL DEF Spec

\* document_read keeps every paragraph and bullet of a document of any length, once, in order and under its
\* heading, and lists every table once, in order (reader.py:66-114); of the sections the last alone has a
\* table, the last of the document, whatever heading it stands under (reader.py:116-119).
THEOREM TextSurvivesReading == Spec => []TextIsKept
<1>1. ChainInv /\ ReadIs => TextIsKept
  <2> SUFFICES ASSUME ChainInv, ReadIs, tool = "document_read", result = "ok" PROVE TextIsKept
    BY DEF TextIsKept
  <2>1. FileFormed(file) /\ value = ReadDocx(file) /\ ReadOutput(ReadDocx(file))
    BY DEF ChainInv, FilesFormed, ReadIs
  <2>2. TextKept(file, value)
    BY <2>1, ReadKeepsText
  <2> QED
    BY <2>2 DEF TextIsKept, TextKept
<1> QED
  BY <1>1, ChainInvariant, ReadIsHolds, PTL

-----------------------------------------------------------------------------
(* What was written is read back: ReadBack. *)

Prefix(s, n) == [k \in 1..n |-> s[k]]

\* A prefix that is one longer is the one before with one item more.
LEMMA PrefixGrows ==
    ASSUME NEW S, NEW s \in Seq(S)
    PROVE  /\ Prefix(s, 0) = <<>> /\ Prefix(s, Len(s)) = s
           /\ \A n \in 0..Len(s) : Prefix(s, n) \in Seq(S) /\ Len(Prefix(s, n)) = n
           /\ \A n \in 0..(Len(s) - 1) : Prefix(s, n + 1) = Append(Prefix(s, n), s[n + 1])
<1>1. Prefix(s, 0) = <<>> /\ Prefix(s, Len(s)) = s
  BY DEF Prefix
<1>2. \A n \in 0..Len(s) : Prefix(s, n) \in Seq(S) /\ Len(Prefix(s, n)) = n
  <2> SUFFICES ASSUME NEW n \in 0..Len(s) PROVE Prefix(s, n) \in Seq(S) /\ Len(Prefix(s, n)) = n
    OBVIOUS
  <2>1. n \in Nat /\ \A k \in 1..n : s[k] \in S
    OBVIOUS
  <2> QED
    BY <2>1 DEF Prefix
<1>3. ASSUME NEW n \in 0..(Len(s) - 1) PROVE Prefix(s, n + 1) = Append(Prefix(s, n), s[n + 1])
  <2> DEFINE p == Prefix(s, n)
             x == s[n + 1]
             a == Append(p, x)
  <2>1. p \in Seq(S) /\ Len(p) = n /\ n \in Nat /\ x \in S /\ \A k \in 1..n : p[k] = s[k]
    BY <1>2 DEF Prefix
  <2> HIDE DEF p, x
  <2>2. a \in Seq(S) /\ Len(a) = n + 1 /\ a[n + 1] = x /\ \A k \in 1..n : a[k] = p[k]
    BY <2>1
  <2> HIDE DEF a
  <2>3. a = [k \in 1..(n + 1) |-> a[k]]
    BY <2>2
  <2>4. \A k \in 1..(n + 1) : a[k] = s[k]
    <3>1. \A k \in 1..(n + 1) : k = n + 1 \/ k \in 1..n
      BY <2>1
    <3> QED
      BY <2>1, <2>2, <3>1 DEF x
  <2>5. Prefix(s, n + 1) = a
    BY <2>3, <2>4 DEF Prefix
  <2> QED
    BY <2>5 DEF a, p, x
<1> QED
  BY <1>1, <1>2, <1>3

\* The sections after some blocks, from the sections before them.
Runs(g, c, blocks) == \A q \in 1..Len(blocks) : g[c + q] = Place(g[(c + q) - 1], blocks[q])

\* A text that is placed is added to the last section.
LEMMA AppendPlaced ==
    ASSUME NEW T, NEW L, 1 \in L, NEW sections \in Seq(Prose(T, L)), NEW s \in Prose(T, L), NEW block,
           block.style # "Heading", block.text \in T
    PROVE  Place(Append(sections, s), block) = Append(sections, Added(s, ListFor(block.style), block.text))
<1> DEFINE P == Prose(T, L)
           a == Append(sections, s)
           m == Len(sections)
           new == Added(s, ListFor(block.style), block.text)
           b == Append(sections, new)
<1>1. sections \in Seq(P) /\ s \in P
  OBVIOUS
<1>2. new \in P
  <2>1. ListFor(block.style) \in {"paragraphs", "bullets"}
    BY DEF ListFor
  <2> QED
    BY <2>1, AddedTyped
<1> HIDE DEF P, new
<1>3. m \in Nat /\ \A p \in 1..m : sections[p] \in P
  BY <1>1
<1>4. a \in Seq(P) /\ Len(a) = m + 1 /\ a[m + 1] = s /\ a # <<>> /\ \A p \in 1..m : a[p] = sections[p]
  BY <1>1
<1>5. b \in Seq(P) /\ Len(b) = m + 1 /\ b[m + 1] = new /\ \A p \in 1..m : b[p] = sections[p]
  BY <1>1, <1>2
<1> HIDE DEF a, b, m
<1>6. Place(a, block) = [a EXCEPT ![m + 1] = Added(a[m + 1], ListFor(block.style), block.text)]
  <2>1. Open(a) = a
    BY <1>4 DEF Open
  <2> QED
    BY <1>4, <2>1, PlaceText DEF P
<1>7. Place(a, block) = [a EXCEPT ![m + 1] = new]
  BY <1>4, <1>6 DEF new
<1>8. [a EXCEPT ![m + 1] = new] = b
  <2> DEFINE e == [a EXCEPT ![m + 1] = new]
  <2>1. DOMAIN a = 1..(m + 1) /\ DOMAIN b = 1..(m + 1)
    BY <1>4, <1>5
  <2>2. e = [p \in 1..(m + 1) |-> e[p]] /\ b = [p \in 1..(m + 1) |-> b[p]]
    <3>1. e = [p \in 1..(m + 1) |-> e[p]]
      BY <2>1
    <3>2. b = [p \in 1..(m + 1) |-> b[p]]
      BY <1>5
    <3> QED
      BY <3>1, <3>2
  <2>3. \A p \in 1..(m + 1) : e[p] = b[p]
    <3>1. \A p \in 1..(m + 1) : p = m + 1 \/ (p \in 1..m /\ p # m + 1)
      BY <1>3
    <3> QED
      BY <1>4, <1>5, <2>1, <3>1
  <2> HIDE DEF e
  <2> QED
    BY <2>2, <2>3 DEF e
<1> QED
  BY <1>7, <1>8 DEF a, b, new

TextSet(T) == {Text(x) : x \in T}
TextStyles == {"Body", "List Bullet"}

RunStarts(T, L, sections, s, texts, style, c, g) ==
    /\ sections \in Seq(Prose(T, L)) /\ s \in Prose(T, L) /\ s[ListFor(style)] = List(<<>>)
    /\ texts \in Seq(TextSet(T)) /\ style \in TextStyles
    /\ c \in Nat /\ g[c] = Append(sections, s) /\ Runs(g, c, Styled(style, List(texts)))

RunEnds(sections, s, texts, style, c, g) ==
    g[c + Len(texts)] = Append(sections, [s EXCEPT ![ListFor(style)] = List(texts)])

\* A run of paragraphs, or of bullets, is added to the last section in order.
LEMMA RunOfTexts ==
    ASSUME NEW T, NEW L, 1 \in L, NEW sections, NEW s, NEW texts, NEW style, NEW c, NEW g,
           RunStarts(T, L, sections, s, texts, style, c, g)
    PROVE  RunEnds(sections, s, texts, style, c, g)
<1> DEFINE N == Len(texts)
           list == ListFor(style)
           With(n) == [s EXCEPT ![list] = List(Prefix(texts, n))]
           Done == {n \in 0..N : g[c + n] = Append(sections, With(n))}
<1>0. /\ sections \in Seq(Prose(T, L)) /\ s \in Prose(T, L) /\ s[ListFor(style)] = List(<<>>)
      /\ texts \in Seq(TextSet(T)) /\ style \in TextStyles
      /\ c \in Nat /\ g[c] = Append(sections, s) /\ Runs(g, c, Styled(style, List(texts)))
  BY Zenon DEF RunStarts
<1>1. list \in {"paragraphs", "bullets"}
  BY DEF ListFor
<1>2. \A n \in 1..N : texts[n].val \in T /\ texts[n] = Text(texts[n].val)
  <2>1. \A w \in TextSet(T) : w.val \in T /\ w = Text(w.val)
    BY ScalarForms DEF TextSet
  <2>2. \A n \in 1..N : texts[n] \in TextSet(T)
    BY <1>0
  <2> QED
    BY <2>1, <2>2
<1>3. N \in Nat /\ DOMAIN texts = 1..N
  BY <1>0
<1>4. /\ Prefix(texts, 0) = <<>> /\ Prefix(texts, N) = texts
      /\ \A n \in 0..N : Prefix(texts, n) \in Seq(TextSet(T))
      /\ \A n \in 0..(N - 1) : Prefix(texts, n + 1) = Append(Prefix(texts, n), texts[n + 1])
  BY <1>0, PrefixGrows
<1> HIDE DEF N
<1>5. DOMAIN s = {"heading", "level", "paragraphs", "bullets"} /\ s = [key \in DOMAIN s |-> s[key]]
  BY <1>0, ProseFields DEF Prose
<1> HIDE DEF list
<1>6. \A q : [s EXCEPT ![list] = q] = [key \in DOMAIN s |-> IF key = list THEN q ELSE s[key]]
  BY <1>1, <1>5
<1>7. \A n \in 0..N : With(n) \in Prose(T, L)
  <2> SUFFICES ASSUME NEW n \in 0..N PROVE With(n) \in Prose(T, L)
    OBVIOUS
  <2>1. List(Prefix(texts, n)) \in TextLists(T)
    BY <1>4 DEF TextLists, TextSet
  <2> DEFINE q == List(Prefix(texts, n))
  <2> HIDE DEF q
  <2>2. [s EXCEPT ![list] = q] \in Prose(T, L)
    BY <1>0, <1>1, <2>1 DEF Prose, q
  <2> QED
    BY <2>2 DEF q
<1>8. With(0) = s
  BY <1>0, <1>1, <1>4, <1>5, <1>6 DEF list
<1>9. 0 \in Done
  BY <1>0, <1>3, <1>8
<1>10. \A n \in 0..(N - 1) : n \in Done => n + 1 \in Done
  <2> SUFFICES ASSUME NEW n \in 0..(N - 1), g[c + n] = Append(sections, With(n)) PROVE n + 1 \in Done
    BY Zenon
  <2>1. n \in 0..N /\ n + 1 \in 0..N /\ n + 1 \in 1..N /\ (c + (n + 1)) - 1 = c + n
    BY <1>0, <1>3
  <2> DEFINE block == Styled(style, List(texts))[n + 1]
             was == With(n)
  <2>2. Len(Styled(style, List(texts))) = N /\ block = Block(style, 1, texts[n + 1].val)
    <3>1. List(texts).val = texts
      BY ScalarForms
    <3>2. Styled(style, List(texts)) = [i \in 1..N |-> Block(style, 1, texts[i].val)]
      BY <1>3, <3>1 DEF Styled
    <3> QED
      BY <1>3, <2>1, <3>2
  <2>3. block.style = style /\ block.text = texts[n + 1].val /\ style # "Heading"
    <3>1. style # "Heading"
      BY <1>0, Zenon DEF TextStyles
    <3> QED
      BY <2>2, <3>1 DEF Block
  <2>4. was \in Prose(T, L)
    BY <1>7, <2>1
  <2>5. g[c + (n + 1)] = Place(g[c + n], block)
    BY <1>0, <2>1, <2>2 DEF Runs
  <2> HIDE DEF block, was
  <2>6. Place(Append(sections, was), block) = Append(sections, Added(was, list, block.text))
    BY <1>0, <1>2, <2>1, <2>3, <2>4, AppendPlaced DEF list
  <2>7. Added(was, list, block.text) = With(n + 1)
    <3> DEFINE q == List(Prefix(texts, n))
               r == List(Prefix(texts, n + 1))
    <3>1. List(Append(q.val, Text(block.text))) = r
      <4>1. q.val = Prefix(texts, n)
        BY ScalarForms
      <4>2. Text(block.text) = texts[n + 1]
        BY <1>2, <2>1, <2>3
      <4>3. Prefix(texts, n + 1) = Append(Prefix(texts, n), texts[n + 1])
        BY <1>4
      <4> QED
        BY <4>1, <4>2, <4>3, Zenon
    <3>2. was = [s EXCEPT ![list] = q]
      BY DEF was
    <3> HIDE DEF q, r
    <3>3. was = [key \in DOMAIN s |-> IF key = list THEN q ELSE s[key]] /\ list \in DOMAIN s
      BY <1>1, <1>5, <1>6, <3>2
    <3>4. was[list] = q
      BY <3>3
    <3>5. Added(was, list, block.text) = [was EXCEPT ![list] = r]
      BY <3>1, <3>4 DEF Added
    <3>6. [was EXCEPT ![list] = r] = [key \in DOMAIN s |-> IF key = list THEN r ELSE s[key]]
      BY <3>3
    <3>7. [s EXCEPT ![list] = r] = [key \in DOMAIN s |-> IF key = list THEN r ELSE s[key]]
      BY <1>6
    <3> QED
      BY <3>5, <3>6, <3>7 DEF r
  <2>8. g[c + n] = Append(sections, was)
    BY DEF was
  <2> HIDE DEF With
  <2> QED
    BY <2>1, <2>5, <2>6, <2>7, <2>8
<1>11. \A n \in 0..N : n \in Done
  <2> HIDE DEF Done
  <2> QED
    BY <1>3, <1>9, <1>10, Induction
<1>12. N \in 0..N
  BY <1>3
<1> QED
  BY <1>4, <1>11, <1>12 DEF list, N, RunEnds

\* Placing two runs of blocks is placing the one and then the other.
LEMMA RunsConcat ==
    ASSUME NEW a, NEW b, IsSeq(a), IsSeq(b), NEW c \in Nat, NEW g, Runs(g, c, a \o b)
    PROVE  /\ Len(a) \in Nat /\ Len(b) \in Nat /\ Len(a \o b) = Len(a) + Len(b)
           /\ Runs(g, c, a) /\ Runs(g, c + Len(a), b)
<1>1. PICK S : a \in Seq(S) /\ b \in Seq(S)
  <2> DEFINE A == {a[i] : i \in DOMAIN a}
             B == {b[i] : i \in DOMAIN b}
             S == A \cup B
  <2>1. a \in Seq(A) /\ b \in Seq(B)
    BY DEF IsSeq
  <2> HIDE DEF A, B
  <2>2. a \in Seq(S) /\ b \in Seq(S)
    BY <2>1
  <2> QED
    BY <2>2, Zenon
<1>2. Len(a) \in Nat /\ Len(b) \in Nat /\ Len(a \o b) = Len(a) + Len(b)
  BY <1>1
<1>3. \A q \in 1..Len(a) : (a \o b)[q] = a[q]
  BY <1>1
<1>4. \A q \in 1..Len(b) : (a \o b)[Len(a) + q] = b[q]
  BY <1>1
<1> DEFINE m == Len(a)
           n == Len(b)
           j == a \o b
<1>5. m \in Nat /\ n \in Nat /\ Len(j) = m + n
  BY <1>2
<1>6. \A q \in 1..(m + n) : g[c + q] = Place(g[(c + q) - 1], j[q])
  BY <1>5 DEF Runs
<1>7. (\A q \in 1..m : j[q] = a[q]) /\ (\A q \in 1..n : j[m + q] = b[q])
  BY <1>3, <1>4
<1> HIDE DEF m, n, j
<1>8. \A q \in 1..m : g[c + q] = Place(g[(c + q) - 1], a[q])
  BY <1>5, <1>6, <1>7
<1>9. ASSUME NEW q \in 1..n PROVE g[(c + m) + q] = Place(g[((c + m) + q) - 1], b[q])
  <2>1. m + q \in 1..(m + n) /\ c + (m + q) = (c + m) + q
    BY <1>5
  <2>2. g[c + (m + q)] = Place(g[(c + (m + q)) - 1], j[m + q])
    BY <1>6, <2>1
  <2> QED
    BY <1>7, <2>1, <2>2
<1> QED
  BY <1>2, <1>8, <1>9 DEF Runs, m, n

\* The level of a heading that a person may have written.
LEMMA LevelIsKept ==
    ASSUME NEW level \in 1..9
    PROVE  Min({level, 9}) = level
<1>1. level \in {level, 9} /\ \A y \in {level, 9} : level <= y
  OBVIOUS
<1>2. \A x \in {level, 9} : (\A y \in {level, 9} : x <= y) => x = level
  OBVIOUS
<1>3. Min({level, 9}) \in {level, 9} /\ \A y \in {level, 9} : Min({level, 9}) <= y
  BY <1>1, Zenon DEF Min
<1> QED
  BY <1>2, <1>3, Zenon

\* What a section reads as, without its table.
Back(s) == [heading |-> Get(s, "heading"), level |-> Get(s, "level"),
            paragraphs |-> Get(s, "paragraphs"), bullets |-> Get(s, "bullets")]

\* A section whose texts and level are known.
SaidIn(s, T, L) ==
    /\ Get(s, "heading").val \in T /\ Get(s, "level").val \in L
    /\ Get(s, "paragraphs").val \in Seq(TextSet(T)) /\ Get(s, "bullets").val \in Seq(TextSet(T))

Bulleted == "List Bullet"

\* Replacing one list of a section.
LEMMA ProseWith ==
    ASSUME NEW T, NEW L, NEW s \in Prose(T, L), NEW list \in {"paragraphs", "bullets"}, NEW q \in TextLists(T)
    PROVE  /\ [s EXCEPT ![list] = q] \in Prose(T, L) /\ [s EXCEPT ![list] = q][list] = q
           /\ \A key \in {"heading", "level", "paragraphs", "bullets"} \ {list} : [s EXCEPT ![list] = q][key] = s[key]
<1>1. DOMAIN s = {"heading", "level", "paragraphs", "bullets"}
  BY ProseFields
<1>2. [s EXCEPT ![list] = q] \in Prose(T, L)
  BY DEF Prose
<1> QED
  BY <1>1, <1>2

\* The blocks of one section, placed after some sections, add exactly this section (docx_writer.py:35-40,
\* reader.py:76-103).
LEMMA RunOfSection ==
    ASSUME NEW T, NEW L, 1 \in L, NEW sections \in Seq(Prose(T, L)),
           NEW s, FormedSection(s), GenerateSection(s), SaidIn(s, T, L), Get(s, "heading").val # Blank,
           NEW c \in Nat, NEW g, g[c] = sections, Runs(g, c, DocxBlocks(s))
    PROVE  Back(s) \in Prose(T, L) /\ g[c + Len(DocxBlocks(s))] = Append(sections, Back(s))
<1> DEFINE heading == Get(s, "heading").val
           level == Get(s, "level").val
           par == Get(s, "paragraphs").val
           bul == Get(s, "bullets").val
           top == <<Block("Heading", level, heading)>>
           body == Styled("Body", List(par))
           items == Styled(Bulleted, List(bul))
           s0 == Section(Text(heading), level, <<>>, <<>>)
           s1 == [s0 EXCEPT !["paragraphs"] = List(par)]
           s2 == [s1 EXCEPT !["bullets"] = List(bul)]
<1>1. /\ Flat(Get(s, "paragraphs")) /\ Texts(Get(s, "paragraphs"))
      /\ Flat(Get(s, "bullets")) /\ Texts(Get(s, "bullets"))
      /\ Scalar(Get(s, "heading")) /\ Str(Get(s, "heading")) /\ Scalar(Get(s, "level")) /\ GenerateLevel(Get(s, "level"))
  BY GenerateFields, FormedFields
<1>2. Get(s, "paragraphs") = List(par) /\ Get(s, "bullets") = List(bul)
  BY <1>1, TextsListed
<1>3. Get(s, "heading") = Text(heading) /\ Get(s, "level") = Num(level) /\ level \in 1..9
  BY <1>1, ScalarForms DEF Scalar, Str, GenerateLevel, Bounded
<1>4. DocxBlocks(s) = (top \o body) \o items
  <2>1. Heading(s, 9) = top
    BY <1>3, LevelIsKept DEF Heading
  <2> QED
    BY <1>2, <2>1, Zenon DEF DocxBlocks, Bulleted
<1>5. "Body" \in TextStyles /\ Bulleted \in TextStyles /\ ListFor("Body") = "paragraphs" /\ ListFor(Bulleted) = "bullets"
  BY Zenon DEF TextStyles, Bulleted, ListFor
<1>6. IsSeq(top) /\ IsSeq(body) /\ IsSeq(items) /\ Len(top) = 1 /\ Len(body) = Len(par) /\ Len(items) = Len(bul)
  <2>1. "Body" \in Styles /\ Bulleted \in Styles
    BY Zenon DEF Styles, Bulleted
  <2>2. IsSeq(body) /\ IsSeq(items)
    BY <1>1, <1>2, <2>1, StyledBlocks DEF Styling
  <2>3. Len(par) \in Nat /\ DOMAIN par = 1..Len(par) /\ Len(bul) \in Nat /\ DOMAIN bul = 1..Len(bul)
    BY <1>1, TextsListed
  <2>4. \A style, q : Len(q) \in Nat /\ DOMAIN q = 1..Len(q) => Len(Styled(style, List(q))) = Len(q)
    BY ScalarForms DEF Styled
  <2>5. IsSeq(top) /\ Len(top) = 1
    BY ShortLists
  <2> QED
    BY <2>2, <2>3, <2>4, <2>5, Zenon
<1>7. heading \in T /\ level \in L /\ par \in Seq(TextSet(T)) /\ bul \in Seq(TextSet(T))
  BY DEF SaidIn
<1>8. s0 \in Prose(T, L) /\ s0["paragraphs"] = List(<<>>) /\ s0["bullets"] = List(<<>>)
      /\ s0["heading"] = Text(heading) /\ s0["level"] = Num(level)
  BY <1>7, SectionTyped DEF Section
<1>9. List(par) \in TextLists(T) /\ List(bul) \in TextLists(T)
  BY <1>7 DEF TextLists, TextSet
<1> HIDE DEF heading, level, par, bul, top, body, items
<1>10. Place(sections, Block("Heading", level, heading)) = Append(sections, s0)
  BY DEF Place, Block
<1> HIDE DEF s0
<1>11. /\ s1 \in Prose(T, L) /\ s1["bullets"] = List(<<>>) /\ s1["paragraphs"] = List(par)
       /\ s1["heading"] = Text(heading) /\ s1["level"] = Num(level)
  <2> DEFINE q == List(par)
             e == List(<<>>)
  <2> HIDE DEF q, e
  <2>1. q \in TextLists(T) /\ s0["bullets"] = e
    BY <1>8, <1>9 DEF q, e
  <2>2. /\ [s0 EXCEPT !["paragraphs"] = q] \in Prose(T, L) /\ [s0 EXCEPT !["paragraphs"] = q]["paragraphs"] = q
        /\ \A key \in {"heading", "level", "paragraphs", "bullets"} \ {"paragraphs"} :
                [s0 EXCEPT !["paragraphs"] = q][key] = s0[key]
    BY <1>8, <2>1, ProseWith
  <2> QED
    BY <1>8, <2>1, <2>2 DEF q, e
<1> HIDE DEF s1
<1>12. /\ s2 \in Prose(T, L) /\ s2["bullets"] = List(bul) /\ s2["paragraphs"] = List(par)
       /\ s2["heading"] = Text(heading) /\ s2["level"] = Num(level)
  <2> DEFINE q == List(bul)
             p == List(par)
  <2> HIDE DEF q, p
  <2>1. q \in TextLists(T) /\ s1["paragraphs"] = p
    BY <1>9, <1>11 DEF q, p
  <2>2. /\ [s1 EXCEPT !["bullets"] = q] \in Prose(T, L) /\ [s1 EXCEPT !["bullets"] = q]["bullets"] = q
        /\ \A key \in {"heading", "level", "paragraphs", "bullets"} \ {"bullets"} :
                [s1 EXCEPT !["bullets"] = q][key] = s1[key]
    BY <1>11, <2>1, ProseWith
  <2> QED
    BY <1>11, <2>1, <2>2 DEF q, p
<1> HIDE DEF s2
<1>13. s2 = Back(s)
  <2>1. s2 = [heading |-> s2["heading"], level |-> s2["level"], paragraphs |-> s2["paragraphs"], bullets |-> s2["bullets"]]
    BY <1>12 DEF Prose
  <2> QED
    BY <1>2, <1>3, <1>12, <2>1, Zenon DEF Back
<1>14. IsSeq(top \o body)
  BY <1>6, ConcatIsSeq
<1>15. /\ Runs(g, c, top \o body) /\ Runs(g, c + Len(top \o body), items)
       /\ Len((top \o body) \o items) = Len(top \o body) + Len(items)
  <2> DEFINE front == top \o body
  <2>1. IsSeq(front) /\ Runs(g, c, front \o items)
    BY <1>4, <1>14
  <2> HIDE DEF front
  <2>2. Runs(g, c, front) /\ Runs(g, c + Len(front), items) /\ Len(front \o items) = Len(front) + Len(items)
    BY <1>6, <2>1, RunsConcat
  <2> QED
    BY <2>2 DEF front
<1>16. Runs(g, c, top) /\ Runs(g, c + Len(top), body) /\ Len(top \o body) = Len(top) + Len(body)
  BY <1>6, <1>15, RunsConcat
<1>17. g[c + 1] = Append(sections, s0)
  <2>1. 1 \in 1..Len(top) /\ (c + 1) - 1 = c /\ top[1] = Block("Heading", level, heading)
    BY <1>6 DEF top
  <2> QED
    BY <1>10, <1>16, <2>1 DEF Runs
<1>18. g[(c + 1) + Len(par)] = Append(sections, s1)
  <2>1. c + 1 \in Nat /\ Runs(g, c + 1, Styled("Body", List(par))) /\ s0[ListFor("Body")] = List(<<>>)
    BY <1>5, <1>6, <1>8, <1>16 DEF body
  <2> HIDE DEF s1, s2
  <2>2. RunStarts(T, L, sections, s0, par, "Body", c + 1, g)
    BY <1>5, <1>7, <1>8, <1>17, <2>1, Zenon DEF RunStarts
  <2>3. RunEnds(sections, s0, par, "Body", c + 1, g)
    BY <2>2, RunOfTexts, Zenon
  <2> QED
    BY <1>5, <2>3 DEF s1, RunEnds
<1>19. g[((c + 1) + Len(par)) + Len(bul)] = Append(sections, s2)
  <2>0. Len(par) \in Nat /\ Len(bul) \in Nat
    BY <1>7
  <2>1. /\ (c + 1) + Len(par) \in Nat /\ Runs(g, (c + 1) + Len(par), Styled(Bulleted, List(bul)))
        /\ s1[ListFor(Bulleted)] = List(<<>>)
    <3>1. c + Len(top \o body) = (c + 1) + Len(par)
      BY <1>6, <1>16, <2>0
    <3> QED
      BY <1>5, <1>11, <1>15, <2>0, <3>1 DEF items
  <2> HIDE DEF s1, s2
  <2>2. RunStarts(T, L, sections, s1, bul, Bulleted, (c + 1) + Len(par), g)
    BY <1>5, <1>7, <1>11, <1>18, <2>1, Zenon DEF RunStarts
  <2>3. RunEnds(sections, s1, bul, Bulleted, (c + 1) + Len(par), g)
    BY <2>2, RunOfTexts, Zenon
  <2> QED
    BY <1>5, <2>3 DEF s2, RunEnds
<1>20. c + Len(DocxBlocks(s)) = ((c + 1) + Len(par)) + Len(bul)
  <2>1. Len(par) \in Nat /\ Len(bul) \in Nat
    BY <1>7
  <2> QED
    BY <1>4, <1>6, <1>15, <1>16, <2>1
<1> QED
  BY <1>12, <1>13, <1>19, <1>20

-----------------------------------------------------------------------------
(* A document of several sections: where the blocks of each stand. *)

\* Sequences of whatever they hold are sequences over one set.
LEMMA SeqsTyped ==
    ASSUME NEW ss, NEW n \in Nat, ss = [i \in 1..n |-> ss[i]], \A i \in 1..n : IsSeq(ss[i])
    PROVE  \E S : ss \in Seq(Seq(S)) /\ Len(ss) = n
<1> DEFINE S == UNION {{ss[i][j] : j \in DOMAIN ss[i]} : i \in 1..n}
           Q == Seq(S)
<1>1. \A i \in 1..n : ss[i] \in Q
  <2> SUFFICES ASSUME NEW i \in 1..n PROVE ss[i] \in Q
    OBVIOUS
  <2> DEFINE T == {ss[i][j] : j \in DOMAIN ss[i]}
  <2>1. ss[i] \in Seq(T)
    BY DEF IsSeq
  <2>2. T \subseteq S
    OBVIOUS
  <2> HIDE DEF T, S
  <2> QED
    BY <2>1, <2>2
<1> HIDE DEF Q
<1>2. ss \in Seq(Q) /\ Len(ss) = n
  BY <1>1
<1> HIDE DEF S
<1>3. ss \in Seq(Seq(S)) /\ Len(ss) = n
  BY <1>2 DEF Q
<1> QED
  BY <1>3, Zenon

\* at[k] is where the first k of ss end in the sequence s that they are joined to.
StandAt(at, ss, n, s) ==
    /\ at[0] = 0 /\ at[n] = Len(s)
    /\ \A k \in 0..n : at[k] \in Nat
    /\ \A k \in 1..n : at[k] = at[k - 1] + Len(ss[k])
    /\ \A i, k \in 0..n : i <= k => at[i] <= at[k]
    /\ \A k \in 1..n : \A q \in 1..Len(ss[k]) : at[k - 1] + q \in 1..Len(s) /\ s[at[k - 1] + q] = ss[k][q]

\* Joined keeps every sequence in one piece, in order.
LEMMA JoinedStandAt ==
    ASSUME NEW ss, NEW n \in Nat, ss = [i \in 1..n |-> ss[i]], \A i \in 1..n : IsSeq(ss[i])
    PROVE  IsSeq(Joined(ss)) /\ Len(Joined(ss)) \in Nat /\ \E at : StandAt(at, ss, n, Joined(ss))
<1>1. PICK S : ss \in Seq(Seq(S)) /\ Len(ss) = n
  BY SeqsTyped
<1>2. PICK g \in [0..n -> Seq(S)] : Joined(ss) = g[n] /\ JoinSteps(g, ss)
  BY <1>1, JoinedUnfolds
<1>3. \A k \in 1..n : ss[k] \in Seq(S)
  <2> DEFINE Q == Seq(S)
  <2>1. ss \in Seq(Q)
    BY <1>1
  <2> HIDE DEF Q
  <2>2. \A k \in 1..n : ss[k] \in Q
    BY <1>1, <2>1
  <2> QED
    BY <2>2 DEF Q
<1>4. \A k \in 1..n : k - 1 \in 0..n /\ k \in 0..n
  OBVIOUS
<1>5. \A k \in 0..n : g[k] \in Seq(S) /\ Len(g[k]) \in Nat
  BY <1>2
<1>6. g[0] = <<>> /\ \A k \in 1..n : g[k] = g[k - 1] \o ss[k]
  BY <1>1, <1>2 DEF JoinSteps
<1>7. \A k \in 1..n : /\ Len(ss[k]) \in Nat /\ Len(g[k]) = Len(g[k - 1]) + Len(ss[k])
                      /\ \A p \in 1..Len(g[k - 1]) : g[k][p] = g[k - 1][p]
                      /\ \A q \in 1..Len(ss[k]) : g[k][Len(g[k - 1]) + q] = ss[k][q]
  <2> SUFFICES ASSUME NEW k \in 1..n
               PROVE  /\ Len(ss[k]) \in Nat /\ Len(g[k]) = Len(g[k - 1]) + Len(ss[k])
                      /\ \A p \in 1..Len(g[k - 1]) : g[k][p] = g[k - 1][p]
                      /\ \A q \in 1..Len(ss[k]) : g[k][Len(g[k - 1]) + q] = ss[k][q]
    OBVIOUS
  <2> DEFINE a == g[k - 1]
             b == ss[k]
  <2>1. a \in Seq(S) /\ b \in Seq(S) /\ g[k] = a \o b
    BY <1>3, <1>4, <1>5, <1>6
  <2> HIDE DEF a, b
  <2>2. Len(b) \in Nat /\ Len(a \o b) = Len(a) + Len(b) /\ (\A p \in 1..Len(a) : (a \o b)[p] = a[p])
        /\ \A q \in 1..Len(b) : (a \o b)[Len(a) + q] = b[q]
    BY <2>1
  <2> QED
    BY <2>1, <2>2, Zenon DEF a, b
<1> DEFINE at == [k \in 0..n |-> Len(g[k])]
           Stands == {k \in 0..n :
                        /\ \A i \in 0..k : at[i] <= at[k]
                        /\ \A i \in 1..k : \A q \in 1..Len(ss[i]) :
                                at[i - 1] + q \in 1..at[k] /\ g[k][at[i - 1] + q] = ss[i][q]}
<1>8. \A k \in 0..n : at[k] = Len(g[k]) /\ at[k] \in Nat
  BY <1>5
<1>9. at[0] = 0
  BY <1>6, <1>8
<1>10. \A k \in 1..n : /\ at[k] = at[k - 1] + Len(ss[k])
                       /\ \A p \in 1..at[k - 1] : g[k][p] = g[k - 1][p]
                       /\ \A q \in 1..Len(ss[k]) : g[k][at[k - 1] + q] = ss[k][q]
  <2> HIDE DEF at
  <2> SUFFICES ASSUME NEW k \in 1..n
               PROVE  /\ at[k] = at[k - 1] + Len(ss[k])
                      /\ \A p \in 1..at[k - 1] : g[k][p] = g[k - 1][p]
                      /\ \A q \in 1..Len(ss[k]) : g[k][at[k - 1] + q] = ss[k][q]
    OBVIOUS
  <2>1. at[k] = Len(g[k]) /\ at[k - 1] = Len(g[k - 1])
    BY <1>4, <1>8
  <2> QED
    BY <1>7, <2>1, Zenon
<1> HIDE DEF at
<1>11. 0 \in Stands
  BY <1>9
<1>12. \A k \in 0..(n - 1) : k \in Stands => k + 1 \in Stands
  <2> SUFFICES ASSUME NEW k \in 0..(n - 1), k \in Stands PROVE k + 1 \in Stands
    OBVIOUS
  <2>1. k + 1 \in 1..n /\ k \in 0..n /\ k + 1 \in 0..n /\ (k + 1) - 1 = k /\ k \in Nat
    OBVIOUS
  <2>2. /\ at[k + 1] = at[k] + Len(ss[k + 1]) /\ Len(ss[k + 1]) \in Nat
        /\ \A p \in 1..at[k] : g[k + 1][p] = g[k][p]
        /\ \A q \in 1..Len(ss[k + 1]) : g[k + 1][at[k] + q] = ss[k + 1][q]
    BY <1>7, <1>10, <2>1
  <2>3. at[k] \in Nat /\ at[k + 1] \in Nat
    BY <1>8, <2>1
  <2>4. ASSUME NEW i \in 0..(k + 1) PROVE at[i] <= at[k + 1]
    <3>1. CASE i = k + 1
      BY <2>3, <3>1
    <3>2. CASE i # k + 1
      <4>1. i \in 0..k /\ i \in 0..n
        BY <2>1, <3>2
      <4>2. at[i] <= at[k] /\ at[i] \in Nat
        BY <1>8, <4>1
      <4> QED
        BY <2>2, <2>3, <4>2
    <3> QED
      BY <3>1, <3>2
  <2>5. ASSUME NEW i \in 1..(k + 1), NEW q \in 1..Len(ss[i])
        PROVE at[i - 1] + q \in 1..at[k + 1] /\ g[k + 1][at[i - 1] + q] = ss[i][q]
    <3>1. CASE i = k + 1
      <4>1. at[i - 1] = at[k] /\ q \in 1..Len(ss[k + 1]) /\ q \in Nat
        BY <2>1, <2>2, <3>1
      <4>2. at[k] + q \in 1..at[k + 1] /\ g[k + 1][at[k] + q] = ss[k + 1][q]
        <5> DEFINE l == Len(ss[k + 1])
                   a == at[k]
                   b == at[k + 1]
        <5>1. b = a + l /\ l \in Nat /\ a \in Nat /\ q \in 1..l
          BY <2>2, <2>3, <4>1
        <5> HIDE DEF l, a, b
        <5>2. a + q \in 1..b
          BY <5>1
        <5> QED
          BY <2>2, <4>1, <5>2 DEF a, b
      <4> QED
        BY <3>1, <4>1, <4>2
    <3>2. CASE i # k + 1
      <4>1. i \in 1..k
        BY <2>1, <3>2
      <4>2. at[i - 1] + q \in 1..at[k] /\ g[k][at[i - 1] + q] = ss[i][q]
        BY <4>1
      <4> DEFINE p == at[i - 1] + q
      <4> HIDE DEF p
      <4>3. p \in 1..at[k] /\ g[k][p] = ss[i][q]
        BY <4>2 DEF p
      <4>4. p \in 1..at[k + 1] /\ g[k + 1][p] = g[k][p]
        BY <2>2, <2>3, <4>3
      <4> QED
        BY <4>3, <4>4 DEF p
    <3> QED
      BY <3>1, <3>2
  <2> QED
    BY <2>1, <2>4, <2>5
<1>13. \A k \in 0..n : k \in Stands
  <2> HIDE DEF Stands
  <2> QED
    BY <1>11, <1>12, Induction
<1>14. n \in Stands /\ n \in 0..n
  <2>1. n \in 0..n
    OBVIOUS
  <2> HIDE DEF Stands
  <2> QED
    BY <1>13, <2>1
<1>15. \A i, k \in 0..n : i <= k => at[i] <= at[k]
  <2>1. \A i, k \in 0..n : i <= k => i \in 0..k
    OBVIOUS
  <2> QED
    BY <1>13, <2>1
<1>16. at[n] = Len(Joined(ss))
  BY <1>2, <1>8, <1>14
<1>17. StandAt(at, ss, n, Joined(ss))
  <2>1. \A k \in 1..n : \A q \in 1..Len(ss[k]) : at[k - 1] + q \in 1..at[n] /\ g[n][at[k - 1] + q] = ss[k][q]
    BY <1>14
  <2> HIDE DEF Stands
  <2>2. \A k \in 1..n : at[k] = at[k - 1] + Len(ss[k])
    BY <1>10
  <2>3. \A k \in 1..n : \A q \in 1..Len(ss[k]) :
            at[k - 1] + q \in 1..Len(Joined(ss)) /\ Joined(ss)[at[k - 1] + q] = ss[k][q]
    BY <1>2, <1>16, <2>1, Zenon
  <2> QED
    BY <1>8, <1>9, <1>15, <1>16, <2>2, <2>3, Zenon DEF StandAt
<1>18. IsSeq(Joined(ss)) /\ Len(Joined(ss)) \in Nat
  <2>1. Joined(ss) \in Seq(S)
    BY <1>2, <1>5, <1>14
  <2> QED
    BY <2>1, SeqOfSome
<1> QED
  BY <1>17, <1>18, Zenon

-----------------------------------------------------------------------------
(* The document that was written, block by block. *)

\* A block that is no title and has one of these texts and levels.
Kept(T, L, block) ==
    /\ block = Block(block.style, block.level, block.text)
    /\ block.style # "Title" /\ block.text \in T /\ block.level \in L

AllKept(T, L, blocks) == IsSeq(blocks) /\ \A p \in DOMAIN blocks : Kept(T, L, blocks[p])

\* The blocks written for a section whose texts are not blank are kept by document_read.
LEMMA KeptConcat ==
    ASSUME NEW T, NEW L, NEW s, NEW t, AllKept(T, L, s), AllKept(T, L, t)
    PROVE  AllKept(T, L, s \o t)
<1>1. IsSeq(s) /\ IsSeq(t)
  BY DEF AllKept
<1>2. IsSeq(s \o t)
  BY <1>1, ConcatIsSeq
<1>3. FromEither(s \o t, s, t)
  BY <1>1, ConcatIsSeq
<1> QED
  BY <1>2, <1>3, Zenon DEF AllKept, FromEither

LEMMA KeptStyled ==
    ASSUME NEW T, NEW L, 1 \in L, NEW texts \in Seq(TextSet(T)), NEW style \in TextStyles
    PROVE  AllKept(T, L, Styled(style, List(texts)))
<1> DEFINE n == Len(texts)
           s == [i \in 1..n |-> Block(style, 1, texts[i].val)]
<1>1. n \in Nat /\ DOMAIN texts = 1..n
  OBVIOUS
<1> HIDE DEF n
<1>2. Styled(style, List(texts)) = s
  BY <1>1, ScalarForms DEF Styled
<1>3. style # "Title"
  BY Zenon DEF TextStyles
<1>4. \A i \in 1..n : texts[i].val \in T
  <2>1. \A w \in TextSet(T) : w.val \in T
    BY ScalarForms DEF TextSet
  <2>2. \A i \in 1..n : texts[i] \in TextSet(T)
    BY <1>1
  <2> QED
    BY <2>1, <2>2
<1>5. \A i \in 1..n : Kept(T, L, s[i])
  BY <1>3, <1>4 DEF Kept, Block
<1>6. DOMAIN s = 1..n /\ s = [i \in 1..n |-> s[i]]
  OBVIOUS
<1> HIDE DEF s
<1>7. IsSeq(s)
  BY <1>1, <1>6, MapIsSeq
<1> QED
  BY <1>2, <1>5, <1>6, <1>7 DEF AllKept

LEMMA KeptSection ==
    ASSUME NEW T, NEW L, 1 \in L, NEW s, FormedSection(s), GenerateSection(s), SaidIn(s, T, L), Get(s, "heading").val # Blank
    PROVE  AllKept(T, L, DocxBlocks(s)) /\ Back(s) \in Prose(T, L)
<1> DEFINE heading == Get(s, "heading").val
           level == Get(s, "level").val
           par == Get(s, "paragraphs").val
           bul == Get(s, "bullets").val
           top == <<Block("Heading", level, heading)>>
           body == Styled("Body", List(par))
           items == Styled(Bulleted, List(bul))
<1>1. /\ Flat(Get(s, "paragraphs")) /\ Texts(Get(s, "paragraphs"))
      /\ Flat(Get(s, "bullets")) /\ Texts(Get(s, "bullets"))
      /\ Scalar(Get(s, "heading")) /\ Str(Get(s, "heading")) /\ Scalar(Get(s, "level")) /\ GenerateLevel(Get(s, "level"))
  BY GenerateFields, FormedFields
<1>2. Get(s, "paragraphs") = List(par) /\ Get(s, "bullets") = List(bul)
  BY <1>1, TextsListed
<1>3. Get(s, "heading") = Text(heading) /\ Get(s, "level") = Num(level) /\ level \in 1..9
  BY <1>1, ScalarForms DEF Scalar, Str, GenerateLevel, Bounded
<1>4. DocxBlocks(s) = (top \o body) \o items
  <2>1. Heading(s, 9) = top
    BY <1>3, LevelIsKept DEF Heading
  <2> QED
    BY <1>2, <2>1, Zenon DEF DocxBlocks, Bulleted
<1>5. "Body" \in TextStyles /\ Bulleted \in TextStyles
  BY Zenon DEF TextStyles, Bulleted
<1>6. heading \in T /\ level \in L /\ par \in Seq(TextSet(T)) /\ bul \in Seq(TextSet(T))
  BY DEF SaidIn
<1>7. List(par) \in TextLists(T) /\ List(bul) \in TextLists(T)
  BY <1>6 DEF TextLists, TextSet
<1> HIDE DEF heading, level, par, bul
<1>8. AllKept(T, L, top)
  <2>1. Kept(T, L, Block("Heading", level, heading))
    BY <1>6 DEF Kept, Block
  <2>2. IsSeq(top)
    BY ShortLists
  <2>3. \A p \in DOMAIN top : top[p] = Block("Heading", level, heading)
    OBVIOUS
  <2> QED
    BY <2>1, <2>2, <2>3, Zenon DEF AllKept
<1>9. AllKept(T, L, body) /\ AllKept(T, L, items)
  BY <1>5, <1>6, KeptStyled
<1>10. Back(s) \in Prose(T, L)
  <2> DEFINE p == List(par)
             b == List(bul)
             h == Text(heading)
             l == Num(level)
  <2>1. p \in TextLists(T) /\ b \in TextLists(T) /\ h \in {Text(x) : x \in T} /\ l \in {Num(x) : x \in L}
    BY <1>6, <1>7
  <2>2. Back(s) = [heading |-> h, level |-> l, paragraphs |-> p, bullets |-> b]
    BY <1>2, <1>3 DEF Back
  <2> HIDE DEF p, b, h, l
  <2> QED
    BY <2>1, <2>2 DEF Prose
<1> HIDE DEF top, body, items
<1> QED
  BY <1>4, <1>8, <1>9, <1>10, KeptConcat

\* The body of a document that is a title and these blocks.
LEMMA BodyAfterTitle ==
    ASSUME NEW T, NEW L, \A x \in T : Bare(x), NEW rest, AllKept(T, L, rest), NEW title, title.style = "Title"
    PROVE  LET blocks == <<title>> \o rest IN TitleAt(blocks) = 1 /\ blocks[1] = title /\ Body(blocks) = rest
<1> DEFINE blocks == <<title>> \o rest
           N == Len(rest)
<1>1. PICK S : rest \in Seq(S)
  BY SeqIsTyped DEF AllKept
<1>2. /\ N \in Nat /\ DOMAIN rest = 1..N /\ Len(blocks) = N + 1 /\ DOMAIN blocks = 1..(N + 1) /\ blocks[1] = title
      /\ \A i \in 2..(N + 1) : blocks[i] = rest[i - 1]
      /\ blocks \in Seq(S \cup {title})
  <2> DEFINE V == S \cup {title}
  <2>1. <<title>> \in Seq(V) /\ rest \in Seq(V)
    BY <1>1
  <2> HIDE DEF V
  <2> QED
    BY <2>1 DEF V
<1>3. \A i \in 2..(N + 1) : blocks[i].style # "Title" /\ blocks[i].text # Blank /\ Trimmed(blocks[i]) = blocks[i]
  <2> HIDE DEF blocks
  <2>1. \A i \in 2..(N + 1) : i - 1 \in 1..N
    BY <1>2
  <2>2. \A p \in 1..N : rest[p].style # "Title" /\ rest[p].text # Blank /\ Trimmed(rest[p]) = rest[p]
    <3> SUFFICES ASSUME NEW p \in 1..N
                 PROVE  rest[p].style # "Title" /\ rest[p].text # Blank /\ Trimmed(rest[p]) = rest[p]
      OBVIOUS
    <3>1. Kept(T, L, rest[p])
      BY <1>2 DEF AllKept
    <3>2. Bare(rest[p].text)
      BY <3>1 DEF Kept
    <3>3. Strip(rest[p].text) = rest[p].text /\ rest[p].text # Blank
      BY <3>2, Zenon DEF Bare
    <3> QED
      BY <3>1, <3>3, Zenon DEF Kept, Trimmed
  <2> QED
    BY <1>2, <2>1, <2>2
<1> HIDE DEF blocks, N
<1>4. TitleAt(blocks) = 1
  <2>1. \A i \in 1..(N + 1) : i = 1 \/ i \in 2..(N + 1)
    BY <1>2
  <2>2. {i \in DOMAIN blocks : blocks[i].style = "Title"} = {1}
    BY <1>2, <1>3, <2>1
  <2>3. Min({1}) = 1
    BY LeastIsMember
  <2> QED
    BY <2>2, <2>3 DEF TitleAt
<1> DEFINE trimmed == [i \in DOMAIN blocks |-> Trimmed(blocks[i])]
           at == {i \in DOMAIN blocks : i # TitleAt(blocks) /\ trimmed[i].text # Blank}
           b == Body(blocks)
<1>13. /\ DOMAIN trimmed = 1..(N + 1) /\ trimmed = [i \in 1..(N + 1) |-> trimmed[i]]
       /\ \A i \in 2..(N + 1) : trimmed[i] = blocks[i]
  <2>1. \A i \in 2..(N + 1) : i \in 1..(N + 1)
    BY <1>2
  <2> QED
    BY <1>2, <1>3, <2>1
<1>14. PICK V : trimmed \in Seq(V)
  <2> HIDE DEF trimmed
  <2>1. IsSeq(trimmed)
    BY <1>2, <1>13, MapIsSeq
  <2> QED
    BY <2>1, SeqIsTyped
<1>15. b = Picked(trimmed, at)
  BY DEF Body
<1> HIDE DEF trimmed
<1>5. at = 2..(N + 1)
  <2>1. \A i \in 1..(N + 1) : i # 1 <=> i \in 2..(N + 1)
    BY <1>2
  <2>2. ASSUME NEW i \in 2..(N + 1) PROVE trimmed[i].text # Blank /\ i \in DOMAIN blocks
    <3>1. trimmed[i] = blocks[i] /\ blocks[i].text # Blank
      BY <1>3, <1>13
    <3>2. i \in 1..(N + 1)
      BY <1>2
    <3>3. trimmed[i].text # Blank
      BY <3>1, Zenon
    <3> QED
      BY <1>2, <3>2, <3>3
  <2> QED
    BY <1>2, <1>4, <2>1, <2>2
<1> HIDE DEF at, b
<1>7. b \in Seq(V) /\ InOrder(b, trimmed, at)
  <2>1. at \subseteq DOMAIN trimmed
    BY <1>2, <1>5, <1>13
  <2> QED
    BY <1>14, <1>15, <2>1, PickedInOrder
<1>8. Cardinality(at) = N
  BY <1>2, <1>5, FS_Interval
<1>9. \A i \in 2..(N + 1) : Rank(at, i) = i - 1
  <2> SUFFICES ASSUME NEW i \in 2..(N + 1) PROVE Rank(at, i) = i - 1
    OBVIOUS
  <2>1. {j \in at : j <= i} = 2..i
    BY <1>2, <1>5
  <2>2. Cardinality(2..i) = i - 1
    <3>1. i \in Int /\ 2 \in Int /\ ~(2 > i) /\ (i - 2) + 1 = i - 1
      BY <1>2
    <3> QED
      BY <3>1, FS_Interval
  <2> QED
    BY <2>1, <2>2, Zenon DEF Rank
<1>10. Len(b) = N /\ \A i \in 2..(N + 1) : b[i - 1] = blocks[i]
  BY <1>5, <1>7, <1>8, <1>9, <1>13 DEF InOrder, Rank
<1>11. \A p \in 1..N : b[p] = rest[p]
  <2> SUFFICES ASSUME NEW p \in 1..N PROVE b[p] = rest[p]
    OBVIOUS
  <2>1. p + 1 \in 2..(N + 1) /\ (p + 1) - 1 = p
    BY <1>2
  <2> QED
    BY <1>2, <1>10, <2>1
<1>12. b = rest
  <2>1. b = [p \in 1..N |-> b[p]]
    BY <1>7, <1>10
  <2>2. rest = [p \in 1..N |-> rest[p]]
    BY <1>1 DEF N
  <2> QED
    BY <1>11, <2>1, <2>2
<1> QED
  BY <1>2, <1>4, <1>12 DEF b, blocks

\* A section that is written with a heading, and its texts and level.
Plain(s, T, L) == FormedSection(s) /\ GenerateSection(s) /\ SaidIn(s, T, L) /\ Get(s, "heading").val # Blank

\* What was written for some sections is read as those sections.
LEMMA PlacedIsGiven ==
    ASSUME NEW T, NEW L, 1 \in L, NEW given, NEW n \in Nat, DOMAIN given = 1..n, \A i \in 1..n : Plain(given[i], T, L)
    PROVE  LET written == [i \in 1..n |-> DocxBlocks(given[i])]
               expect == [i \in 1..n |-> Back(given[i])]
           IN  AllKept(T, L, Joined(written)) /\ Placed(Joined(written)) = expect /\ expect \in Seq(Prose(T, L))
<1> DEFINE written == [i \in 1..n |-> DocxBlocks(given[i])]
           expect == [i \in 1..n |-> Back(given[i])]
           J == Joined(written)
           P == Prose(T, L)
<1>1. \A i \in 1..n : AllKept(T, L, DocxBlocks(given[i])) /\ Back(given[i]) \in P
  BY KeptSection DEF Plain
<1>2. written = [i \in 1..n |-> written[i]] /\ \A i \in 1..n : written[i] = DocxBlocks(given[i]) /\ AllKept(T, L, written[i])
  BY <1>1
<1>3. expect \in Seq(P) /\ Len(expect) = n /\ \A i \in 1..n : expect[i] = Back(given[i])
  <2> HIDE DEF P
  <2> QED
    BY <1>1
<1> HIDE DEF written, expect, J
<1>4. \A i \in 1..n : IsSeq(written[i])
  BY <1>2 DEF AllKept
<1>5. AllKept(T, L, J)
  <2>1. IsSeq(J) /\ \A p \in DOMAIN J : \E i \in 1..n : \E j \in DOMAIN written[i] : J[p] = written[i][j]
    BY <1>2, <1>4, JoinedIsSeq DEF J
  <2> QED
    BY <1>2, <2>1, Zenon DEF AllKept
<1>6. PICK at : StandAt(at, written, n, J)
  BY <1>2, <1>4, JoinedStandAt DEF J
<1>7. Len(J) \in Nat /\ DOMAIN J = 1..Len(J)
  <2>1. PICK S : J \in Seq(S)
    BY <1>5, SeqIsTyped DEF AllKept
  <2> QED
    BY <2>1
<1>8. PICK g : g \in [0..Len(J) -> Seq(P)] /\ Placed(J) = g[Len(J)] /\ PlaceSteps(g, J)
  <2>1. \A p \in 1..Len(J) : J[p].text \in T /\ J[p].level \in L
    BY <1>5, <1>7, Zenon DEF AllKept, Kept
  <2> QED
    BY <1>7, <2>1, PlacedUnfolds
<1>9. \A k \in 1..n : Runs(g, at[k - 1], written[k])
  <2> SUFFICES ASSUME NEW k \in 1..n, NEW q \in 1..Len(written[k])
               PROVE  g[at[k - 1] + q] = Place(g[(at[k - 1] + q) - 1], written[k][q])
    BY DEF Runs
  <2>1. at[k - 1] + q \in 1..Len(J) /\ J[at[k - 1] + q] = written[k][q]
    BY <1>6 DEF StandAt
  <2> QED
    BY <1>8, <2>1, Zenon DEF PlaceSteps
<1>10. /\ Prefix(expect, 0) = <<>> /\ Prefix(expect, n) = expect
       /\ \A k \in 0..n : Prefix(expect, k) \in Seq(P)
       /\ \A k \in 0..(n - 1) : Prefix(expect, k + 1) = Append(Prefix(expect, k), expect[k + 1])
  <2> HIDE DEF P
  <2> QED
    BY <1>3, PrefixGrows
<1> DEFINE Done == {k \in 0..n : g[at[k]] = Prefix(expect, k)}
<1>11. 0 \in Done
  BY <1>6, <1>8, <1>10 DEF StandAt, PlaceSteps
<1>12. \A k \in 0..(n - 1) : k \in Done => k + 1 \in Done
  <2> SUFFICES ASSUME NEW k \in 0..(n - 1), g[at[k]] = Prefix(expect, k) PROVE g[at[k + 1]] = Prefix(expect, k + 1)
    OBVIOUS
  <2>1. k \in 0..n /\ k + 1 \in 1..n /\ (k + 1) - 1 = k
    OBVIOUS
  <2> DEFINE s == given[k + 1]
             c == at[k]
             sections == Prefix(expect, k)
  <2>2. c \in Nat /\ at[k + 1] = c + Len(DocxBlocks(s))
    BY <1>2, <1>6, <2>1 DEF StandAt
  <2>3. Runs(g, c, DocxBlocks(s))
    <3>1. Runs(g, at[(k + 1) - 1], written[k + 1]) /\ written[k + 1] = DocxBlocks(given[k + 1])
      BY <1>2, <1>9, <2>1
    <3> QED
      BY <2>1, <3>1
  <2>4. FormedSection(s) /\ GenerateSection(s) /\ SaidIn(s, T, L) /\ Get(s, "heading").val # Blank
    BY <2>1 DEF Plain
  <2>5. sections \in Seq(Prose(T, L)) /\ g[c] = sections
    BY <1>10, <2>1
  <2>6. Prefix(expect, k + 1) = Append(sections, Back(s))
    BY <1>3, <1>10, <2>1
  <2> HIDE DEF s, c, sections
  <2>7. g[c + Len(DocxBlocks(s))] = Append(sections, Back(s))
    BY <2>2, <2>3, <2>4, <2>5, RunOfSection
  <2> QED
    BY <2>2, <2>6, <2>7
<1>13. \A k \in 0..n : k \in Done
  <2> HIDE DEF Done
  <2> QED
    BY <1>11, <1>12, Induction
<1>14. g[at[n]] = expect /\ at[n] = Len(J)
  BY <1>6, <1>10, <1>13 DEF StandAt
<1> QED
  BY <1>3, <1>5, <1>8, <1>14 DEF J, written, expect

\* If every section has a heading and every table stands under the last one, there is one table at most, that
\* of the last section.
LEMMA OnlyTheLast ==
    ASSUME NEW given, NEW n \in Nat, DOMAIN given = 1..n,
           \A i \in 1..n : FormedSection(given[i]) /\ GenerateSection(given[i]) /\ Get(given[i], "heading").val # Blank,
           NEW tables, tables = Joined([i \in 1..n |-> Standing(given, i)]),
           \A k \in DOMAIN tables : tables[k].under = n
    PROVE  /\ \A i \in 1..n : Grid(given[i]) # <<>> <=> (i = n /\ tables # <<>>)
           /\ tables # <<>> => tables[Len(tables)].cells = Grid(given[n])[1]
<1> DEFINE standing == [i \in 1..n |-> Standing(given, i)]
<1>1. ASSUME NEW i \in 1..n
      PROVE  /\ IsSeq(Standing(given, i)) /\ DOMAIN Standing(given, i) = DOMAIN Grid(given[i])
             /\ IsSeq(Grid(given[i])) /\ (Grid(given[i]) = <<>> \/ Len(Grid(given[i])) = 1)
             /\ \A j \in DOMAIN Grid(given[i]) :
                    Standing(given, i)[j].cells = Grid(given[i])[j] /\ Standing(given, i)[j].under = i
  <2>1. {k \in 1..i : Get(given[k], "heading").val # Blank} = 1..i
    <3>1. \A k \in 1..i : k \in 1..n
      OBVIOUS
    <3> QED
      BY <3>1
  <2>2. Cardinality(1..i) = i
    BY FS_Interval
  <2>3. FormedSection(given[i]) /\ GenerateSection(given[i])
    OBVIOUS
  <2>4. /\ IsSeq(Standing(given, i)) /\ DOMAIN Standing(given, i) = DOMAIN Grid(given[i])
        /\ \A j \in DOMAIN Grid(given[i]) :
            /\ Standing(given, i)[j].cells = Grid(given[i])[j]
            /\ Standing(given, i)[j].under = Cardinality({k \in 1..i : Get(given[k], "heading").val # Blank})
    BY <2>3, StandingFormed
  <2>5. IsSeq(Grid(given[i])) /\ (Grid(given[i]) = <<>> \/ Len(Grid(given[i])) = 1)
    BY <2>3, GridFormed
  <2> QED
    BY <2>1, <2>2, <2>4, <2>5, Zenon
<1>2. /\ standing = [i \in 1..n |-> standing[i]] /\ tables = Joined(standing)
      /\ \A i \in 1..n : standing[i] = Standing(given, i) /\ IsSeq(standing[i])
  BY <1>1
<1> HIDE DEF standing
<1>3. PICK at : StandAt(at, standing, n, tables)
  BY <1>2, JoinedStandAt
<1>4. IsSeq(tables) /\ Len(tables) \in Nat /\ DOMAIN tables = 1..Len(tables) /\ (tables = <<>> <=> Len(tables) = 0)
  <2>1. IsSeq(tables)
    BY <1>2, JoinedStandAt
  <2>2. PICK S : tables \in Seq(S)
    BY <2>1, SeqIsTyped
  <2> QED
    BY <2>1, <2>2
<1>5. ASSUME NEW i \in 1..n, Grid(given[i]) # <<>>
      PROVE  i = n /\ tables # <<>> /\ tables[Len(tables)].cells = Grid(given[i])[1]
  <2>1. Len(Grid(given[i])) = 1 /\ IsSeq(Grid(given[i]))
    BY <1>1, <1>5
  <2>2. DOMAIN Grid(given[i]) = 1..1
    <3>1. PICK S : Grid(given[i]) \in Seq(S)
      BY <2>1, SeqIsTyped
    <3> QED
      BY <2>1, <3>1
  <2>3. /\ standing[i] = Standing(given, i) /\ standing[i][1].cells = Grid(given[i])[1] /\ standing[i][1].under = i
        /\ DOMAIN standing[i] = 1..1
    BY <1>1, <1>2, <2>2
  <2>4. Len(standing[i]) = 1
    <3>1. PICK S : standing[i] \in Seq(S)
      BY <1>2, SeqIsTyped
    <3> QED
      BY <2>3, <3>1
  <2>5. at[i - 1] + 1 \in 1..Len(tables) /\ tables[at[i - 1] + 1] = standing[i][1] /\ at[i] = at[i - 1] + 1
    <3>1. 1 \in 1..Len(standing[i])
      BY <2>4
    <3> QED
      BY <1>3, <2>4, <3>1 DEF StandAt
  <2>6. i = n
    <3>1. tables[at[i - 1] + 1].under = n
      BY <1>4, <2>5
    <3> QED
      BY <2>3, <2>5, <3>1
  <2>7. at[i - 1] + 1 = Len(tables)
    BY <1>3, <2>5, <2>6 DEF StandAt
  <2>8. tables # <<>>
    BY <1>4, <2>5
  <2> QED
    BY <2>3, <2>5, <2>6, <2>7, <2>8
<1>6. ASSUME tables # <<>> PROVE n \in 1..n /\ Grid(given[n]) # <<>>
  <2>1. 1 \in DOMAIN tables
    BY <1>4, <1>6
  <2>2. PICK i \in 1..n : \E j \in DOMAIN standing[i] : tables[1] = standing[i][j]
    <3>1. \A p \in DOMAIN Joined(standing) : \E i \in 1..n : \E j \in DOMAIN standing[i] : Joined(standing)[p] = standing[i][j]
      BY <1>2, JoinedIsSeq
    <3> QED
      BY <1>2, <2>1, <3>1
  <2>3. DOMAIN Grid(given[i]) # {}
    BY <1>1, <1>2, <2>2
  <2>4. Grid(given[i]) # <<>>
    BY <2>3
  <2> QED
    BY <1>5, <2>4
<1> QED
  BY <1>5, <1>6

\* The texts of a section that is written.
SaidBy(s) ==
    {Get(s, "heading").val} \cup {Get(s, "paragraphs").val[j].val : j \in DOMAIN Get(s, "paragraphs").val}
                            \cup {Get(s, "bullets").val[j].val : j \in DOMAIN Get(s, "bullets").val}

\* None of them is blank or has white space around it.
AllBare(s) ==
    /\ Bare(Get(s, "heading").val)
    /\ \A key \in {"paragraphs", "bullets"} : \A j \in DOMAIN Get(s, key).val : Bare(Get(s, key).val[j].val)

\* A section without blank texts is plain, over the texts it says.
LEMMA SaidIsPlain ==
    ASSUME NEW s, FormedSection(s), GenerateSection(s), AllBare(s), NEW T, SaidBy(s) \subseteq T
    PROVE  Plain(s, T, 1..9) /\ \A y \in SaidBy(s) : Bare(y)
<1>1. /\ Flat(Get(s, "paragraphs")) /\ Texts(Get(s, "paragraphs"))
      /\ Flat(Get(s, "bullets")) /\ Texts(Get(s, "bullets"))
      /\ GenerateLevel(Get(s, "level"))
  BY GenerateFields
<1>2. ASSUME NEW v, Flat(v), Texts(v), \A j \in DOMAIN v.val : v.val[j].val \in T
      PROVE  v.val \in Seq(TextSet(T))
  <2>1. /\ IsSeq(v.val) /\ \A j \in DOMAIN v.val : Scalar(v.val[j]) /\ Str(v.val[j])
        /\ Len(v.val) \in Nat /\ DOMAIN v.val = 1..Len(v.val)
    BY <1>2, TextsListed
  <2>2. \A j \in DOMAIN v.val : v.val[j] = Text(v.val[j].val)
    BY <2>1, ScalarForms DEF Scalar, Str
  <2>3. \A j \in DOMAIN v.val : v.val[j] \in TextSet(T)
    BY <1>2, <2>2 DEF TextSet
  <2>4. PICK S : v.val \in Seq(S)
    BY <2>1, SeqIsTyped
  <2> DEFINE q == v.val
             W == TextSet(T)
  <2>5. q \in Seq(S) /\ \A j \in DOMAIN q : q[j] \in W
    BY <2>3, <2>4
  <2> HIDE DEF q, W
  <2>6. q \in Seq(W)
    BY <2>5
  <2> QED
    BY <2>6 DEF q, W
<1>3. /\ \A j \in DOMAIN Get(s, "paragraphs").val : Get(s, "paragraphs").val[j].val \in T
      /\ \A j \in DOMAIN Get(s, "bullets").val : Get(s, "bullets").val[j].val \in T
      /\ Get(s, "heading").val \in T
  BY DEF SaidBy
<1>4. Get(s, "paragraphs").val \in Seq(TextSet(T)) /\ Get(s, "bullets").val \in Seq(TextSet(T))
  BY <1>1, <1>2, <1>3
<1>5. SaidIn(s, T, 1..9)
  BY <1>1, <1>3, <1>4 DEF SaidIn, GenerateLevel, Bounded
<1>6. \A y \in SaidBy(s) : Bare(y)
  <2> DEFINE par == Get(s, "paragraphs").val
             bul == Get(s, "bullets").val
             x == Get(s, "heading").val
  <2>1. Bare(x) /\ (\A j \in DOMAIN par : Bare(par[j].val)) /\ \A j \in DOMAIN bul : Bare(bul[j].val)
    BY DEF AllBare
  <2>2. SaidBy(s) = {x} \cup {par[j].val : j \in DOMAIN par} \cup {bul[j].val : j \in DOMAIN bul}
    BY DEF SaidBy
  <2> HIDE DEF par, bul, x
  <2> QED
    BY <2>1, <2>2
<1> QED
  BY <1>5, <1>6 DEF Plain, AllBare, Bare

\* What a document says that document_generate_docx wrote without a byline.
LEMMA DocxIs ==
    ASSUME NEW args, Arguments(args), Get(args, "author").val = Blank
    PROVE  LET given == SectionsOf(args)
               f == Render("docx", args)
           IN  /\ f.blocks = <<Block("Title", 0, <<"report">>)>> \o Joined([i \in DOMAIN given |-> DocxBlocks(given[i])])
               /\ f.tables = Joined([i \in DOMAIN given |-> Standing(given, i)])
<1> DEFINE given == SectionsOf(args)
           title == Block("Title", 0, <<"report">>)
           front == <<Block("Title", 0, Get(args, "title").val)>> \o Line(Get(args, "subtitle")) \o Line(Get(args, "author"))
           texts == [i \in DOMAIN given |-> Blocks("docx", given[i])]
           written == [i \in DOMAIN given |-> DocxBlocks(given[i])]
           grids == [i \in DOMAIN given |-> Standing(given, i)]
<1>1. Render("docx", args) = [format |-> "docx", made |-> <<args>>, blocks |-> front \o Joined(texts), tables |-> Joined(grids)]
  BY DEF Render, Blocks
<1>2. Get(args, "title").val = <<"report">> /\ Get(args, "subtitle").val = Blank
  BY ArgumentSections, ScalarForms
<1>3. Line(Get(args, "subtitle")) = <<>> /\ Line(Get(args, "author")) = <<>>
  BY <1>2 DEF Line
<1>4. front = <<title>>
  <2>1. \A x : (<<x>> \o <<>>) \o <<>> = <<x>>
    OBVIOUS
  <2> QED
    BY <1>2, <1>3, <2>1, Zenon
<1>5. \A s : Blocks("docx", s) = DocxBlocks(s)
  BY DEF Blocks
<1>6. texts = written
  BY <1>5, Zenon
<1> HIDE DEF front, texts, written, grids, title
<1> QED
  BY <1>1, <1>4, <1>6 DEF title, written, grids

\* What ReadBack says of the call that wrote a document and of what is read of it.
WrittenPlainly(f, args) ==
    LET given == SectionsOf(args) IN
    /\ Get(args, "author").val = Blank
    /\ \A i \in DOMAIN given : AllBare(given[i])
    /\ \A k \in DOMAIN f.tables : f.tables[k].under = Len(given) /\ TableRead(f.tables[k].cells) = f.tables[k].cells

\* Each row has as many cells as there are headers.
EvenRows(s) ==
    LET table == Get(s, "table") IN
    \A r \in DOMAIN Get(table, "rows").val : Len(Get(table, "rows").val[r].val) = Len(Get(table, "headers").val)

ReadAsGiven(args, v) ==
    LET given == SectionsOf(args)
        got == SectionsOf(v)
    IN  /\ Get(v, "title") = Get(args, "title") /\ Len(got) = Len(given)
        /\ \A i \in DOMAIN given :
            /\ \A key \in {"heading", "level", "paragraphs", "bullets"} : Get(got[i], key) = Get(given[i], key)
            /\ Get(got[i], "table") = IF Grid(given[i]) = <<>> THEN Null ELSE Grid(given[i])[1]
            /\ Grid(given[i]) # <<>> /\ EvenRows(given[i]) =>
                \A key \in {"headers", "rows"} : Get(Get(got[i], "table"), key) = Get(Get(given[i], "table"), key)

\* A table whose rows have as many cells as it has headers is written as it was given.
LEMMA EvenIsKept ==
    ASSUME NEW s, FormedSection(s), GenerateSection(s), Grid(s) # <<>>, EvenRows(s)
    PROVE  \A key \in {"headers", "rows"} : Get(Grid(s)[1], key) = Get(Get(s, "table"), key)
<1> DEFINE table == Get(s, "table")
           headers == Get(table, "headers")
           rows == Get(table, "rows")
           width == Len(headers.val)
           Row(r) == List([i \in 1..width |-> IF i <= Len(r.val) THEN r.val[i] ELSE Text(Blank)])
           shown == Each(Row, rows.val)
           written == Dict([headers |-> headers, rows |-> shown])
<1>1. ~(table.type = "null" \/ width = 0) /\ Grid(s) = <<written>>
  BY DEF Grid
<1>2. FormedTable(table) /\ GenerateTable(table)
  BY <1>1, GenerateFields, ScalarForms
<1>3. /\ Flat(headers) /\ Nested(rows) /\ Texts(headers) /\ RowTexts(rows)
      /\ headers = table.val["headers"] /\ rows = table.val["rows"]
  BY <1>2 DEF FormedTable, GenerateTable, Property, Get
<1>4. width \in Nat
  BY <1>3, TextsListed
<1>5. ListOf(rows, Flat)
  BY <1>3, ScalarForms DEF Nested, Scalar, RowTexts, Array
<1>6. PICK n \in Nat : DOMAIN rows.val = 1..n
  BY <1>5, SeqIsTyped DEF ListOf
<1>7. \A i \in DOMAIN rows.val : Len(rows.val[i].val) = width
  BY Zenon DEF EvenRows
<1> HIDE DEF table, headers, rows, width
<1>8. ASSUME NEW i \in 1..n PROVE Row(rows.val[i]) = rows.val[i]
  <2> DEFINE r == rows.val[i]
             cells == [j \in 1..width |-> IF j <= Len(r.val) THEN r.val[j] ELSE Text(Blank)]
  <2>1. Flat(r) /\ Texts(r)
    BY <1>3, <1>5, <1>6 DEF ListOf, RowTexts, Array
  <2>2. Len(r.val) = width
    BY <1>6, <1>7
  <2>3. r = List(r.val) /\ IsSeq(r.val)
    BY <2>1, TextsListed
  <2> HIDE DEF r
  <2>4. PICK S : r.val \in Seq(S)
    BY <2>3, SeqIsTyped
  <2>5. r.val = [j \in 1..width |-> r.val[j]]
    BY <2>2, <2>4
  <2>6. cells = [j \in 1..width |-> r.val[j]]
    BY <1>4, <2>2
  <2>7. Row(r) = List(cells)
    OBVIOUS
  <2> HIDE DEF cells
  <2>8. List(cells) = r
    BY <2>3, <2>5, <2>6, Zenon
  <2> QED
    BY <2>7, <2>8 DEF r
<1> DEFINE lines == [i \in DOMAIN rows.val |-> Row(rows.val[i])]
<1>9. shown = List(lines)
  BY Zenon DEF Each
<1>10. rows = List(rows.val) /\ IsSeq(rows.val)
  BY <1>5 DEF ListOf
<1>11. rows.val = [i \in 1..n |-> rows.val[i]]
  <2>1. PICK S : rows.val \in Seq(S)
    BY <1>10, SeqIsTyped
  <2> QED
    BY <1>6, <2>1
<1>12. lines = rows.val
  <2>1. lines = [i \in 1..n |-> lines[i]] /\ \A i \in 1..n : lines[i] = rows.val[i]
    BY <1>6, <1>8
  <2> HIDE DEF lines
  <2> QED
    BY <1>11, <2>1
<1>13. shown = rows
  BY <1>9, <1>10, <1>12, Zenon
<1> HIDE DEF shown, lines
<1>14. Get(written, "headers") = headers /\ Get(written, "rows") = rows
  BY <1>13, GetField
<1> HIDE DEF written
<1>15. Grid(s)[1] = written
  BY <1>1
<1> QED
  BY <1>14, <1>15 DEF table, headers, rows

\* The sections of a document that was written plainly are the ones that were given.
LEMMA SectionsReadBack ==
    ASSUME NEW args, Arguments(args), NEW f, f = Render("docx", args), WrittenPlainly(f, args)
    PROVE  LET given == SectionsOf(args)
               sections == Attached(Placed(Body(f.blocks)), TablesRead(f.tables))
           IN  /\ TitleAt(f.blocks) = 1 /\ f.blocks[1].text = <<"report">>
               /\ Len(sections) = Len(given) /\ DOMAIN sections = DOMAIN given
               /\ \A p \in DOMAIN given :
                    /\ \A key \in {"heading", "level", "paragraphs", "bullets"} : sections[p][key] = Get(given[p], key)
                    /\ "table" \in DOMAIN sections[p] <=> Grid(given[p]) # <<>>
                    /\ Grid(given[p]) # <<>> => sections[p]["table"] = Grid(given[p])[1]
<1> DEFINE given == SectionsOf(args)
           n == Len(given)
           T == UNION {SaidBy(given[i]) : i \in 1..n}
           L == 1..9
           written == [i \in 1..n |-> DocxBlocks(given[i])]
           J == Joined(written)
           expect == [i \in 1..n |-> Back(given[i])]
           title == Block("Title", 0, <<"report">>)
           tables == TablesRead(f.tables)
<1>1. n \in Nat /\ DOMAIN given = 1..n /\ \A i \in 1..n : FormedSection(given[i]) /\ GenerateSection(given[i])
  BY ArgumentSections
<1>2. Get(args, "author").val = Blank /\ \A i \in 1..n : AllBare(given[i])
  BY <1>1 DEF WrittenPlainly
<1>3. \A k \in DOMAIN f.tables : f.tables[k].under = n /\ TableRead(f.tables[k].cells) = f.tables[k].cells
  BY DEF WrittenPlainly
<1>4. f.blocks = <<title>> \o J /\ f.tables = Joined([i \in 1..n |-> Standing(given, i)])
  BY <1>1, <1>2, DocxIs
<1>20. FileFormed(f)
  BY RenderFormed
<1>5. /\ IsSeq(tables) /\ \A i \in DOMAIN tables : FileTable(tables[i])
      /\ Len(tables) = Len(f.tables) /\ DOMAIN tables = DOMAIN f.tables /\ (tables = <<>> <=> f.tables = <<>>)
      /\ \A k \in DOMAIN f.tables : tables[k] = f.tables[k].cells
  BY <1>3, <1>20, TablesReadAre
<1>21. f.tables # <<>> => Len(f.tables) \in DOMAIN f.tables
  <2>1. PICK S : f.tables \in Seq(S)
    BY <1>20, SeqIsTyped DEF FileFormed
  <2> QED
    BY <2>1
<1> HIDE DEF tables
<1> HIDE DEF given, n
<1>6. \A i \in 1..n : SaidBy(given[i]) \subseteq T
  OBVIOUS
<1>7. \A i \in 1..n : Plain(given[i], T, L) /\ \A y \in SaidBy(given[i]) : Bare(y)
  <2> HIDE DEF T
  <2> QED
    BY <1>1, <1>2, <1>6, SaidIsPlain
<1>8. \A x \in T : Bare(x)
  BY <1>7
<1> HIDE DEF T, L
<1>9. 1 \in L
  BY DEF L
<1>10. AllKept(T, L, J) /\ Placed(J) = expect /\ expect \in Seq(Prose(T, L))
  BY <1>1, <1>7, <1>9, PlacedIsGiven
<1>11. TitleAt(f.blocks) = 1 /\ f.blocks[1] = title /\ Body(f.blocks) = J
  <2>1. title.style = "Title"
    BY DEF Block
  <2> HIDE DEF title, J
  <2> QED
    <3>1. AllKept(T, L, J)
      BY <1>10
    <3>2. TitleAt(<<title>> \o J) = 1 /\ (<<title>> \o J)[1] = title /\ Body(<<title>> \o J) = J
      BY <1>8, <2>1, <3>1, BodyAfterTitle
    <3> QED
      BY <1>4, <3>2, Zenon
<1>12. title.text = <<"report">>
  BY DEF Block
<1> DEFINE sections == Attached(Placed(Body(f.blocks)), TablesRead(f.tables))
<1>13. sections = Attached(expect, tables)
  BY <1>10, <1>11 DEF tables
<1>14. Len(expect) = n /\ \A i \in 1..n : expect[i] = Back(given[i])
  BY <1>1, MapIsSeq
<1>15. /\ \A i \in 1..n : Grid(given[i]) # <<>> <=> (i = n /\ f.tables # <<>>)
       /\ f.tables # <<>> => f.tables[Len(f.tables)].cells = Grid(given[n])[1]
  <2> DEFINE stands == f.tables
  <2>1. stands = Joined([i \in 1..n |-> Standing(given, i)]) /\ \A k \in DOMAIN stands : stands[k].under = n
    BY <1>3, <1>4
  <2>2. \A i \in 1..n : Get(given[i], "heading").val # Blank
    BY <1>7 DEF Plain
  <2> HIDE DEF stands
  <2>3. /\ \A i \in 1..n : Grid(given[i]) # <<>> <=> (i = n /\ stands # <<>>)
        /\ stands # <<>> => stands[Len(stands)].cells = Grid(given[n])[1]
    BY <1>1, <2>1, <2>2, OnlyTheLast
  <2> QED
    BY <2>3 DEF stands
<1> HIDE DEF title, J, expect, sections
<1>16. /\ Len(sections) = n /\ DOMAIN sections = 1..n
       /\ \A p \in 1..n : \A key \in {"heading", "level", "paragraphs", "bullets"} : sections[p][key] = expect[p][key]
       /\ LastHasTable(sections, tables)
  <2>1. CASE n = 0
    <3>1. expect = <<>>
      BY <1>10, <1>14, <2>1
    <3>2. f.tables = <<>>
      <4> DEFINE standing == [i \in 1..n |-> Standing(given, i)]
      <4>1. \A i \in 1..n : IsSeq(standing[i])
        BY <2>1
      <4>2. standing = [i \in 1..n |-> standing[i]] /\ f.tables = Joined(standing)
        BY <1>4
      <4> HIDE DEF standing
      <4>3. PICK at : StandAt(at, standing, n, f.tables)
        BY <1>1, <4>1, <4>2, JoinedStandAt
      <4>4. Len(f.tables) = 0
        BY <2>1, <4>3 DEF StandAt
      <4>5. PICK S : f.tables \in Seq(S)
        BY <1>20, SeqIsTyped DEF FileFormed
      <4> QED
        BY <4>4, <4>5
    <3>3. sections = <<>>
      BY <1>5, <1>13, <3>1, <3>2 DEF Attached
    <3> QED
      BY <2>1, <3>3 DEF LastHasTable
  <2>2. CASE n # 0
    <3>1. expect # <<>>
      BY <1>1, <1>14, <2>2
    <3> QED
      BY <1>5, <1>10, <1>13, <1>14, <3>1, AttachedKeeps
  <2> QED
    BY <2>1, <2>2
<1>17. \A p \in 1..n : \A key \in {"heading", "level", "paragraphs", "bullets"} : expect[p][key] = Get(given[p], key)
  BY <1>14 DEF Back
<1>18. TitleAt(f.blocks) = 1 /\ f.blocks[1].text = <<"report">>
  BY <1>11, <1>12
<1>19. Len(sections) = n /\ DOMAIN sections = 1..n /\ \A p \in 1..n :
        /\ \A key \in {"heading", "level", "paragraphs", "bullets"} : sections[p][key] = Get(given[p], key)
        /\ "table" \in DOMAIN sections[p] <=> Grid(given[p]) # <<>>
        /\ Grid(given[p]) # <<>> => sections[p]["table"] = Grid(given[p])[1]
  <2> HIDE DEF sections, expect
  <2> SUFFICES ASSUME NEW p \in 1..n
               PROVE  /\ \A key \in {"heading", "level", "paragraphs", "bullets"} : sections[p][key] = Get(given[p], key)
                      /\ "table" \in DOMAIN sections[p] <=> Grid(given[p]) # <<>>
                      /\ Grid(given[p]) # <<>> => sections[p]["table"] = Grid(given[p])[1]
    BY <1>16
  <2>1. \A key \in {"heading", "level", "paragraphs", "bullets"} : sections[p][key] = Get(given[p], key)
    BY <1>16, <1>17
  <2>2. "table" \in DOMAIN sections[p] <=> (p = n /\ tables # <<>>)
    BY <1>16 DEF LastHasTable
  <2>3. "table" \in DOMAIN sections[p] <=> Grid(given[p]) # <<>>
    BY <1>5, <1>15, <2>2
  <2>4. ASSUME Grid(given[p]) # <<>> PROVE sections[p]["table"] = Grid(given[p])[1]
    <3>1. p = n /\ f.tables # <<>> /\ "table" \in DOMAIN sections[p]
      BY <1>15, <2>3, <2>4
    <3>2. sections[p]["table"] = tables[Len(tables)]
      BY <1>16, <3>1 DEF LastHasTable
    <3>3. tables[Len(tables)] = f.tables[Len(f.tables)].cells
      BY <1>5, <1>21, <3>1
    <3> QED
      BY <1>15, <3>1, <3>2, <3>3
  <2> QED
    BY <2>1, <2>3, <2>4
<1> QED
  BY <1>1, <1>18, <1>19, Zenon DEF given, n, sections

\* The title that is read.
LEMMA ReadTitleIs ==
    ASSUME NEW f, TitleAt(f.blocks) = 1
    PROVE  Get(ReadDocx(f), "title") = Text(Strip(f.blocks[1].text))
<1> DEFINE x == Strip(f.blocks[1].text)
           sections == Attached(Placed(Body(f.blocks)), TablesRead(f.tables))
           s == List([i \in DOMAIN sections |-> Dict(sections[i])])
           t == List(TablesRead(f.tables))
<1>1. ReadDocx(f) = Dict([title |-> Text(x), sections |-> s, tables |-> t])
  BY DEF ReadDocx
<1> HIDE DEF x, s, t
<1>2. Get(ReadDocx(f), "title") = Text(x)
  BY <1>1, ScalarForms DEF Get
<1> QED
  BY <1>2 DEF x

\* A document whose sections all have a heading is read without invalid_output (reader.py:149).
LEMMA ReadFits ==
    ASSUME NEW f, FileFormed(f),
           LET sections == Attached(Placed(Body(f.blocks)), TablesRead(f.tables))
           IN  \A p \in DOMAIN sections : sections[p]["heading"] # Null
    PROVE  ReadOutput(ReadDocx(f))
<1> DEFINE v == ReadDocx(f)
           sections == Attached(Placed(Body(f.blocks)), TablesRead(f.tables))
           listed == [i \in DOMAIN sections |-> Dict(sections[i])]
<1>1. /\ v = Dict(v.val) /\ DOMAIN v.val = {"title", "sections", "tables"} /\ v.val["sections"] = List(listed)
      /\ v.val["tables"] = List(TablesRead(f.tables)) /\ \E x : v.val["title"] = Text(x)
      /\ \A i \in DOMAIN sections : ReadForm(sections[i])
  BY ReadDocxForm
<1>2. \A p \in DOMAIN sections : ReadSection(Dict(sections[p]))
  <2>1. \A p \in DOMAIN sections : sections[p]["heading"] # Null
    OBVIOUS
  <2> HIDE DEF sections
  <2> QED
    BY <1>1, <2>1 DEF ReadForm
<1> HIDE DEF v, sections
<1>3. ReadSections(List(listed))
  BY <1>2, ScalarForms DEF ReadSections, Array
<1>4. ReadTables(List(TablesRead(f.tables)))
  <2>1. \A i \in DOMAIN TablesRead(f.tables) : ReadTable(TablesRead(f.tables)[i])
    BY TablesReadAre, FileTableFits
  <2> QED
    BY <2>1, ScalarForms DEF ReadTables, Array
<1>5. Str(v.val["title"])
  BY <1>1, ScalarForms DEF Str
<1> HIDE DEF listed
<1>6. v.type = "object"
  BY <1>1, ScalarForms
<1>7. ReadOutput(v)
  BY <1>1, <1>3, <1>4, <1>5, <1>6 DEF ReadOutput, Obj, Property
<1> QED
  BY <1>7 DEF v

\* ReadBack of the call that wrote a document.
LEMMA WrittenIsReadBack ==
    ASSUME NEW args, Arguments(args), NEW f, f = Render("docx", args), WrittenPlainly(f, args)
    PROVE  ReadOutput(ReadDocx(f)) /\ ReadAsGiven(args, ReadDocx(f))
<1> DEFINE given == SectionsOf(args)
           sections == Attached(Placed(Body(f.blocks)), TablesRead(f.tables))
           v == ReadDocx(f)
           got == SectionsOf(v)
<1>1. FileFormed(f)
  BY RenderFormed
<1>2. /\ TitleAt(f.blocks) = 1 /\ f.blocks[1].text = <<"report">>
      /\ Len(sections) = Len(given) /\ DOMAIN sections = DOMAIN given
      /\ \A p \in DOMAIN given :
            /\ \A key \in {"heading", "level", "paragraphs", "bullets"} : sections[p][key] = Get(given[p], key)
            /\ "table" \in DOMAIN sections[p] <=> Grid(given[p]) # <<>>
            /\ Grid(given[p]) # <<>> => sections[p]["table"] = Grid(given[p])[1]
  BY SectionsReadBack
<1>3. /\ Len(got) = Len(sections) /\ DOMAIN got = DOMAIN sections
      /\ \A p \in DOMAIN sections : got[p] = Dict(sections[p]) /\ ReadForm(sections[p])
  BY <1>1, ReadSectionsAre
<1>4. Get(v, "title") = Get(args, "title")
  <2>1. Strip(<<"report">>) = <<"report">>
    <3>1. <<"report">>[1] = "report" /\ "report" # "space"
      OBVIOUS
    <3> QED
      BY <3>1 DEF Strip, Space
  <2> QED
    BY <1>2, <2>1, ReadTitleIs, ArgumentSections
<1>5. \A p \in DOMAIN given : Str(Get(given[p], "heading"))
  BY ArgumentSections, GenerateFields
<1>6. \A p \in DOMAIN sections : sections[p]["heading"] # Null
  <2> HIDE DEF given, sections
  <2>1. \A p \in DOMAIN sections : p \in DOMAIN given /\ sections[p]["heading"] = Get(given[p], "heading")
    BY <1>2
  <2> QED
    BY <1>5, <2>1, ScalarForms DEF Str
<1>7. ReadOutput(v)
  BY <1>1, <1>6, ReadFits
<1>10. \A p \in DOMAIN given : FormedSection(given[p]) /\ GenerateSection(given[p])
  BY ArgumentSections
<1> HIDE DEF v, given, sections, got
<1>8. ASSUME NEW p \in DOMAIN given
      PROVE  /\ \A key \in {"heading", "level", "paragraphs", "bullets"} : Get(got[p], key) = Get(given[p], key)
             /\ Get(got[p], "table") = IF Grid(given[p]) = <<>> THEN Null ELSE Grid(given[p])[1]
             /\ Grid(given[p]) # <<>> /\ EvenRows(given[p]) =>
                    \A key \in {"headers", "rows"} : Get(Get(got[p], "table"), key) = Get(Get(given[p], "table"), key)
  <2>1. got[p] = Dict(sections[p]) /\ ReadForm(sections[p])
    BY <1>2, <1>3
  <2>2. got[p].val = sections[p] /\ {"heading", "level", "paragraphs", "bullets"} \subseteq DOMAIN sections[p]
    BY <2>1, ScalarForms DEF ReadForm
  <2>3. \A key \in {"heading", "level", "paragraphs", "bullets"} : Get(got[p], key) = Get(given[p], key)
    BY <1>2, <2>2 DEF Get
  <2>4. CASE "table" \in DOMAIN sections[p]
    <3>1. Get(got[p], "table") = sections[p]["table"]
      BY <2>2, <2>4 DEF Get
    <3>2. Grid(given[p]) # <<>> /\ sections[p]["table"] = Grid(given[p])[1]
      BY <1>2, <2>4
    <3>3. EvenRows(given[p]) => \A key \in {"headers", "rows"} : Get(Grid(given[p])[1], key) = Get(Get(given[p], "table"), key)
      BY <1>10, <3>2, EvenIsKept
    <3> QED
      BY <2>3, <3>1, <3>2, <3>3
  <2>5. CASE "table" \notin DOMAIN sections[p]
    <3>1. Get(got[p], "table") = Null
      BY <2>2, <2>5 DEF Get
    <3> QED
      BY <1>2, <2>3, <2>5, <3>1
  <2> QED
    BY <2>4, <2>5
<1>9. ReadAsGiven(args, v)
  BY <1>2, <1>3, <1>4, <1>8 DEF ReadAsGiven, given, got
<1> QED
  BY <1>7, <1>9 DEF v

\* A document that document_generate_docx wrote without a byline, with any number of sections, each with a
\* heading, whose texts are not blank and have no white space around them, and with no table but one under the
\* last heading, is read back as it was given (docx_writer.py:15-49, reader.py:63-128), the table with its
\* rows cut or filled to the number of its headers, and unchanged if they have that many cells.
THEOREM WrittenComesBack == Spec => []ReadBack
<1>1. ChainInv /\ ReadIs => ReadBack
  <2> SUFFICES ASSUME ChainInv, ReadIs, tool = "document_read", file.made # <<>>, result \in {"ok", "invalid_output"},
                      WrittenPlainly(file, file.made[1])
               PROVE  result = "ok" /\ ReadAsGiven(file.made[1], value)
    BY Zenon DEF ReadBack, WrittenPlainly, AllBare, ReadAsGiven, EvenRows
  <2> DEFINE args == file.made[1]
  <2>1. PICK format \in {"docx", "pptx", "pdf"} : Arguments(args) /\ file = Render(format, args)
    BY DEF ChainInv, FilesFormed, Made
  <2>2. format = "docx"
    <3>1. Render(format, args).format = format
      BY DEF Render
    <3>2. file.format = "docx"
      BY DEF ReadIs
    <3> QED
      BY <2>1, <3>1, <3>2
  <2>3. ReadOutput(ReadDocx(file)) /\ ReadAsGiven(args, ReadDocx(file))
    BY <2>1, <2>2, WrittenIsReadBack
  <2> QED
    BY <2>3 DEF ReadIs
<1> QED
  BY <1>1, ChainInvariant, ReadIsHolds, PTL
=============================================================================
