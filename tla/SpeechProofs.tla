---------------------------- MODULE SpeechProofs ----------------------------
(***************************************************************************)
(* Proofs about Speech, for any texts, limits, voices and requests: what   *)
(* split_sentences makes of a text is the whole text, letter by letter and *)
(* in order, in groups within the limit; and an answer speaks all of its   *)
(* text, however often the engine runs out of memory.                      *)
(*                                                                         *)
(* A text is cut four times, into sentences, clauses, words and letters,   *)
(* and put together twice.  Each of these steps takes a run of pieces that *)
(* covers an interval to another one that covers the same (Run, Grouped).  *)
(***************************************************************************)
EXTENDS Speech, SequenceTheorems, FiniteSetTheorems, WellFoundedInduction, TLAPS

-----------------------------------------------------------------------------
(* Counting up, and recursion over the parts of 1..n.                      *)

LEMMA SmallestNumber ==
  ASSUME NEW S \in SUBSET Nat, S # {}
  PROVE  \E n \in S : \A m \in S : n <= m
<1>1. PICK n \in S : \A m \in S : ~(<<m, n>> \in OpToRel(<, Nat))
  BY NatLessThanWellFounded, WFMin
<1>2. \A m \in S : ~(m < n)
  BY <1>1 DEF OpToRel
<1> QED
  BY <1>2

LEMMA MinOf ==
  ASSUME NEW S \in SUBSET Nat, S # {}
  PROVE  Min(S) \in S /\ \A y \in S : Min(S) <= y
<1>1. \E x \in S : \A y \in S : x <= y
  BY SmallestNumber
<1> QED
  BY <1>1, Zenon DEF Min

LEMMA SameSequence ==
  ASSUME NEW S, NEW s \in Seq(S), NEW T, NEW t \in Seq(T), Len(s) = Len(t),
         \A k \in 1..Len(s) : s[k] = t[k]
  PROVE  s = t
<1>1. s = [k \in 1..Len(s) |-> s[k]] /\ t = [k \in 1..Len(t) |-> t[k]]
  <2>1. DOMAIN s = 1..Len(s) /\ DOMAIN t = 1..Len(t)
    OBVIOUS
  <2>2. s \in [1..Len(s) -> S] /\ t \in [1..Len(t) -> T]
    OBVIOUS
  <2> QED
    BY <2>2, Zenon
<1>2. [k \in 1..Len(s) |-> s[k]] = [k \in 1..Len(t) |-> t[k]]
  BY Zenon
<1> QED
  BY <1>1, <1>2, Zenon

\* What holds of m and passes from each number to the next holds up to n.
LEMMA Climb ==
  ASSUME NEW m \in Int, NEW n \in Int, NEW S, m \in S,
         \A k \in m..(n - 1) : k \in S => k + 1 \in S
  PROVE  m..n \subseteq S
<1> SUFFICES ASSUME NEW k \in m..n, k \notin S PROVE FALSE
  OBVIOUS
<1> DEFINE Bad == {d \in Nat : m + d <= n /\ m + d \notin S}
<1>1. k - m \in Bad
  OBVIOUS
<1>2. PICK d \in Bad : \A e \in Bad : d <= e
  BY <1>1, SmallestNumber
<1>3. d # 0
  BY <1>2
<1>4. d - 1 \notin Bad /\ d - 1 \in Nat
  BY <1>2, <1>3
<1>5. m + (d - 1) \in S
  BY <1>2, <1>4
<1>6. m + (d - 1) + 1 \in S
  BY <1>2, <1>3, <1>5
<1> QED
  BY <1>2, <1>6

LEMMA MaxUpTo ==
  ASSUME NEW k \in Nat \ {0}, NEW s \in SUBSET (1..k), k \in s
  PROVE  Max(s) = k
<1>1. \A y \in s : k >= y
  OBVIOUS
<1>2. \E x \in s : \A y \in s : x >= y
  BY <1>1
<1>3. Max(s) \in s /\ \A y \in s : Max(s) >= y
  BY <1>2, Zenon DEF Max
<1>4. \A x \in s : (\A y \in s : x >= y) => x = k
  OBVIOUS
<1> QED
  BY <1>3, <1>4, Zenon

LEMMA MaxOf ==
  ASSUME NEW k \in Nat, NEW s \in SUBSET (1..k), s # {}
  PROVE  Max(s) \in s /\ \A y \in s : Max(s) >= y
<1> DEFINE S == {d \in 0..k : k - d \in s}
<1>1. S \in SUBSET Nat /\ S # {}
  <2>1. PICK x \in s : TRUE
    OBVIOUS
  <2>2. k - x \in 0..k /\ k - (k - x) = x
    BY <2>1
  <2>3. k - x \in S
    BY <2>1, <2>2
  <2>4. S \in SUBSET Nat
    OBVIOUS
  <2> HIDE DEF S
  <2> QED
    BY <2>3, <2>4
<1>2. PICK d \in S : \A e \in S : d <= e
  BY <1>1, SmallestNumber
<1>3. k - d \in s /\ \A y \in s : k - d >= y
  <2>1. ASSUME NEW y \in s PROVE k - d >= y
    <3>1. k - y \in S
      OBVIOUS
    <3> QED
      BY <1>2, <3>1
  <2> QED
    BY <1>2, <2>1
<1> QED
  BY <1>3, Zenon DEF Max

\* `iter` folds the steps of any set of indices.
Folds(iter, n, base, step) ==
  iter = [s \in SUBSET (1..n) |-> IF s = {} THEN base ELSE step[Max(s)][iter[s \ {Max(s)}]]]

\* FoldLeft's recursion takes the greatest index off a set of indices.
LEMMA FoldExists ==
  ASSUME NEW n \in Nat, NEW A, NEW base \in A, NEW step,
         \A i \in 1..n : \A a \in A : step[i][a] \in A
  PROVE  \E iter \in [SUBSET (1..n) -> A] : Folds(iter, n, base, step)
<1> DEFINE Is(iter, k) ==
             iter = [s \in SUBSET (1..k) |->
                       IF s = {} THEN base ELSE step[Max(s)][iter[s \ {Max(s)}]]]
           Done == {k \in Nat : \E iter \in [SUBSET (1..k) -> A] : Is(iter, k)}
<1>1. 0 \in Done
  <2> DEFINE iter == [s \in SUBSET (1..0) |-> base]
  <2>1. SUBSET (1..0) = {{}}
    OBVIOUS
  <2>2. iter \in [SUBSET (1..0) -> A] /\ Is(iter, 0)
    BY <2>1
  <2> QED
    BY <2>2
<1>2. ASSUME NEW k \in 0..(n - 1), k \in Done PROVE k + 1 \in Done
  <2>1. PICK iter \in [SUBSET (1..k) -> A] : Is(iter, k)
    BY <1>2
  <2> DEFINE more == [s \in SUBSET (1..(k + 1)) |->
                        IF k + 1 \in s THEN step[k + 1][iter[s \ {k + 1}]] ELSE iter[s]]
  <2>2. \A s \in SUBSET (1..(k + 1)) : k + 1 \notin s => s \in SUBSET (1..k)
    OBVIOUS
  <2>3. \A s \in SUBSET (1..(k + 1)) : s \ {k + 1} \in SUBSET (1..k)
    OBVIOUS
  <2>4. more \in [SUBSET (1..(k + 1)) -> A]
    BY <2>2, <2>3
  <2>5. ASSUME NEW s \in SUBSET (1..(k + 1))
        PROVE  more[s] = IF s = {} THEN base ELSE step[Max(s)][more[s \ {Max(s)}]]
    <3>1. CASE k + 1 \in s
      <4>1. Max(s) = k + 1
        BY <3>1, MaxUpTo
      <4>2. more[s \ {k + 1}] = iter[s \ {k + 1}]
        BY <2>3
      <4> QED
        BY <3>1, <4>1, <4>2
    <3>2. CASE k + 1 \notin s
      <4>1. s \in SUBSET (1..k) /\ more[s] = iter[s]
        BY <2>2, <3>2
      <4>2. s \ {Max(s)} \in SUBSET (1..k)
        BY <4>1
      <4>3. more[s \ {Max(s)}] = iter[s \ {Max(s)}]
        BY <4>1, <4>2
      <4>4. iter[s] = IF s = {} THEN base ELSE step[Max(s)][iter[s \ {Max(s)}]]
        BY <2>1, <4>1
      <4> QED
        BY <4>1, <4>3, <4>4
    <3> QED
      BY <3>1, <3>2
  <2>6. Is(more, k + 1)
    BY <2>5
  <2> HIDE DEF more, Is
  <2>7. \E it \in [SUBSET (1..(k + 1)) -> A] : Is(it, k + 1)
    BY <2>4, <2>6, Zenon
  <2>8. k + 1 \in Nat
    OBVIOUS
  <2> QED
    BY <2>7, <2>8, Zenon
<1> HIDE DEF Done
<1>3. 0..n \subseteq Done
  BY <1>1, <1>2, Climb
<1>4. n \in Done
  BY <1>3
<1> QED
  BY <1>4 DEF Done, Folds

\* The recursion of a fold, met along the indices 1..k, takes one step after the other.
LEMMA FoldRises ==
  ASSUME NEW n \in Nat, NEW k \in 1..n
  PROVE  /\ Max(1..k) = k /\ (1..k) \ {k} = 1..(k - 1) /\ 1..k # {}
         /\ 1..k \in SUBSET (1..n) /\ 1..(k - 1) \in SUBSET (1..n)
<1>1. Max(1..k) = k
  BY MaxUpTo
<1> QED
  BY <1>1

-----------------------------------------------------------------------------
(* Pieces, and runs of them.                                               *)

Piece == {p \in Nat \X Nat : p[1] <= p[2]}

\* One piece begins where the one before it ends, from a to b.
Run(u, a, b) ==
  /\ u \in Seq(Piece) /\ u # <<>>
  /\ u[1][1] = a /\ u[Len(u)][2] = b
  /\ \A i \in 1..(Len(u) - 1) : u[i + 1][1] = u[i][2] + 1

LEMMA LengthFacts ==
  ASSUME NEW p \in Piece, NEW spaces
  PROVE  /\ Length(p, spaces) \in Nat \ {0}
         /\ Length(p, spaces) >= p[2] - p[1] + 1
         /\ spaces \cap p[1]..(p[2] - 1) = {} => Length(p, spaces) = p[2] - p[1] + 1
<1> DEFINE S == spaces \cap p[1]..(p[2] - 1)
<1>1. p[1] \in Nat /\ p[2] \in Nat /\ p[1] <= p[2]
  BY DEF Piece
<1>2. IsFiniteSet(S) /\ Cardinality(S) \in Nat
  <2>1. IsFiniteSet(p[1]..(p[2] - 1))
    <3>1. p[2] - 1 \in Int /\ p[1] \in Int
      BY <1>1
    <3> QED
      BY <3>1, FS_Interval, Zenon
  <2> QED
    BY <2>1, FS_Subset, FS_CardinalityType
<1>3. S = {} => Cardinality(S) = 0
  BY FS_EmptySet
<1>4. Length(p, spaces) = p[2] - p[1] + 1 + Cardinality(S)
  BY DEF Length, First, Final
<1> HIDE DEF S
<1>5. /\ Length(p, spaces) \in Nat \ {0} /\ Length(p, spaces) >= p[2] - p[1] + 1
      /\ S = {} => Length(p, spaces) = p[2] - p[1] + 1
  BY <1>1, <1>2, <1>3, <1>4
<1> QED
  BY <1>5 DEF S

-----------------------------------------------------------------------------
(* The length of a group.                                                  *)

\* The lengths up to each unit.
LEMMA GroupLengths ==
  ASSUME NEW g \in Seq(Piece), NEW spaces
  PROVE  \E sum : /\ sum[0] = -1
                  /\ \A k \in 1..Len(g) : sum[k] = sum[k - 1] + Length(g[k], spaces) + 1
                  /\ \A k \in 0..Len(g) : sum[k] \in Int
                  /\ GroupLength(g, spaces) = sum[Len(g)]
<1> DEFINE n == Len(g)
           Is(it) == it = [s \in SUBSET (1..n) |->
                             IF s = {} THEN -1
                             ELSE it[s \ {Max(s)}] + Length(g[Max(s)], spaces) + 1]
           step == [i \in 1..n |-> [a \in Int |-> a + Length(g[i], spaces) + 1]]
<1>1. \A i \in 1..n : Length(g[i], spaces) \in Int
  BY LengthFacts
<1>2. \A i \in 1..n : \A a \in Int : step[i][a] \in Int
  BY <1>1
<1>3. n \in Nat /\ -1 \in Int /\ DOMAIN g = 1..n
  OBVIOUS
<1>4. PICK iter \in [SUBSET (1..n) -> Int] : Folds(iter, n, -1, step)
  <2> HIDE DEF n, step
  <2>1. \E iter \in [SUBSET (1..n) -> Int] : Folds(iter, n, -1, step)
    BY <1>2, <1>3, FoldExists
  <2> QED
    BY <2>1
<1>5. GroupLength(g, spaces) = (CHOOSE it : Is(it))[1..n]
  BY <1>3 DEF GroupLength, FoldLeft, MapThenFoldSet
<1>6. Is(iter)
  <2>1. iter = [s \in SUBSET (1..n) |-> IF s = {} THEN -1 ELSE step[Max(s)][iter[s \ {Max(s)}]]]
    BY <1>4 DEF Folds
  <2>2. ASSUME NEW s \in SUBSET (1..n), s # {}
        PROVE  step[Max(s)][iter[s \ {Max(s)}]]
                 = iter[s \ {Max(s)}] + Length(g[Max(s)], spaces) + 1
    <3>1. Max(s) \in 1..n
      BY <1>3, <2>2, MaxOf
    <3>2. iter[s \ {Max(s)}] \in Int
      BY <1>4
    <3> QED
      BY <3>1, <3>2
  <2>3. ASSUME NEW s \in SUBSET (1..n)
        PROVE  iter[s] = IF s = {} THEN -1 ELSE iter[s \ {Max(s)}] + Length(g[Max(s)], spaces) + 1
    BY <2>1, <2>2
  <2> QED
    BY <1>4, <2>3
<1> DEFINE the == CHOOSE it : Is(it)
<1>7. Is(the)
  <2> HIDE DEF Is
  <2> QED
    BY <1>6, Zenon
<1> DEFINE sum == [k \in 0..n |-> the[1..k]]
<1>8. sum[0] = -1
  <2>1. the[{}] = -1
    BY <1>7
  <2> QED
    BY <1>3, <2>1, 1..0 = {}
<1>9. ASSUME NEW k \in 1..n
      PROVE  sum[k] = sum[k - 1] + Length(g[k], spaces) + 1
  <2>0. /\ Max(1..k) = k /\ (1..k) \ {k} = 1..(k - 1) /\ 1..k # {}
        /\ 1..k \in SUBSET (1..n)
    BY <1>3, FoldRises
  <2>1. the[1..k] = the[1..(k - 1)] + Length(g[k], spaces) + 1
    <3>1. \A s \in SUBSET (1..n) :
            the[s] = IF s = {} THEN -1 ELSE the[s \ {Max(s)}] + Length(g[Max(s)], spaces) + 1
      BY <1>7
    <3> HIDE DEF the, sum, step, Is, n
    <3>2. the[1..k] = the[(1..k) \ {Max(1..k)}] + Length(g[Max(1..k)], spaces) + 1
      BY <2>0, <3>1
    <3> QED
      BY <2>0, <3>2, Zenon
  <2> QED
    BY <1>3, <2>1
<1>10. \A k \in 0..n : sum[k] \in Int
  <2> DEFINE S == {k \in 0..n : sum[k] \in Int}
  <2> HIDE DEF sum
  <2>1. 0 \in S
    BY <1>3, <1>8
  <2>2. ASSUME NEW k \in 0..(n - 1), k \in S PROVE k + 1 \in S
    <3>1. k + 1 \in 1..n /\ (k + 1) - 1 = k
      BY <1>3
    <3> QED
      BY <1>1, <1>9, <2>2, <3>1
  <2> HIDE DEF S, n
  <2>3. 0..n \subseteq S
    <3>1. 0 \in Int /\ n \in Int
      BY <1>3
    <3> QED
      BY <2>1, <2>2, <3>1, Climb
  <2> QED
    BY <2>3 DEF S
<1>11. GroupLength(g, spaces) = sum[n]
  BY <1>3, <1>5
<1> HIDE DEF sum
<1> QED
  BY <1>8, <1>9, <1>10, <1>11

LEMMA GroupLengthType == \A g \in Seq(Piece) : \A spaces : GroupLength(g, spaces) \in Int
<1> TAKE g \in Seq(Piece)
<1> TAKE spaces
<1>1. Len(g) \in 0..Len(g)
  OBVIOUS
<1> QED
  BY <1>1, GroupLengths

\* Sums that start alike and add alike are alike.
LEMMA SameSums ==
  ASSUME NEW n \in Nat, NEW f, NEW h, NEW d, f[0] = h[0],
         \A k \in 1..n : f[k] = f[k - 1] + d[k] + 1 /\ h[k] = h[k - 1] + d[k] + 1
  PROVE  f[n] = h[n]
<1> DEFINE S == {k \in 0..n : f[k] = h[k]}
<1>1. 0 \in S
  OBVIOUS
<1>2. ASSUME NEW k \in 0..(n - 1), k \in S PROVE k + 1 \in S
  <2>1. k + 1 \in 1..n /\ (k + 1) - 1 = k
    OBVIOUS
  <2> QED
    BY <1>2, <2>1
<1> HIDE DEF S
<1>3. 0..n \subseteq S
  BY <1>1, <1>2, Climb
<1> QED
  BY <1>3 DEF S

LEMMA GroupGrows ==
  ASSUME NEW g \in Seq(Piece), NEW u \in Piece, NEW spaces
  PROVE  /\ GroupLength(g, spaces) \in Int
         /\ GroupLength(Append(g, u), spaces) = GroupLength(g, spaces) + Length(u, spaces) + 1
         /\ GroupLength(<<u>>, spaces) = Length(u, spaces)
<1>1. \A x \in Seq(Piece) : GroupLength(x, spaces) \in Int
  BY GroupLengths
<1>2. GroupLength(Append(g, u), spaces) = GroupLength(g, spaces) + Length(u, spaces) + 1
  <2> DEFINE n == Len(g)
             more == Append(g, u)
  <2>1. n \in Nat /\ more \in Seq(Piece) /\ Len(more) = n + 1 /\ more[n + 1] = u
        /\ \A k \in 1..n : more[k] = g[k]
    OBVIOUS
  <2>2. PICK f : /\ f[0] = -1 /\ \A k \in 1..n : f[k] = f[k - 1] + Length(g[k], spaces) + 1
                 /\ GroupLength(g, spaces) = f[n]
    BY GroupLengths
  <2> HIDE DEF more
  <2>3. PICK h : /\ h[0] = -1
                 /\ \A k \in 1..Len(more) : h[k] = h[k - 1] + Length(more[k], spaces) + 1
                 /\ GroupLength(more, spaces) = h[Len(more)]
    BY <2>1, GroupLengths, Zenon
  <2> DEFINE d == [k \in 1..n |-> Length(g[k], spaces)]
  <2>4. \A k \in 1..n : f[k] = f[k - 1] + d[k] + 1 /\ h[k] = h[k - 1] + d[k] + 1
    BY <2>1, <2>2, <2>3
  <2> HIDE DEF d, n
  <2>5. f[n] = h[n]
    <3>1. n \in Nat /\ f[0] = h[0]
      BY <2>1, <2>2, <2>3
    <3> QED
      BY <2>4, <3>1, SameSums
  <2>6. n + 1 \in 1..(n + 1) /\ (n + 1) - 1 = n
    BY <2>1
  <2>7. h[n + 1] = h[n] + Length(u, spaces) + 1
    BY <2>1, <2>3, <2>6
  <2> QED
    BY <2>1, <2>2, <2>3, <2>5, <2>7 DEF more
<1>3. GroupLength(<<u>>, spaces) = Length(u, spaces)
  <2> DEFINE one == <<u>>
  <2>0. one \in Seq(Piece) /\ Len(one) = 1 /\ one[1] = u
    OBVIOUS
  <2> HIDE DEF one
  <2>1. PICK h : /\ h[0] = -1
                 /\ \A k \in 1..Len(one) : h[k] = h[k - 1] + Length(one[k], spaces) + 1
                 /\ GroupLength(one, spaces) = h[Len(one)]
    BY <2>0, GroupLengths, Zenon
  <2>2. h[1] = -1 + Length(u, spaces) + 1
    BY <2>0, <2>1
  <2>3. Length(u, spaces) \in Int
    BY LengthFacts
  <2> QED
    BY <2>0, <2>1, <2>2, <2>3 DEF one
<1> QED
  BY <1>1, <1>2, <1>3
-----------------------------------------------------------------------------
(* Runs put together and taken apart.                                      *)

LEMMA RunEnds ==
  ASSUME NEW u, NEW a, NEW b, Run(u, a, b)
  PROVE  /\ Len(u) \in Nat \ {0} /\ a \in Nat /\ b \in Nat
         /\ \A i \in 1..Len(u) : /\ u[i] \in Piece /\ u[i][1] \in Nat /\ u[i][2] \in Nat
                                 /\ u[i][1] <= u[i][2] /\ u[i] = <<u[i][1], u[i][2]>>
<1>1. u \in Seq(Piece) /\ u # <<>> /\ u[1][1] = a /\ u[Len(u)][2] = b
  BY DEF Run
<1>2. Len(u) \in Nat \ {0}
  BY <1>1
<1>3. \A p \in Piece : p[1] \in Nat /\ p[2] \in Nat /\ p[1] <= p[2] /\ p = <<p[1], p[2]>>
  BY DEF Piece
<1>4. \A i \in 1..Len(u) : u[i] \in Piece
  BY <1>1
<1>5. 1 \in 1..Len(u) /\ Len(u) \in 1..Len(u)
  BY <1>2
<1> QED
  BY <1>1, <1>2, <1>3, <1>4, <1>5

\* Every piece of a run lies within its ends.
LEMMA RunInside ==
  ASSUME NEW u, NEW a, NEW b, Run(u, a, b)
  PROVE  /\ a <= b
         /\ \A i \in 1..Len(u) : a <= u[i][1] /\ u[i][2] <= b
         /\ \A i \in 1..(Len(u) - 1) : u[i][2] < b
<1> DEFINE n == Len(u)
           Up == {i \in 1..n : a <= u[i][1]}
           Down == {i \in 0..(n - 1) : u[n - i][2] <= b}
<1>1. /\ n \in Nat \ {0} /\ a \in Nat /\ b \in Nat
      /\ \A i \in 1..n : u[i][1] \in Nat /\ u[i][2] \in Nat /\ u[i][1] <= u[i][2]
  BY RunEnds
<1>2. u[1][1] = a /\ u[n][2] = b /\ \A i \in 1..(n - 1) : u[i + 1][1] = u[i][2] + 1
  BY DEF Run
<1> HIDE DEF n
<1>3. 1..n \subseteq Up
  <2>1. 1 \in Up
    BY <1>1, <1>2
  <2>2. ASSUME NEW i \in 1..(n - 1), i \in Up PROVE i + 1 \in Up
    <3>1. i \in 1..n /\ i + 1 \in 1..n /\ a <= u[i][1]
      BY <1>1, <2>2
    <3>2. a <= u[i + 1][1]
      BY <1>1, <1>2, <3>1
    <3> QED
      BY <3>1, <3>2
  <2> HIDE DEF Up
  <2>3. 1 \in Int /\ n \in Int
    BY <1>1
  <2> QED
    BY <2>1, <2>2, <2>3, Climb
<1>4. 0..(n - 1) \subseteq Down
  <2>1. 0 \in Down
    BY <1>1, <1>2
  <2>2. ASSUME NEW i \in 0..((n - 1) - 1), i \in Down PROVE i + 1 \in Down
    <3>1. n - i \in 1..n /\ n - (i + 1) \in 1..(n - 1) /\ (n - (i + 1)) + 1 = n - i
          /\ i + 1 \in 0..(n - 1) /\ n - (i + 1) \in 1..n
      BY <1>1, <2>2
    <3>2. u[n - i][2] <= b
      BY <2>2
    <3>3. u[n - i][1] = u[n - (i + 1)][2] + 1
      BY <1>2, <3>1
    <3>4. u[n - (i + 1)][2] <= b
      BY <1>1, <3>1, <3>2, <3>3
    <3> QED
      BY <3>1, <3>4
  <2> HIDE DEF Down
  <2>3. 0 \in Int /\ n - 1 \in Int
    BY <1>1
  <2> QED
    BY <2>1, <2>2, <2>3, Climb
<1>5. \A i \in 1..n : a <= u[i][1]
  BY <1>3
<1>6. ASSUME NEW i \in 1..n PROVE u[i][2] <= b
  <2>1. n - i \in 0..(n - 1) /\ n - (n - i) = i
    BY <1>1
  <2> QED
    BY <1>4, <2>1
<1>7. ASSUME NEW i \in 1..(n - 1) PROVE u[i][2] < b
  <2>1. i \in 1..n /\ i + 1 \in 1..n
    BY <1>1
  <2>2. u[i + 1][1] = u[i][2] + 1 /\ u[i + 1][1] <= u[i + 1][2] /\ u[i + 1][2] <= b
    BY <1>1, <1>2, <1>6, <2>1
  <2> QED
    BY <1>1, <2>1, <2>2
<1>8. a <= b
  <2>1. 1 \in 1..n
    BY <1>1
  <2> QED
    BY <1>1, <1>5, <1>6, <2>1
<1> QED
  BY <1>5, <1>6, <1>7, <1>8 DEF n

\* A piece alone is a run.
LEMMA RunOfOne ==
  ASSUME NEW p \in Piece
  PROVE  Run(<<p>>, p[1], p[2])
BY DEF Run

LEMMA ConcatAt ==
  ASSUME NEW S, NEW u \in Seq(S), NEW v \in Seq(S)
  PROVE  /\ u \o v \in Seq(S) /\ Len(u \o v) = Len(u) + Len(v)
         /\ \A i \in 1..Len(u) : (u \o v)[i] = u[i]
         /\ \A i \in 1..Len(v) : (u \o v)[Len(u) + i] = v[i]
OBVIOUS

LEMMA RunConcat ==
  ASSUME NEW u, NEW v, NEW a, NEW b, NEW c, Run(u, a, b), Run(v, b + 1, c)
  PROVE  Run(u \o v, a, c)
<1> DEFINE w == u \o v
           n == Len(u)
           m == Len(v)
<1>1. u \in Seq(Piece) /\ v \in Seq(Piece) /\ n \in Nat \ {0} /\ m \in Nat \ {0}
  BY RunEnds DEF Run
<1>2. w \in Seq(Piece) /\ Len(w) = n + m /\ w # <<>>
  BY <1>1
<1>3. /\ \A i \in 1..n : w[i] = u[i]
      /\ \A i \in 1..m : w[n + i] = v[i]
  BY <1>1
<1>4. w[1][1] = a
  BY <1>1, <1>3 DEF Run
<1>5. w[Len(w)][2] = c
  BY <1>1, <1>2, <1>3 DEF Run
<1>6. ASSUME NEW i \in 1..(Len(w) - 1) PROVE w[i + 1][1] = w[i][2] + 1
  <2> HIDE DEF w
  <2>1. CASE i < n
    <3>1. i \in 1..(n - 1) /\ i \in 1..n /\ i + 1 \in 1..n
      BY <1>1, <2>1
    <3>2. u[i + 1][1] = u[i][2] + 1
      BY <3>1 DEF Run
    <3> QED
      BY <1>3, <3>1, <3>2
  <2>2. CASE i = n
    <3>1. w[i] = u[n] /\ w[i + 1] = v[1]
      BY <1>1, <1>3, <2>2
    <3> QED
      BY <3>1 DEF Run
  <2>3. CASE i > n
    <3>1. i - n \in 1..(m - 1) /\ i - n \in 1..m /\ (i - n) + 1 \in 1..m
          /\ n + (i - n) = i /\ n + ((i - n) + 1) = i + 1
      BY <1>1, <1>2, <2>3
    <3>2. v[(i - n) + 1][1] = v[i - n][2] + 1
      BY <3>1 DEF Run
    <3>3. w[i] = v[i - n] /\ w[i + 1] = v[(i - n) + 1]
      BY <1>3, <3>1
    <3> QED
      BY <3>2, <3>3
  <2> QED
    BY <1>1, <1>2, <2>1, <2>2, <2>3
<1> HIDE DEF w
<1>7. Run(w, a, c)
  BY <1>2, <1>4, <1>5, <1>6 DEF Run
<1> QED
  BY <1>7 DEF w

-----------------------------------------------------------------------------
(* Runs of runs.                                                           *)

LEMMA Flattened ==
  ASSUME NEW S, NEW ss \in Seq(Seq(S)), ss # <<>>
  PROVE  \E f : /\ f[1] = ss[1]
                /\ \A k \in 2..Len(ss) : f[k] = f[k - 1] \o ss[k]
                /\ \A k \in 1..Len(ss) : f[k] \in Seq(S)
                /\ FlattenSeq(ss) = f[Len(ss)]
<1> DEFINE n == Len(ss)
           Is(f, m) == f = [i \in 1..m |-> IF i = 1 THEN ss[i] ELSE f[i - 1] \o ss[i]]
           Done == {m \in 1..n : \E f \in [1..m -> Seq(S)] : Is(f, m)}
           the == CHOOSE f : Is(f, n)
<1>1. n \in Nat \ {0} /\ \A i \in 1..n : ss[i] \in Seq(S)
  OBVIOUS
<1>2. FlattenSeq(ss) = the[n]
  BY <1>1 DEF FlattenSeq
<1> HIDE DEF n
<1>3. 1 \in Done
  <2> DEFINE f == [i \in 1..1 |-> ss[1]]
  <2>1. f \in [1..1 -> Seq(S)]
    BY <1>1
  <2>2. Is(f, 1)
    OBVIOUS
  <2> HIDE DEF f, Is
  <2> QED
    BY <1>1, <2>1, <2>2
<1>4. ASSUME NEW m \in 1..(n - 1), m \in Done PROVE m + 1 \in Done
  <2>1. PICK f \in [1..m -> Seq(S)] : Is(f, m)
    BY <1>4
  <2> DEFINE more == [i \in 1..(m + 1) |-> IF i = m + 1 THEN f[m] \o ss[m + 1] ELSE f[i]]
  <2>2. m \in 1..m /\ m + 1 \in 1..n /\ \A i \in 1..(m + 1) : i = m + 1 \/ i \in 1..m
    BY <1>1
  <2>3. f[m] \o ss[m + 1] \in Seq(S)
    BY <1>1, <2>1, <2>2
  <2>4. more \in [1..(m + 1) -> Seq(S)]
    BY <2>1, <2>2, <2>3
  <2>5. ASSUME NEW i \in 1..(m + 1)
        PROVE  more[i] = IF i = 1 THEN ss[i] ELSE more[i - 1] \o ss[i]
    <3>1. CASE i = m + 1
      <4>1. i # 1 /\ i - 1 = m /\ m # m + 1 /\ m \in 1..(m + 1)
        BY <3>1
      <4>2. more[m] = f[m]
        BY <4>1
      <4> QED
        BY <3>1, <4>1, <4>2
    <3>2. CASE i # m + 1
      <4>1. i \in 1..m /\ more[i] = f[i]
        BY <2>2, <3>2
      <4>2. f[i] = IF i = 1 THEN ss[i] ELSE f[i - 1] \o ss[i]
        BY <2>1, <4>1
      <4>3. i # 1 => i - 1 \in 1..(m + 1) /\ i - 1 # m + 1
        BY <4>1
      <4>4. i # 1 => more[i - 1] = f[i - 1]
        BY <4>3
      <4> QED
        BY <4>1, <4>2, <4>4
    <3> QED
      BY <3>1, <3>2
  <2>6. Is(more, m + 1)
    BY <2>5
  <2> HIDE DEF more, Is
  <2> QED
    BY <2>2, <2>4, <2>6
<1> HIDE DEF Done
<1>5. 1..n \subseteq Done
  <2>1. 1 \in Int /\ n \in Int
    BY <1>1
  <2> QED
    BY <1>3, <1>4, <2>1, Climb
<1>6. PICK g \in [1..n -> Seq(S)] : Is(g, n)
  <2>1. n \in Done
    BY <1>1, <1>5
  <2> HIDE DEF Is
  <2> QED
    BY <2>1, Zenon DEF Done
<1>7. Is(the, n)
  <2> HIDE DEF Is
  <2> QED
    BY <1>6, Zenon
<1> HIDE DEF the
<1>8. \A k \in 1..n : the[k] = IF k = 1 THEN ss[k] ELSE the[k - 1] \o ss[k]
  BY <1>7
<1> HIDE DEF Is
<1>9. the[1] = ss[1] /\ \A k \in 2..n : the[k] = the[k - 1] \o ss[k]
  <2>1. 1 \in 1..n
    BY <1>1
  <2>2. \A k \in 2..n : k \in 1..n /\ k # 1
    BY <1>1
  <2> QED
    BY <1>8, <2>1, <2>2
<1>10. \A k \in 1..n : the[k] \in Seq(S)
  <2> DEFINE T == {k \in 1..n : the[k] \in Seq(S)}
  <2>1. 1 \in T
    BY <1>1, <1>9
  <2>2. ASSUME NEW k \in 1..(n - 1), k \in T PROVE k + 1 \in T
    <3>1. k + 1 \in 2..n /\ (k + 1) - 1 = k /\ k + 1 \in 1..n
      BY <1>1
    <3>2. the[k + 1] = the[k] \o ss[k + 1]
      BY <1>9, <3>1
    <3>3. the[k] \in Seq(S) /\ ss[k + 1] \in Seq(S)
      BY <1>1, <2>2, <3>1
    <3>4. the[k] \o ss[k + 1] \in Seq(S)
      BY <3>3
    <3> QED
      BY <3>1, <3>2, <3>4
  <2> HIDE DEF T
  <2>3. 1..n \subseteq T
    <3>1. 1 \in Int /\ n \in Int
      BY <1>1
    <3> QED
      BY <2>1, <2>2, <3>1, Climb
  <2> QED
    BY <2>3 DEF T
<1> QED
  BY <1>2, <1>9, <1>10 DEF n

\* Groups that cover a to b one after the other, each a run.
Grouped(gs, a, b) ==
  /\ gs \in Seq(Seq(Piece))
  /\ \E p : /\ Run(p, a, b) /\ Len(p) = Len(gs)
            /\ \A i \in 1..Len(gs) : Run(gs[i], p[i][1], p[i][2])

LEMMA FlatRun ==
  ASSUME NEW gs, NEW a, NEW b, Grouped(gs, a, b)
  PROVE  Run(FlattenSeq(gs), a, b)
<1>1. PICK p : /\ Run(p, a, b) /\ Len(p) = Len(gs)
               /\ \A i \in 1..Len(gs) : Run(gs[i], p[i][1], p[i][2])
  BY DEF Grouped
<1> DEFINE n == Len(gs)
<1>2. n \in Nat \ {0} /\ p[1][1] = a /\ p[n][2] = b
      /\ \A i \in 1..(n - 1) : p[i + 1][1] = p[i][2] + 1
  BY <1>1, RunEnds DEF Run
<1>3. gs \in Seq(Seq(Piece)) /\ gs # <<>>
  BY <1>2 DEF Grouped
<1>4. PICK f : /\ f[1] = gs[1]
               /\ \A k \in 2..n : f[k] = f[k - 1] \o gs[k]
               /\ FlattenSeq(gs) = f[n]
  BY <1>3, Flattened
<1> DEFINE S == {k \in 1..n : Run(f[k], a, p[k][2])}
<1> HIDE DEF n
<1>5. 1 \in S
  BY <1>1, <1>2, <1>4 DEF n
<1>6. ASSUME NEW k \in 1..(n - 1), k \in S PROVE k + 1 \in S
  <2>1. k + 1 \in 2..n /\ (k + 1) - 1 = k /\ k + 1 \in 1..n
    BY <1>2
  <2>2. Run(f[k], a, p[k][2]) /\ Run(gs[k + 1], p[k][2] + 1, p[k + 1][2])
    BY <1>1, <1>2, <1>6, <2>1 DEF n
  <2>3. Run(f[k] \o gs[k + 1], a, p[k + 1][2])
    BY <2>2, RunConcat
  <2>4. f[k + 1] = f[k] \o gs[k + 1]
    BY <1>4, <2>1
  <2> QED
    BY <2>1, <2>3, <2>4
<1> HIDE DEF S
<1>7. 1..n \subseteq S
  <2>1. 1 \in Int /\ n \in Int
    BY <1>2
  <2> QED
    BY <1>5, <1>6, <2>1, Climb
<1>8. n \in S
  BY <1>2, <1>7
<1> QED
  BY <1>2, <1>4, <1>8 DEF S

-----------------------------------------------------------------------------
(* Cutting a piece.                                                        *)

\* Pieces inside which nothing ends.
Unbroken(ends) == {p \in Piece : ends \cap p[1]..(p[2] - 1) = {}}

\* The parts of a piece cover it, and nothing ends inside one.
LEMMA PartsCover ==
  ASSUME NEW p \in Piece, NEW ends
  PROVE  Run(Parts(p, ends), p[1], p[2]) /\ Parts(p, ends) \in Seq(Unbroken(ends))
<1> DEFINE a == p[1]
           b == p[2]
           E(n) == Min((ends \cap n..b) \cup {b})
           Is(f, m) == f = [n \in m..b |-> <<<<n, E(n)>>>> \o IF E(n) = b THEN <<>> ELSE f[E(n) + 1]]
           Done == {d \in 0..(b - a) : \E f : Is(f, b - d)}
           the == CHOOSE f : Is(f, a)
<1>1. a \in Nat /\ b \in Nat /\ a <= b
  BY DEF Piece
<1>2. Parts(p, ends) = the[a]
  BY DEF Parts, First, Final
<1>3. ASSUME NEW n \in a..b
      PROVE  /\ E(n) \in n..b
             /\ <<n, E(n)>> \in Unbroken(ends)
  <2> DEFINE S == (ends \cap n..b) \cup {b}
  <2>1. S \in SUBSET Nat /\ S # {} /\ S \subseteq n..b
    BY <1>1
  <2>2. Min(S) \in S /\ \A y \in S : Min(S) <= y
    <3> HIDE DEF S
    <3> QED
      BY <2>1, MinOf
  <2>3. E(n) \in n..b
    BY <2>1, <2>2
  <2>4. \A y \in ends \cap n..b : E(n) <= y
    BY <2>2
  <2> HIDE DEF E
  <2>5. ends \cap n..(E(n) - 1) = {}
    BY <1>1, <2>3, <2>4
  <2>6. n \in Nat /\ E(n) \in Nat /\ n <= E(n)
    BY <1>1, <2>3
  <2> QED
    BY <2>3, <2>5, <2>6 DEF Unbroken, Piece
<1> HIDE DEF E, a, b
<1>4. \A d \in 0..(b - a) : b - d \in a..b
  BY <1>1
<1>5. 0 \in Done
  <2> DEFINE f == [n \in (b - 0)..b |-> <<<<n, E(n)>>>>]
  <2>0. b - 0 = b /\ b \in a..b /\ b..b = {b}
    BY <1>1
  <2>1. E(b) = b
    BY <1>1, <1>3, <2>0
  <2>2. Is(f, b - 0)
    BY <2>0, <2>1
  <2>3. 0 \in 0..(b - a)
    BY <1>1
  <2> HIDE DEF f, Is
  <2> QED
    BY <2>2, <2>3
<1>6. ASSUME NEW d \in 0..((b - a) - 1), d \in Done PROVE d + 1 \in Done
  <2>1. PICK f : Is(f, b - d)
    BY <1>6
  <2> DEFINE m == b - (d + 1)
             more == [n \in m..b |->
                        IF n = m THEN <<<<n, E(n)>>>> \o IF E(n) = b THEN <<>> ELSE f[E(n) + 1]
                        ELSE f[n]]
  <2>2. m \in a..b /\ b - d = m + 1 /\ m < b /\ d + 1 \in 0..(b - a)
    BY <1>1, <1>6
  <2> HIDE DEF m
  <2>3. \A n \in m..b : n \in a..b /\ (n = m \/ n \in (m + 1)..b)
    BY <1>1, <2>2
  <2>4. ASSUME NEW n \in m..b, E(n) # b
        PROVE  E(n) + 1 \in (m + 1)..b /\ E(n) + 1 \in m..b /\ E(n) + 1 # m
    <3>1. n \in a..b
      BY <2>3
    <3>2. E(n) \in n..b
      BY <1>3, <3>1
    <3> QED
      BY <1>1, <2>2, <2>4, <3>2
  <2>5. ASSUME NEW n \in m..b
        PROVE  more[n] = <<<<n, E(n)>>>> \o IF E(n) = b THEN <<>> ELSE more[E(n) + 1]
    <3>1. E(n) # b => more[E(n) + 1] = f[E(n) + 1]
      BY <2>4
    <3>2. CASE n = m
      BY <3>1, <3>2
    <3>3. CASE n # m
      <4>1. n \in (b - d)..b
        BY <2>2, <2>3, <3>3
      <4>2. f[n] = <<<<n, E(n)>>>> \o IF E(n) = b THEN <<>> ELSE f[E(n) + 1]
        BY <2>1, <4>1
      <4> QED
        BY <3>1, <3>3, <4>2
    <3> QED
      BY <3>2, <3>3
  <2>6. Is(more, m)
    BY <2>5
  <2> HIDE DEF more, Is
  <2> QED
    BY <2>2, <2>6 DEF m
<1>7. PICK f : Is(f, a)
  <2> HIDE DEF Done, Is
  <2>1. 0..(b - a) \subseteq Done
    <3>1. 0 \in Int /\ b - a \in Int
      BY <1>1
    <3> QED
      BY <1>5, <1>6, <3>1, Climb
  <2>2. b - a \in Done /\ b - (b - a) = a
    BY <1>1, <2>1
  <2> QED
    BY <2>2 DEF Done
<1>8. Is(the, a)
  <2> HIDE DEF Is
  <2> QED
    BY <1>7, Zenon
<1> HIDE DEF the
<1>9. \A n \in a..b : the[n] = <<<<n, E(n)>>>> \o IF E(n) = b THEN <<>> ELSE the[E(n) + 1]
  BY <1>8
<1> HIDE DEF Is, Done
<1> DEFINE Good == {n \in a..b : Run(the[n], n, b) /\ the[n] \in Seq(Unbroken(ends))}
           Fine == {d \in 0..(b - a) : \A n \in (b - d)..b : n \in Good}
<1>10. ASSUME NEW n \in a..b, \A k \in (n + 1)..b : k \in Good PROVE n \in Good
  <2> DEFINE piece == <<n, E(n)>>
             one == <<piece>>
  <2>1. piece \in Unbroken(ends) /\ piece \in Piece /\ piece[1] = n /\ piece[2] = E(n) /\ E(n) \in n..b
    BY <1>3 DEF Unbroken
  <2> HIDE DEF piece
  <2>2. Run(one, n, E(n)) /\ one \in Seq(Unbroken(ends))
    BY <2>1, RunOfOne
  <2>3. CASE E(n) = b
    <3>1. the[n] = one
      BY <1>9, <2>1, <2>2, <2>3 DEF piece
    <3> HIDE DEF one
    <3> QED
      BY <2>2, <2>3, <3>1
  <2>4. CASE E(n) # b
    <3>1. E(n) + 1 \in (n + 1)..b /\ E(n) + 1 \in a..b
      BY <1>1, <2>1, <2>4
    <3>2. the[n] = one \o the[E(n) + 1]
      BY <1>9, <2>4 DEF piece
    <3>3. Run(the[E(n) + 1], E(n) + 1, b) /\ the[E(n) + 1] \in Seq(Unbroken(ends))
      BY <1>10, <3>1
    <3> HIDE DEF one
    <3>4. Run(one \o the[E(n) + 1], n, b)
      BY <2>2, <3>3, RunConcat
    <3>5. one \o the[E(n) + 1] \in Seq(Unbroken(ends))
      BY <2>2, <3>3
    <3> QED
      BY <3>2, <3>4, <3>5
  <2> QED
    BY <2>3, <2>4
<1> HIDE DEF Good
<1>11. 0..(b - a) \subseteq Fine
  <2>1. 0 \in Fine
    <3>1. b \in a..b /\ (b - 0)..b = {b} /\ (b + 1)..b = {} /\ 0 \in 0..(b - a)
      BY <1>1
    <3> QED
      BY <1>10, <3>1
  <2>2. ASSUME NEW d \in 0..((b - a) - 1), d \in Fine PROVE d + 1 \in Fine
    <3>1. /\ b - (d + 1) \in a..b /\ (b - (d + 1)) + 1 = b - d /\ d + 1 \in 0..(b - a)
          /\ \A n \in (b - (d + 1))..b : n = b - (d + 1) \/ n \in (b - d)..b
      BY <1>1
    <3>2. \A n \in (b - d)..b : n \in Good
      BY <2>2
    <3>3. b - (d + 1) \in Good
      BY <1>10, <3>1, <3>2
    <3> QED
      BY <3>1, <3>2, <3>3
  <2> HIDE DEF Fine
  <2>3. 0 \in Int /\ b - a \in Int
    BY <1>1
  <2> QED
    BY <2>1, <2>2, <2>3, Climb
<1>12. a \in Good
  <2>1. b - a \in 0..(b - a) /\ b - (b - a) = a /\ a \in a..b
    BY <1>1
  <2> QED
    BY <1>11, <2>1
<1> QED
  BY <1>2, <1>12 DEF Good, a, b

\* Pieces within the limit.
Fit(spaces, limit) == {p \in Piece : Length(p, spaces) <= limit}

LEMMA ChopDivides ==
  ASSUME NEW n \in Nat \ {0}, NEW limit \in Nat \ {0}
  PROVE  /\ (n - 1) \div limit \in Nat
         /\ ((n - 1) \div limit) * limit < n
         /\ n <= ((n - 1) \div limit) * limit + limit
OBVIOUS

LEMMA ChopFits ==
  ASSUME NEW spaces, NEW w \in Unbroken(spaces), NEW limit \in Nat \ {0}
  PROVE  /\ Run(Chop(w, limit), w[1], w[2])
         /\ Chop(w, limit) \in Seq(Fit(spaces, limit))
<1> DEFINE a == w[1]
           b == w[2]
           n == b - a + 1
           full == (n - 1) \div limit
           chop == Chop(w, limit)
<1>1. w \in Piece /\ a \in Nat /\ b \in Nat /\ a <= b /\ spaces \cap a..(b - 1) = {}
  BY DEF Unbroken, Piece
<1>2. Length(w, {}) = n
  BY <1>1, LengthFacts
<1>3. chop = [i \in 1..(full + 1) |->
                <<a + (i - 1) * limit, IF i > full THEN b ELSE a + i * limit - 1>>]
  BY <1>2 DEF Chop, First, Final
<1>4. n \in Nat \ {0}
  BY <1>1
<1>5. full \in Nat /\ full * limit < n /\ n <= full * limit + limit
  <2> HIDE DEF n
  <2> QED
    BY <1>4, ChopDivides
<1> HIDE DEF a, b, n, full, chop
<1>6. n = b - a + 1
  BY DEF n
<1>7. ASSUME NEW i \in 1..(full + 1)
      PROVE  /\ chop[i] = <<a + (i - 1) * limit, IF i > full THEN b ELSE a + i * limit - 1>>
             /\ (i - 1) * limit \in Nat /\ i * limit = (i - 1) * limit + limit
             /\ (i - 1) * limit <= full * limit
             /\ i <= full => i * limit <= full * limit
             /\ i = full + 1 => (i - 1) * limit = full * limit
  <2>1. chop[i] = <<a + (i - 1) * limit, IF i > full THEN b ELSE a + i * limit - 1>>
    BY <1>3
  <2>2. i \in Nat /\ i - 1 \in Nat /\ i - 1 <= full /\ full \in Nat
    BY <1>5
  <2>3. (i - 1) * limit \in Nat /\ i * limit = (i - 1) * limit + limit
    BY <2>2
  <2>4. full * limit = (i - 1) * limit + (full - (i - 1)) * limit
    BY <2>2
  <2>5. (full - (i - 1)) * limit >= 0
    BY <2>2
  <2>6. i <= full => i * limit <= full * limit
    <3> SUFFICES ASSUME i <= full PROVE i * limit <= full * limit
      OBVIOUS
    <3>1. full * limit = i * limit + (full - i) * limit /\ (full - i) * limit >= 0
      BY <2>2
    <3>2. i * limit \in Int /\ full * limit \in Int /\ (full - i) * limit \in Int
      BY <2>2
    <3> QED
      BY <3>1, <3>2
  <2>7. full * limit \in Int /\ (full - (i - 1)) * limit \in Int
    BY <2>2
  <2> QED
    BY <2>1, <2>2, <2>3, <2>4, <2>5, <2>6, <2>7
<1>8. ASSUME NEW i \in 1..(full + 1)
      PROVE  /\ chop[i] \in Fit(spaces, limit) /\ chop[i] \in Piece
             /\ chop[i][1] = a + (i - 1) * limit
             /\ chop[i][2] = IF i > full THEN b ELSE a + i * limit - 1
  <2> DEFINE x == a + (i - 1) * limit
             y == IF i > full THEN b ELSE a + i * limit - 1
  <2>1. x \in Nat /\ y \in Nat /\ x <= y /\ y <= b /\ y - x + 1 <= limit /\ a <= x
    BY <1>1, <1>5, <1>6, <1>7
  <2> HIDE DEF x, y
  <2> DEFINE q == <<x, y>>
  <2>2. q \in Piece /\ q[1] = x /\ q[2] = y
    BY <2>1 DEF Piece
  <2>3. spaces \cap x..(y - 1) = {}
    BY <1>1, <2>1
  <2>4. chop[i] = q
    BY <1>7 DEF x, y
  <2> HIDE DEF q
  <2>5. Length(q, spaces) = y - x + 1
    BY <2>2, <2>3, LengthFacts
  <2>6. q \in Fit(spaces, limit)
    BY <2>1, <2>2, <2>5 DEF Fit
  <2> QED
    BY <2>2, <2>4, <2>6 DEF x, y
<1>9. chop \in Seq(Fit(spaces, limit)) /\ chop \in Seq(Piece) /\ Len(chop) = full + 1
  <2>1. DOMAIN chop = 1..(full + 1) /\ chop \in [1..(full + 1) -> Fit(spaces, limit)]
        /\ chop \in [1..(full + 1) -> Piece]
    BY <1>3, <1>8
  <2>2. full + 1 \in Nat
    BY <1>5
  <2> QED
    BY <2>1, <2>2
<1>10. chop # <<>> /\ chop[1][1] = a /\ chop[full + 1][2] = b
  <2>1. 1 \in 1..(full + 1) /\ full + 1 \in 1..(full + 1) /\ full + 1 > full
    BY <1>5
  <2>2. (1 - 1) * limit = 0 /\ a + 0 = a
    BY <1>1
  <2>3. chop # <<>>
    BY <1>5, <1>9
  <2> QED
    BY <1>8, <2>1, <2>2, <2>3
<1>11. ASSUME NEW i \in 1..full PROVE chop[i + 1][1] = chop[i][2] + 1
  <2>1. i \in 1..(full + 1) /\ i + 1 \in 1..(full + 1) /\ (i + 1) - 1 = i /\ ~(i > full)
    BY <1>5
  <2>2. chop[i + 1][1] = a + i * limit /\ chop[i][2] = a + i * limit - 1
    BY <1>8, <2>1
  <2>3. i * limit \in Int /\ a \in Int
    BY <1>1
  <2> QED
    BY <2>2, <2>3
<1>12. Run(chop, a, b)
  <2>1. (full + 1) - 1 = full
    BY <1>5
  <2> QED
    BY <1>9, <1>10, <1>11, <2>1 DEF Run
<1> QED
  BY <1>9, <1>12 DEF chop, a, b

\* What a sequence has before its last element, and its last element.
LEMMA FrontLast ==
  ASSUME NEW S, NEW u \in Seq(S), NEW v \in Seq(S), v # <<>>
  PROVE  /\ Front(v) \in Seq(S) /\ Last(v) \in S /\ Last(v) = v[Len(v)]
         /\ Append(u \o Front(v), Last(v)) = u \o v
         /\ Len(v) = 1 => v = <<Last(v)>>
<1> DEFINE n == Len(v)
           front == Front(v)
           left == Append(u \o front, Last(v))
           right == u \o v
<1>1. n \in Nat \ {0} /\ n \in 1..n
  OBVIOUS
<1>2. front \in Seq(S) /\ Len(front) = n - 1 /\ \A i \in 1..(n - 1) : front[i] = v[i]
  <2>1. n - 1 \in 0..n /\ \A i \in 1..(n - 1) : i \in 1..n
    BY <1>1
  <2>2. front = SubSeq(v, 1, n - 1)
    BY DEF Front
  <2>3. \A i \in 1..(n - 1) : v[i] \in S
    BY <2>1
  <2>4. SubSeq(v, 1, n - 1) = [i \in 1..(n - 1) |-> v[i]]
    BY <1>1, <2>1, SMTT(30)
  <2>5. front \in [1..(n - 1) -> S] /\ \A i \in 1..(n - 1) : front[i] = v[i]
    BY <2>2, <2>3, <2>4
  <2>6. n - 1 \in Nat
    BY <1>1
  <2> HIDE DEF front, n
  <2> QED
    BY <2>5, <2>6
<1>3. Last(v) \in S /\ Last(v) = v[n]
  BY <1>1 DEF Last
<1> HIDE DEF front
<1>4. /\ left \in Seq(S) /\ Len(left) = Len(u) + n
      /\ \A i \in 1..Len(u) : left[i] = u[i]
      /\ \A i \in 1..(n - 1) : left[Len(u) + i] = v[i]
      /\ left[Len(u) + n] = v[n]
  <2> DEFINE w == u \o front
             m == Len(u)
  <2>0. m \in Nat
    OBVIOUS
  <2>1. w \in Seq(S) /\ Len(w) = m + (n - 1) /\ \A i \in 1..m : w[i] = u[i]
    <3>1. w \in Seq(S) /\ Len(w) = m + Len(front)
          /\ \A i \in 1..(m + Len(front)) : w[i] = IF i <= m THEN u[i] ELSE front[i - m]
      BY <1>2, ConcatProperties, Zenon
    <3> HIDE DEF w, m, n
    <3>2. \A i \in 1..m : i \in 1..(m + Len(front)) /\ i <= m
      BY <1>1, <1>2, <2>0
    <3> QED
      BY <1>2, <3>1, <3>2
  <2>2. \A i \in 1..(n - 1) : w[m + i] = front[i]
    BY <1>1, <1>2
  <2> HIDE DEF w
  <2>3. left \in Seq(S) /\ Len(left) = Len(w) + 1 /\ left[Len(w) + 1] = v[n]
        /\ \A i \in 1..Len(w) : left[i] = w[i]
    BY <1>3, <2>1 DEF w
  <2> HIDE DEF left, n, m
  <2>4. Len(w) + 1 = m + n
    BY <1>1, <2>0, <2>1
  <2>5. \A i \in 1..m : i \in 1..Len(w)
    BY <1>1, <2>0, <2>1
  <2>6. \A i \in 1..(n - 1) : m + i \in 1..Len(w)
    BY <1>1, <2>0, <2>1
  <2>7. \A i \in 1..(n - 1) : left[m + i] = v[i]
    BY <1>2, <2>2, <2>3, <2>6
  <2>8. \A i \in 1..m : left[i] = u[i]
    BY <2>1, <2>3, <2>5
  <2>9. left \in Seq(S) /\ Len(left) = m + n /\ left[m + n] = v[n]
    BY <2>3, <2>4
  <2> QED
    BY <2>7, <2>8, <2>9 DEF m
<1>5. /\ right \in Seq(S) /\ Len(right) = Len(u) + n
      /\ \A i \in 1..Len(u) : right[i] = u[i]
      /\ \A i \in 1..n : right[Len(u) + i] = v[i]
  BY <1>1
<1> HIDE DEF left, right
<1>6. ASSUME NEW i \in 1..Len(left) PROVE left[i] = right[i]
  <2>1. CASE i <= Len(u)
    <3>1. i \in 1..Len(u)
      BY <2>1
    <3> QED
      BY <1>4, <1>5, <3>1
  <2>2. CASE i > Len(u)
    <3>1. i - Len(u) \in 1..n /\ Len(u) + (i - Len(u)) = i
          /\ (i - Len(u) \in 1..(n - 1) \/ i = Len(u) + n)
      <4>1. Len(u) \in Nat /\ Len(left) = Len(u) + n /\ n \in Nat
        BY <1>1, <1>4
      <4> HIDE DEF n
      <4> QED
        BY <2>2, <4>1
    <3> QED
      BY <1>1, <1>4, <1>5, <3>1, ZenonT(60)
  <2> QED
    BY <2>1, <2>2
<1>7. left = right
  BY <1>4, <1>5, <1>6, SeqEqual
<1>8. n = 1 => v = <<Last(v)>>
  BY <1>3
<1> QED
  BY <1>2, <1>3, <1>7, <1>8 DEF front, left, right

\* The last piece of a run can be made longer.
LEMMA RunStretch ==
  ASSUME NEW v \in Seq(Piece), NEW p, NEW a, NEW b, Run(Append(v, p), a, b), p \in Piece,
         NEW c \in Nat, c >= b
  PROVE  /\ p[2] = b /\ <<p[1], c>> \in Piece
         /\ Run(Append(v, <<p[1], c>>), a, c)
<1> DEFINE q == <<p[1], c>>
           old == Append(v, p)
           new == Append(v, q)
           n == Len(v)
<1>1. p[1] \in Nat /\ p[2] \in Nat /\ p[1] <= p[2] /\ n \in Nat
  BY DEF Piece
<1>2. /\ Len(old) = n + 1 /\ old[n + 1] = p
      /\ \A i \in 1..n : old[i] = v[i]
  BY <1>1
<1>3. p[2] = b
  BY <1>2 DEF Run
<1>4. q \in Piece /\ q[1] = p[1] /\ q[2] = c
  BY <1>1, <1>3 DEF Piece
<1> HIDE DEF q
<1>5. /\ new \in Seq(Piece) /\ Len(new) = n + 1 /\ new[n + 1] = q /\ new # <<>>
      /\ \A i \in 1..n : new[i] = v[i]
  BY <1>1, <1>4
<1>6. old[1][1] = a /\ \A i \in 1..n : old[i + 1][1] = old[i][2] + 1
  <2>1. (n + 1) - 1 = n
    BY <1>1
  <2> QED
    BY <1>2, <2>1 DEF Run
<1> HIDE DEF old, new
<1>7. \A i \in 1..(n + 1) : new[i][1] = old[i][1]
  BY <1>1, <1>2, <1>4, <1>5
<1>8. \A i \in 1..n : new[i][2] = old[i][2]
  BY <1>2, <1>5
<1>9. new[1][1] = a /\ \A i \in 1..n : new[i + 1][1] = new[i][2] + 1
  <2>1. 1 \in 1..(n + 1) /\ \A i \in 1..n : i + 1 \in 1..(n + 1)
    BY <1>1
  <2> QED
    BY <1>6, <1>7, <1>8, <2>1
<1>10. Run(new, a, c)
  <2>1. (n + 1) - 1 = n
    BY <1>1
  <2> QED
    BY <1>4, <1>5, <1>9, <2>1 DEF Run
<1> QED
  BY <1>3, <1>4, <1>10 DEF new, q

-----------------------------------------------------------------------------
(* Words put together: _hard_split.                                        *)

\* Words from a to b have been collected into pieces within the limit.
Collected(acc, spaces, limit, a, b) ==
  /\ acc.pieces \in Seq(Fit(spaces, limit)) /\ acc.current \in Fit(spaces, limit)
  /\ Run(Append(acc.pieces, acc.current), a, b)

LEMMA PieceFacts ==
  ASSUME NEW p \in Piece
  PROVE  p # <<>> /\ p = <<p[1], p[2]>> /\ p[1] \in Nat /\ p[2] \in Nat /\ p[1] <= p[2]
BY DEF Piece

LEMMA FitIsPiece ==
  ASSUME NEW spaces, NEW limit
  PROVE  Fit(spaces, limit) \subseteq Piece
BY DEF Fit

LEMMA AddFirstWord ==
  ASSUME NEW spaces, NEW w \in Unbroken(spaces), NEW limit \in Nat \ {0},
         NEW acc, acc = [pieces |-> <<>>, current |-> <<>>]
  PROVE  Collected(AddWord(acc, w, spaces, limit), spaces, limit, w[1], w[2])
<1> DEFINE ch == Chop(w, limit)
           S == Fit(spaces, limit)
           new == AddWord(acc, w, spaces, limit)
<1>1. Run(ch, w[1], w[2]) /\ ch \in Seq(S) /\ ch # <<>>
  BY ChopFits DEF Run
<1>2. acc.current = <<>> /\ Flush(acc) = <<>>
  BY DEF Flush
<1>3. new = [pieces |-> <<>> \o Front(ch), current |-> Last(ch)]
  BY <1>2 DEF AddWord
<1> HIDE DEF ch, S, new
<1>4. Front(ch) \in Seq(S) /\ Last(ch) \in S /\ <<>> \in Seq(S)
      /\ Append(<<>> \o Front(ch), Last(ch)) = <<>> \o ch
  <2>1. <<>> \in Seq(S)
    OBVIOUS
  <2> QED
    BY <1>1, <2>1, FrontLast, Zenon
<1>5. <<>> \o Front(ch) = Front(ch) /\ <<>> \o ch = ch
  BY <1>1, <1>4, ConcatEmptySeq
<1>6. new.pieces = Front(ch) /\ new.current = Last(ch)
  BY <1>3, <1>5
<1>7. Append(new.pieces, new.current) = ch
  BY <1>4, <1>5, <1>6
<1> QED
  BY <1>1, <1>4, <1>6, <1>7 DEF Collected, S, new

LEMMA AddNextWord ==
  ASSUME NEW spaces, NEW w \in Unbroken(spaces), NEW limit \in Nat \ {0},
         NEW acc, NEW a, NEW b, Collected(acc, spaces, limit, a, b), w[1] = b + 1
  PROVE  Collected(AddWord(acc, w, spaces, limit), spaces, limit, a, w[2])
<1> DEFINE ch == Chop(w, limit)
           S == Fit(spaces, limit)
           new == AddWord(acc, w, spaces, limit)
           joined == <<First(acc.current), Final(Last(ch))>>
           run == Append(acc.pieces, acc.current)
           Joins == Len(ch) = 1 /\ acc.current # <<>> /\ Length(joined, spaces) <= limit
<1>1. Run(ch, b + 1, w[2]) /\ ch \in Seq(S) /\ ch # <<>>
  BY ChopFits DEF Run
<1>2. acc.pieces \in Seq(S) /\ acc.current \in S /\ Run(run, a, b)
  BY DEF Collected
<1>3. S \subseteq Piece
  BY FitIsPiece
<1>4. acc.current # <<>> /\ Flush(acc) = run
  <2>1. acc.current # <<>>
    BY <1>2, <1>3, PieceFacts
  <2> QED
    BY <2>1 DEF Flush
<1>5. new = IF Joins THEN [pieces |-> acc.pieces, current |-> joined]
            ELSE [pieces |-> Flush(acc) \o Front(ch), current |-> Last(ch)]
  BY DEF AddWord
<1> HIDE DEF ch, S, new
<1>6. CASE Joins
  <2>1. Last(ch) = ch[Len(ch)]
    BY DEF Last
  <2>2. Final(Last(ch)) = w[2]
    BY <1>1, <2>1 DEF Run, Final
  <2>3. joined = <<acc.current[1], w[2]>>
    BY <2>2 DEF First
  <2>4. w[2] \in Nat /\ w[2] >= b
    <3>1. w \in Piece
      BY DEF Unbroken
    <3>2. b \in Nat
      BY <1>2, RunEnds
    <3> QED
      BY <3>1, <3>2, PieceFacts
  <2>5. acc.pieces \in Seq(Piece) /\ acc.current \in Piece
    BY <1>2, <1>3, SeqMonotonic
  <2>6. joined \in Piece /\ Run(Append(acc.pieces, joined), a, w[2])
    BY <1>2, <2>3, <2>4, <2>5, RunStretch
  <2>7. Length(joined, spaces) <= limit
    BY <1>6
  <2> HIDE DEF joined
  <2>8. joined \in S
    BY <2>6, <2>7 DEF S, Fit
  <2>9. new.pieces = acc.pieces /\ new.current = joined
    BY <1>5, <1>6
  <2> QED
    BY <1>2, <2>6, <2>8, <2>9 DEF Collected, S, new
<1>7. CASE ~Joins
  <2>1. new.pieces = run \o Front(ch) /\ new.current = Last(ch)
    BY <1>4, <1>5, <1>7
  <2>2. run \in Seq(S)
    BY <1>2
  <2> HIDE DEF run
  <2>3. Front(ch) \in Seq(S) /\ Last(ch) \in S
        /\ Append(run \o Front(ch), Last(ch)) = run \o ch
    BY <1>1, <2>2, FrontLast
  <2>4. Run(run \o ch, a, w[2])
    BY <1>1, <1>2, RunConcat
  <2>5. run \o Front(ch) \in Seq(S)
    BY <2>2, <2>3
  <2> QED
    BY <2>1, <2>3, <2>4, <2>5 DEF Collected, S, new
<1> QED
  BY <1>6, <1>7

\* Whatever has been collected, another word leaves a row of pieces and one at its end.
Accs == [pieces : Seq(Nat \X Nat), current : {<<>>} \cup (Nat \X Nat)]

LEMMA AddWordType ==
  ASSUME NEW w \in Piece, NEW spaces, NEW limit \in Nat \ {0}, NEW acc \in Accs
  PROVE  AddWord(acc, w, spaces, limit) \in Accs
<1> DEFINE ch == Chop(w, limit)
           new == AddWord(acc, w, spaces, limit)
           joined == <<First(acc.current), Final(Last(ch))>>
           Joins == Len(ch) = 1 /\ acc.current # <<>> /\ Length(joined, spaces) <= limit
<1>0. w \in Unbroken({})
  BY DEF Unbroken
<1>1. ch \in Seq(Nat \X Nat) /\ ch # <<>>
  <2>1. Run(ch, w[1], w[2]) /\ ch \in Seq(Fit({}, limit))
    BY <1>0, ChopFits
  <2>2. Fit({}, limit) \subseteq Nat \X Nat
    BY DEF Fit, Piece
  <2> HIDE DEF ch
  <2>3. ch \in Seq(Nat \X Nat)
    BY <2>1, <2>2, SeqMonotonic
  <2> QED
    BY <2>1, <2>3 DEF Run
<1>2. new = IF Joins THEN [pieces |-> acc.pieces, current |-> joined]
            ELSE [pieces |-> Flush(acc) \o Front(ch), current |-> Last(ch)]
  BY DEF AddWord
<1> HIDE DEF ch, new
<1>3. Front(ch) \in Seq(Nat \X Nat) /\ Last(ch) \in Nat \X Nat
  <2>1. <<>> \in Seq(Nat \X Nat)
    OBVIOUS
  <2> QED
    BY <1>1, <2>1, FrontLast
<1>4. acc.pieces \in Seq(Nat \X Nat) /\ (acc.current = <<>> \/ acc.current \in Nat \X Nat)
  BY DEF Accs
<1>5. Flush(acc) \in Seq(Nat \X Nat)
  BY <1>4 DEF Flush
<1>6. acc.current # <<>> => joined \in Nat \X Nat
  BY <1>3, <1>4 DEF First, Final
<1>7. Flush(acc) \o Front(ch) \in Seq(Nat \X Nat)
  BY <1>3, <1>5
<1> HIDE DEF joined
<1> QED
  BY <1>2, <1>3, <1>4, <1>6, <1>7 DEF Accs, new

\* The words of a piece are collected one after the other.
LEMMA WordsCollected ==
  ASSUME NEW p \in Piece, NEW spaces, NEW limit \in Nat \ {0}
  PROVE  \E acc : /\ acc[0] = [pieces |-> <<>>, current |-> <<>>]
                  /\ \A k \in 1..Len(Parts(p, spaces)) :
                       acc[k] = AddWord(acc[k - 1], Parts(p, spaces)[k], spaces, limit)
                  /\ HardSplit(p, spaces, limit) = Flush(acc[Len(Parts(p, spaces))])
<1> DEFINE words == Parts(p, spaces)
           n == Len(words)
           base == [pieces |-> <<>>, current |-> <<>>]
           Is(it) == it = [s \in SUBSET (1..n) |->
                             IF s = {} THEN base
                             ELSE AddWord(it[s \ {Max(s)}], words[Max(s)], spaces, limit)]
           step == [i \in 1..n |-> [x \in Accs |-> AddWord(x, words[i], spaces, limit)]]
<1>1. words \in Seq(Piece) /\ n \in Nat /\ \A i \in 1..n : words[i] \in Piece
  BY PartsCover DEF Run
<1>2. \A i \in 1..n : \A x \in Accs : step[i][x] \in Accs
  BY <1>1, AddWordType
<1>3. base \in Accs /\ DOMAIN words = 1..n
  BY <1>1 DEF Accs
<1>4. HardSplit(p, spaces, limit) = Flush((CHOOSE it : Is(it))[1..n])
  BY <1>3 DEF HardSplit, FoldLeft, MapThenFoldSet
<1> HIDE DEF words, n, base
<1>5. PICK iter \in [SUBSET (1..n) -> Accs] : Folds(iter, n, base, step)
  <2> HIDE DEF step
  <2> QED
    BY <1>1, <1>2, <1>3, FoldExists
<1>6. Is(iter)
  <2>1. iter = [s \in SUBSET (1..n) |-> IF s = {} THEN base ELSE step[Max(s)][iter[s \ {Max(s)}]]]
    BY <1>5 DEF Folds
  <2>2. ASSUME NEW s \in SUBSET (1..n), s # {}
        PROVE  step[Max(s)][iter[s \ {Max(s)}]]
                 = AddWord(iter[s \ {Max(s)}], words[Max(s)], spaces, limit)
    <3>1. Max(s) \in 1..n
      BY <1>1, <2>2, MaxOf
    <3>2. iter[s \ {Max(s)}] \in Accs
      BY <1>5
    <3> QED
      BY <3>1, <3>2
  <2>3. ASSUME NEW s \in SUBSET (1..n)
        PROVE  iter[s] = IF s = {} THEN base
                         ELSE AddWord(iter[s \ {Max(s)}], words[Max(s)], spaces, limit)
    BY <2>1, <2>2
  <2> QED
    BY <1>5, <2>3
<1> DEFINE the == CHOOSE it : Is(it)
<1>7. Is(the)
  <2> HIDE DEF Is
  <2> QED
    BY <1>6, Zenon
<1>8. \A s \in SUBSET (1..n) :
        the[s] = IF s = {} THEN base ELSE AddWord(the[s \ {Max(s)}], words[Max(s)], spaces, limit)
  BY <1>7
<1>9. HardSplit(p, spaces, limit) = Flush(the[1..n])
  BY <1>4
<1> HIDE DEF the, Is, step
<1> DEFINE acc == [k \in 0..n |-> the[1..k]]
<1>10. acc[0] = base
  <2>1. 1..0 = {} /\ {} \in SUBSET (1..n) /\ 0 \in 0..n
    BY <1>1
  <2>2. the[{}] = base
    BY <1>8, <2>1
  <2> QED
    BY <2>1, <2>2
<1>11. ASSUME NEW k \in 1..n
       PROVE  acc[k] = AddWord(acc[k - 1], words[k], spaces, limit)
  <2>1. /\ Max(1..k) = k /\ (1..k) \ {k} = 1..(k - 1) /\ 1..k # {}
        /\ 1..k \in SUBSET (1..n)
    BY <1>1, FoldRises
  <2>2. the[1..k] = AddWord(the[(1..k) \ {Max(1..k)}], words[Max(1..k)], spaces, limit)
    BY <1>8, <2>1
  <2>3. the[1..k] = AddWord(the[1..(k - 1)], words[k], spaces, limit)
    BY <2>1, <2>2, Zenon
  <2>4. acc[k] = the[1..k] /\ acc[k - 1] = the[1..(k - 1)]
    BY <1>1
  <2> QED
    BY <2>3, <2>4
<1>12. HardSplit(p, spaces, limit) = Flush(acc[n])
  BY <1>1, <1>9
<1> HIDE DEF acc
<1> QED
  BY <1>10, <1>11, <1>12 DEF words, n, base

\* _hard_split cuts a piece into pieces within the limit that cover it.
LEMMA HardSplitFits ==
  ASSUME NEW p \in Piece, NEW spaces, NEW limit \in Nat \ {0}
  PROVE  /\ Run(HardSplit(p, spaces, limit), p[1], p[2])
         /\ HardSplit(p, spaces, limit) \in Seq(Fit(spaces, limit))
<1> DEFINE words == Parts(p, spaces)
           n == Len(words)
<1>1. Run(words, p[1], p[2]) /\ words \in Seq(Unbroken(spaces))
  BY PartsCover
<1>2. PICK acc : /\ acc[0] = [pieces |-> <<>>, current |-> <<>>]
                 /\ \A k \in 1..n : acc[k] = AddWord(acc[k - 1], words[k], spaces, limit)
                 /\ HardSplit(p, spaces, limit) = Flush(acc[n])
  BY WordsCollected
<1> HIDE DEF words
<1>3. n \in Nat \ {0} /\ \A k \in 1..n : words[k] \in Unbroken(spaces)
  <2>1. n \in Nat \ {0}
    BY <1>1, RunEnds
  <2> QED
    BY <1>1, <2>1
<1>4. words[1][1] = p[1] /\ words[n][2] = p[2]
      /\ \A k \in 1..(n - 1) : words[k + 1][1] = words[k][2] + 1
  BY <1>1 DEF Run
<1> HIDE DEF n
<1> DEFINE Good == {k \in 1..n : Collected(acc[k], spaces, limit, p[1], words[k][2])}
<1>5. 1 \in Good
  <2>1. 1 \in 1..n /\ 1 - 1 = 0
    BY <1>3
  <2>2. acc[1] = AddWord(acc[0], words[1], spaces, limit) /\ words[1] \in Unbroken(spaces)
    BY <1>2, <1>3, <2>1
  <2>3. Collected(acc[1], spaces, limit, words[1][1], words[1][2])
    BY <1>2, <2>2, AddFirstWord
  <2> QED
    BY <1>4, <2>1, <2>3
<1>6. ASSUME NEW k \in 1..(n - 1), k \in Good PROVE k + 1 \in Good
  <2>1. k + 1 \in 1..n /\ (k + 1) - 1 = k /\ k \in 1..n
    BY <1>3
  <2>2. acc[k + 1] = AddWord(acc[k], words[k + 1], spaces, limit)
        /\ words[k + 1] \in Unbroken(spaces) /\ words[k + 1][1] = words[k][2] + 1
    BY <1>2, <1>3, <1>4, <2>1
  <2>3. Collected(acc[k], spaces, limit, p[1], words[k][2])
    BY <1>6
  <2>4. Collected(acc[k + 1], spaces, limit, p[1], words[k + 1][2])
    BY <2>2, <2>3, AddNextWord
  <2> QED
    BY <2>1, <2>4
<1> HIDE DEF Good
<1>7. 1..n \subseteq Good
  <2>1. 1 \in Int /\ n \in Int
    BY <1>3
  <2> QED
    BY <1>5, <1>6, <2>1, Climb
<1>8. Collected(acc[n], spaces, limit, p[1], p[2])
  BY <1>3, <1>4, <1>7 DEF Good
<1>9. acc[n].current # <<>>
  BY <1>8, FitIsPiece, PieceFacts DEF Collected
<1>10. HardSplit(p, spaces, limit) = Append(acc[n].pieces, acc[n].current)
  BY <1>2, <1>9 DEF Flush
<1>11. Append(acc[n].pieces, acc[n].current) \in Seq(Fit(spaces, limit))
  BY <1>8 DEF Collected
<1> QED
  BY <1>8, <1>10, <1>11 DEF Collected

-----------------------------------------------------------------------------
(* Sentences, clauses and words: _units.                                   *)

\* Cuts of the pieces of a run, put together, are cuts of the whole.
LEMMA FlatCuts ==
  ASSUME NEW S \in SUBSET Piece, NEW u, NEW a, NEW b, Run(u, a, b), NEW ss,
         ss = [i \in DOMAIN u |-> ss[i]],
         \A i \in 1..Len(u) : ss[i] \in Seq(S) /\ Run(ss[i], u[i][1], u[i][2])
  PROVE  Run(FlattenSeq(ss), a, b) /\ FlattenSeq(ss) \in Seq(S)
<1> DEFINE n == Len(u)
<1>1. n \in Nat \ {0} /\ DOMAIN u = 1..n
  BY RunEnds DEF Run
<1>2. ss \in Seq(Seq(S)) /\ Len(ss) = n
  <2>1. ss \in [1..n -> Seq(S)]
    BY <1>1
  <2> HIDE DEF n
  <2>2. n \in Nat
    BY <1>1
  <2> QED
    BY <2>1, <2>2
<1>3. Seq(S) \subseteq Seq(Piece)
  BY SeqMonotonic
<1>4. ss \in Seq(Seq(Piece))
  BY <1>2, <1>3, SeqMonotonic
<1>5. Grouped(ss, a, b)
  BY <1>2, <1>4 DEF Grouped
<1>6. Run(FlattenSeq(ss), a, b)
  BY <1>5, FlatRun
<1>7. ss # <<>>
  BY <1>1, <1>2
<1>8. PICK f : /\ \A k \in 1..Len(ss) : f[k] \in Seq(S)
               /\ FlattenSeq(ss) = f[Len(ss)]
  BY <1>2, <1>7, Flattened, ZenonT(60)
<1>9. FlattenSeq(ss) \in Seq(S)
  BY <1>1, <1>2, <1>8
<1> QED
  BY <1>6, <1>9

LEMMA UnitsFit ==
  ASSUME NEW p \in Piece, NEW text, NEW limit \in Nat \ {0}
  PROVE  /\ Run(Units(text, p, limit), p[1], p[2])
         /\ Units(text, p, limit) \in Seq(Fit(text.spaces, limit))
<1> DEFINE S == Fit(text.spaces, limit)
           ofClause(c) == IF Length(c, text.spaces) <= limit THEN <<c>>
                          ELSE HardSplit(c, text.spaces, limit)
           clauses(s) == [i \in DOMAIN Parts(s, text.clauses) |-> ofClause(Parts(s, text.clauses)[i])]
           ofSentence(s) == IF Length(s, text.spaces) <= limit THEN <<s>> ELSE FlattenSeq(clauses(s))
           sentences == Parts(p, text.sentences)
           units == [i \in DOMAIN sentences |-> ofSentence(sentences[i])]
<1>0. S \in SUBSET Piece
  BY FitIsPiece
<1>1. ASSUME NEW c \in Piece
      PROVE  ofClause(c) \in Seq(S) /\ Run(ofClause(c), c[1], c[2])
  <2>1. CASE Length(c, text.spaces) <= limit
    <3>1. c \in S /\ Run(<<c>>, c[1], c[2])
      BY <2>1, RunOfOne DEF Fit
    <3> HIDE DEF S
    <3>2. <<c>> \in Seq(S)
      BY <3>1
    <3> QED
      BY <2>1, <3>1, <3>2
  <2>2. CASE ~(Length(c, text.spaces) <= limit)
    BY <2>2, HardSplitFits
  <2> QED
    BY <2>1, <2>2
<1>2. Units(text, p, limit) = FlattenSeq(units)
  BY DEF Units
<1> HIDE DEF ofClause, S
<1>3. ASSUME NEW s \in Piece
      PROVE  ofSentence(s) \in Seq(S) /\ Run(ofSentence(s), s[1], s[2])
  <2>1. CASE Length(s, text.spaces) <= limit
    <3>1. s \in S /\ Run(<<s>>, s[1], s[2])
      BY <2>1, RunOfOne DEF Fit, S
    <3>2. <<s>> \in Seq(S)
      BY <3>1
    <3> QED
      BY <2>1, <3>1, <3>2
  <2>2. CASE ~(Length(s, text.spaces) <= limit)
    <3> DEFINE u == Parts(s, text.clauses)
               cs == clauses(s)
    <3>1. Run(u, s[1], s[2])
      BY PartsCover
    <3>2. cs = [i \in DOMAIN u |-> ofClause(u[i])]
      OBVIOUS
    <3> HIDE DEF u, cs
    <3>3. DOMAIN u = 1..Len(u) /\ \A i \in 1..Len(u) : u[i] \in Piece
      BY <3>1, RunEnds DEF Run
    <3>4. \A i \in 1..Len(u) : cs[i] \in Seq(S) /\ Run(cs[i], u[i][1], u[i][2])
      BY <1>1, <3>2, <3>3
    <3>5. cs = [i \in DOMAIN u |-> cs[i]]
      BY <3>2
    <3>6. Run(FlattenSeq(cs), s[1], s[2]) /\ FlattenSeq(cs) \in Seq(S)
      BY <1>0, <3>1, <3>4, <3>5, FlatCuts
    <3> QED
      BY <2>2, <3>6 DEF cs
  <2> QED
    BY <2>1, <2>2
<1>4. Run(sentences, p[1], p[2])
  BY PartsCover
<1> HIDE DEF ofSentence, sentences
<1>5. units = [i \in DOMAIN sentences |-> ofSentence(sentences[i])]
  OBVIOUS
<1> HIDE DEF units
<1>6. DOMAIN sentences = 1..Len(sentences) /\ \A i \in 1..Len(sentences) : sentences[i] \in Piece
  BY <1>4, RunEnds DEF Run
<1>7. \A i \in 1..Len(sentences) :
        units[i] \in Seq(S) /\ Run(units[i], sentences[i][1], sentences[i][2])
  BY <1>3, <1>5, <1>6
<1>8. units = [i \in DOMAIN sentences |-> units[i]]
  BY <1>5
<1>9. Run(FlattenSeq(units), p[1], p[2]) /\ FlattenSeq(units) \in Seq(S)
  BY <1>0, <1>4, <1>7, <1>8, FlatCuts
<1> QED
  BY <1>2, <1>9 DEF S

-----------------------------------------------------------------------------
(* Rows of groups.                                                         *)

LEMMA GroupedEnds ==
  ASSUME NEW gs, NEW a, NEW b, Grouped(gs, a, b)
  PROVE  gs # <<>> /\ Len(gs) \in Nat \ {0} /\ a \in Nat /\ b \in Nat /\ a <= b
<1>1. PICK p : Run(p, a, b) /\ Len(p) = Len(gs)
  BY DEF Grouped
<1>2. Len(p) \in Nat \ {0} /\ a \in Nat /\ b \in Nat
  BY <1>1, RunEnds
<1>3. a <= b
  BY <1>1, RunInside
<1> QED
  BY <1>1, <1>2, <1>3 DEF Grouped

LEMMA GroupedStart ==
  ASSUME NEW g, NEW a, NEW b, Run(g, a, b)
  PROVE  Grouped(<<g>>, a, b)
<1> DEFINE p == <<<<a, b>>>>
           gs == <<g>>
<1>1. <<a, b>> \in Piece
  BY RunEnds, RunInside DEF Piece
<1>2. Run(p, a, b) /\ Len(p) = 1 /\ p[1][1] = a /\ p[1][2] = b
  BY <1>1, RunOfOne
<1>3. gs \in Seq(Seq(Piece)) /\ Len(gs) = 1 /\ gs[1] = g
  BY DEF Run
<1> HIDE DEF p, gs
<1>4. \A i \in 1..Len(gs) : Run(gs[i], p[i][1], p[i][2])
  BY <1>2, <1>3
<1>5. Grouped(gs, a, b)
  BY <1>2, <1>3, <1>4, Zenon DEF Grouped
<1> QED
  BY <1>5 DEF gs

\* A group after the others.
LEMMA GroupedAppend ==
  ASSUME NEW gs, NEW g, NEW a, NEW b, NEW c, Grouped(gs, a, b), Run(g, b + 1, c)
  PROVE  Grouped(Append(gs, g), a, c)
<1>1. PICK p : /\ Run(p, a, b) /\ Len(p) = Len(gs)
               /\ \A i \in 1..Len(gs) : Run(gs[i], p[i][1], p[i][2])
  BY DEF Grouped
<1> DEFINE n == Len(gs)
           q == <<<<b + 1, c>>>>
           more == Append(gs, g)
           w == p \o q
<1>2. n \in Nat \ {0} /\ p \in Seq(Piece)
  BY <1>1, GroupedEnds DEF Run
<1>3. <<b + 1, c>> \in Piece
  BY RunEnds, RunInside DEF Piece
<1>4. Run(q, b + 1, c) /\ q \in Seq(Piece) /\ Len(q) = 1
      /\ q[1][1] = b + 1 /\ q[1][2] = c
  BY <1>3, RunOfOne
<1> HIDE DEF q
<1>5. Run(w, a, c)
  BY <1>1, <1>4, RunConcat
<1>6. Len(w) = n + 1 /\ w[n + 1] = q[1] /\ \A i \in 1..n : w[i] = p[i]
  <2>1. Len(p) \in Nat /\ 1 \in 1..Len(q)
    BY <1>2, <1>4
  <2>2. Len(w) = Len(p) + Len(q) /\ \A i \in 1..Len(p) : w[i] = p[i]
    BY <1>2, <1>4, ConcatAt, ZenonT(60)
  <2>3. \A i \in 1..Len(q) : w[Len(p) + i] = q[i]
    <3>1. p \in Seq(Piece) /\ q \in Seq(Piece)
      BY <1>2, <1>4
    <3>2. \A i \in 1..Len(q) : (p \o q)[Len(p) + i] = q[i]
      BY <3>1, ConcatAt
    <3> QED
      BY <3>2, Zenon
  <2> HIDE DEF w, n
  <2>4. n = Len(p)
    BY <1>1 DEF n
  <2> QED
    BY <1>4, <2>1, <2>2, <2>3, <2>4
<1>7. more \in Seq(Seq(Piece)) /\ Len(more) = n + 1 /\ more[n + 1] = g
      /\ \A i \in 1..n : more[i] = gs[i]
  BY <1>2 DEF Grouped, Run
<1> HIDE DEF w, more
<1>8. ASSUME NEW i \in 1..Len(more) PROVE Run(more[i], w[i][1], w[i][2])
  <2>1. i = n + 1 \/ i \in 1..n
    BY <1>2, <1>7
  <2>2. CASE i = n + 1
    BY <1>4, <1>6, <1>7, <2>2
  <2>3. CASE i \in 1..n
    <3>1. Run(gs[i], p[i][1], p[i][2])
      BY <1>1, <2>3
    <3> QED
      BY <1>6, <1>7, <2>3, <3>1
  <2> QED
    BY <2>1, <2>2, <2>3
<1>9. Grouped(more, a, c)
  BY <1>5, <1>6, <1>7, <1>8, ZenonT(60) DEF Grouped
<1> QED
  BY <1>9 DEF more

\* A unit after the last group's.
LEMMA GroupedStretch ==
  ASSUME NEW gs \in Seq(Seq(Piece)), NEW g, NEW a, NEW b, Grouped(Append(gs, g), a, b),
         NEW u \in Piece, u[1] = b + 1, g \in Seq(Piece)
  PROVE  Grouped(Append(gs, Append(g, u)), a, u[2])
<1> DEFINE n == Len(gs)
           old == Append(gs, g)
           longer == Append(g, u)
           new == Append(gs, longer)
           c == u[2]
<1>1. PICK p : /\ Run(p, a, b) /\ Len(p) = Len(old)
               /\ \A i \in 1..Len(old) : Run(old[i], p[i][1], p[i][2])
  BY DEF Grouped
<1>2. n \in Nat /\ Len(old) = n + 1 /\ old[n + 1] = g /\ \A i \in 1..n : old[i] = gs[i]
  OBVIOUS
<1>3. longer \in Seq(Piece)
  OBVIOUS
<1>4. new \in Seq(Seq(Piece)) /\ Len(new) = n + 1 /\ new[n + 1] = longer
      /\ \A i \in 1..n : new[i] = gs[i]
  BY <1>3
<1> HIDE DEF old, new
<1>5. p \in Seq(Piece) /\ p[1][1] = a /\ p[n + 1][2] = b
      /\ \A i \in 1..n : p[i + 1][1] = p[i][2] + 1
  <2>1. (n + 1) - 1 = n
    BY <1>2
  <2> QED
    BY <1>1, <1>2, <2>1 DEF Run
<1> DEFINE last == <<p[n + 1][1], c>>
           q == [i \in 1..(n + 1) |-> IF i = n + 1 THEN last ELSE p[i]]
<1>6. n + 1 \in 1..(n + 1) /\ \A i \in 1..n : i \in 1..(n + 1) /\ i # n + 1
  BY <1>2
<1>7. last \in Piece /\ last[1] = p[n + 1][1] /\ last[2] = c
  <2>1. p[n + 1] \in Piece /\ u \in Piece
    BY <1>1, <1>2, <1>6, RunEnds
  <2> QED
    BY <1>5, <2>1 DEF Piece
<1> HIDE DEF last
<1>8. q[n + 1] = last /\ \A i \in 1..n : q[i] = p[i]
  BY <1>6
<1>9. q \in Seq(Piece) /\ Len(q) = n + 1 /\ q # <<>>
  <2>1. \A i \in 1..(n + 1) : p[i] \in Piece
    BY <1>1, <1>2, RunEnds
  <2>2. q \in [1..(n + 1) -> Piece] /\ n + 1 \in Nat
    BY <1>2, <1>7, <2>1
  <2> HIDE DEF q
  <2>3. q \in Seq(Piece) /\ Len(q) = n + 1
    BY <2>2
  <2> QED
    BY <1>2, <2>3
<1> HIDE DEF q
<1>10. \A i \in 1..(n + 1) : q[i][1] = p[i][1]
  <2>1. \A i \in 1..(n + 1) : i = n + 1 \/ i \in 1..n
    BY <1>2
  <2> QED
    BY <1>7, <1>8, <2>1
<1>11. Run(q, a, c)
  <2>1. q[1][1] = a
    <3>1. 1 \in 1..(n + 1)
      BY <1>2
    <3> QED
      BY <1>5, <1>10, <3>1
  <2>2. ASSUME NEW i \in 1..n PROVE q[i + 1][1] = q[i][2] + 1
    <3>1. i + 1 \in 1..(n + 1)
      BY <1>2
    <3> QED
      BY <1>5, <1>8, <1>10, <3>1
  <2>3. Len(q) - 1 = n /\ q[Len(q)][2] = c
    BY <1>2, <1>7, <1>8, <1>9
  <2> QED
    BY <1>9, <2>1, <2>2, <2>3 DEF Run
<1>12. Run(longer, q[n + 1][1], q[n + 1][2])
  <2>1. Run(g, p[n + 1][1], b)
    BY <1>1, <1>2, <1>5, <1>6
  <2>2. Run(<<u>>, b + 1, c)
    BY RunOfOne
  <2>3. longer = g \o <<u>>
    BY AppendIsConcat
  <2>4. Run(g \o <<u>>, p[n + 1][1], c)
    BY <2>1, <2>2, RunConcat
  <2> QED
    BY <1>7, <1>8, <2>3, <2>4
<1> HIDE DEF longer
<1>13. ASSUME NEW i \in 1..Len(new) PROVE Run(new[i], q[i][1], q[i][2])
  <2>1. i = n + 1 \/ i \in 1..n
    BY <1>2, <1>4
  <2>2. CASE i = n + 1
    BY <1>4, <1>12, <2>2
  <2>3. CASE i \in 1..n
    <3>1. Run(old[i], p[i][1], p[i][2])
      BY <1>1, <1>2, <1>6, <2>3
    <3> QED
      BY <1>2, <1>4, <1>8, <2>3, <3>1
  <2> QED
    BY <2>1, <2>2, <2>3
<1>14. Grouped(new, a, c)
  BY <1>4, <1>9, <1>11, <1>13, Zenon DEF Grouped
<1> QED
  BY <1>14 DEF new, longer

\* The first group, and the row after it.
LEMMA GroupedTail ==
  ASSUME NEW gs, NEW a, NEW b, Grouped(gs, a, b)
  PROVE  \E m : /\ Run(Head(gs), a, m)
                /\ \/ Tail(gs) = <<>> /\ m = b
                   \/ Grouped(Tail(gs), m + 1, b)
<1>1. PICK p : /\ Run(p, a, b) /\ Len(p) = Len(gs)
               /\ \A i \in 1..Len(gs) : Run(gs[i], p[i][1], p[i][2])
  BY DEF Grouped
<1> DEFINE n == Len(gs)
           m == p[1][2]
           q == Tail(p)
           rest == Tail(gs)
<1>2. n \in Nat \ {0} /\ gs \in Seq(Seq(Piece)) /\ gs # <<>> /\ p \in Seq(Piece) /\ p # <<>>
  BY <1>1, GroupedEnds DEF Grouped, Run
<1>3. Head(gs) = gs[1] /\ 1 \in 1..n /\ p[1][1] = a
  BY <1>1, <1>2 DEF Run
<1>4. Run(Head(gs), a, m)
  BY <1>1, <1>3
<1>5. /\ rest \in Seq(Seq(Piece)) /\ Len(rest) = n - 1
      /\ \A i \in 1..(n - 1) : rest[i] = gs[i + 1]
  BY <1>2
<1>6. q \in Seq(Piece) /\ Len(q) = n - 1 /\ \A i \in 1..(n - 1) : q[i] = p[i + 1]
  BY <1>1, <1>2
<1>7. p[n][2] = b /\ \A i \in 1..(n - 1) : p[i + 1][1] = p[i][2] + 1
  BY <1>1 DEF Run
<1>8. CASE n = 1
  <2>1. rest = <<>>
    <3> HIDE DEF rest, n
    <3>1. Len(rest) = 0 /\ rest \in Seq(Seq(Piece))
      BY <1>5, <1>8
    <3> QED
      BY <3>1, EmptySeq
  <2>2. b = m
    BY <1>7, <1>8
  <2> HIDE DEF m, rest, n
  <2> QED
    BY <1>4, <2>1, <2>2 DEF rest
<1>9. CASE n # 1
  <2> HIDE DEF q, rest, n
  <2>1. q # <<>> /\ 1 \in 1..(n - 1) /\ n - 1 \in 1..(n - 1) /\ (n - 1) + 1 = n /\ n - 1 \in Nat
    BY <1>2, <1>6, <1>9
  <2>2. q[1][1] = m + 1 /\ q[n - 1][2] = b
    BY <1>6, <1>7, <2>1
  <2>3. ASSUME NEW i \in 1..((n - 1) - 1) PROVE q[i + 1][1] = q[i][2] + 1
    <3>1. i \in 1..(n - 1) /\ i + 1 \in 1..(n - 1)
      BY <2>1
    <3> QED
      BY <1>6, <1>7, <3>1
  <2>4. Run(q, m + 1, b)
    BY <1>6, <2>1, <2>2, <2>3 DEF Run
  <2>5. ASSUME NEW i \in 1..(n - 1) PROVE Run(rest[i], q[i][1], q[i][2])
    <3>1. i + 1 \in 1..n
      BY <2>1
    <3> QED
      BY <1>1, <1>5, <1>6, <3>1 DEF n
  <2>6. Grouped(rest, m + 1, b)
    BY <1>5, <1>6, <2>4, <2>5 DEF Grouped
  <2> QED
    BY <1>4, <2>6 DEF rest
<1> QED
  BY <1>8, <1>9

-----------------------------------------------------------------------------
(* Units put together: _pack.                                              *)

\* Groups within the limit.
Small(spaces, limit) == {g \in Seq(Piece) : GroupLength(g, spaces) <= limit}

\* Units from a to b have been put into groups within the limit.
Packed(acc, spaces, limit, a, b) ==
  /\ acc.groups \in Seq(Small(spaces, limit)) /\ acc.current \in Small(spaces, limit)
  /\ acc.current # <<>> /\ Grouped(Append(acc.groups, acc.current), a, b)

LEMMA AddFirstUnit ==
  ASSUME NEW spaces, NEW limit \in Nat \ {0}, NEW u \in Fit(spaces, limit), NEW size,
         NEW acc, acc = [groups |-> <<>>, current |-> <<>>]
  PROVE  Packed(AddUnit(acc, u, spaces, size), spaces, limit, u[1], u[2])
<1> DEFINE one == <<u>>
           new == AddUnit(acc, u, spaces, size)
<1>1. u \in Piece /\ Length(u, spaces) <= limit
  BY DEF Fit
<1>2. one \in Seq(Piece) /\ one # <<>> /\ Run(one, u[1], u[2])
  BY <1>1, RunOfOne
<1>3. one \in Small(spaces, limit)
  <2>1. <<>> \in Seq(Piece)
    OBVIOUS
  <2>2. GroupLength(one, spaces) = Length(u, spaces)
    BY <1>1, <2>1, GroupGrows, Zenon
  <2> HIDE DEF one
  <2> QED
    BY <1>1, <1>2, <2>2 DEF Small
<1>4. new.groups = <<>> /\ new.current = one
  BY DEF AddUnit
<1>5. Append(<<>>, one) = <<one>>
  OBVIOUS
<1> HIDE DEF one, new
<1>6. Grouped(<<one>>, u[1], u[2])
  BY <1>2, GroupedStart
<1>7. <<>> \in Seq(Small(spaces, limit))
  OBVIOUS
<1> QED
  BY <1>2, <1>3, <1>4, <1>5, <1>6, <1>7 DEF Packed, new

LEMMA AddNextUnit ==
  ASSUME NEW spaces, NEW limit \in Nat \ {0}, NEW u \in Fit(spaces, limit),
         NEW size \in 1..limit, NEW acc, NEW a, NEW b,
         Packed(acc, spaces, limit, a, b), u[1] = b + 1
  PROVE  Packed(AddUnit(acc, u, spaces, size), spaces, limit, a, u[2])
<1> DEFINE G == Small(spaces, limit)
           one == <<u>>
           longer == Append(acc.current, u)
           row == Append(acc.groups, acc.current)
           new == AddUnit(acc, u, spaces, size)
           Full == GroupLength(acc.current, spaces) + Length(u, spaces) + 1 > size
<1>1. u \in Piece /\ Length(u, spaces) <= limit
  BY DEF Fit
<1>2. /\ acc.groups \in Seq(G) /\ acc.current \in G /\ acc.current # <<>>
      /\ Grouped(row, a, b)
  BY DEF Packed
<1>3. acc.current \in Seq(Piece)
  BY <1>2 DEF Small
<1>4. new = IF Full THEN [groups |-> row, current |-> one]
            ELSE [groups |-> acc.groups, current |-> longer]
  BY <1>2 DEF AddUnit
<1> HIDE DEF new
<1>5. CASE Full
  <2>1. one \in Seq(Piece) /\ one # <<>> /\ Run(one, b + 1, u[2])
    BY <1>1, RunOfOne
  <2>2. GroupLength(one, spaces) = Length(u, spaces)
    BY <1>1, <1>3, GroupGrows, Zenon
  <2>3. new.groups = row /\ new.current = one
    BY <1>4, <1>5
  <2> HIDE DEF one
  <2>4. one \in G
    BY <1>1, <2>1, <2>2 DEF Small
  <2>5. row \in Seq(G)
    BY <1>2
  <2> HIDE DEF row, G
  <2>6. Grouped(Append(row, one), a, u[2])
    BY <1>2, <2>1, GroupedAppend
  <2> QED
    BY <2>1, <2>3, <2>4, <2>5, <2>6 DEF Packed, G, new
<1>6. CASE ~Full
  <2>1. longer \in Seq(Piece) /\ longer # <<>>
    BY <1>1, <1>3
  <2>2. GroupLength(longer, spaces) = GroupLength(acc.current, spaces) + Length(u, spaces) + 1
        /\ GroupLength(acc.current, spaces) \in Int /\ Length(u, spaces) \in Int
    <3>1. GroupLength(longer, spaces) = GroupLength(acc.current, spaces) + Length(u, spaces) + 1
          /\ GroupLength(acc.current, spaces) \in Int
      BY <1>1, <1>3, GroupGrows, Zenon
    <3>2. Length(u, spaces) \in Nat
      BY <1>1, LengthFacts
    <3> QED
      BY <3>1, <3>2
  <2>3. new.groups = acc.groups /\ new.current = longer
    BY <1>4, <1>6
  <2>4. acc.groups \in Seq(Seq(Piece))
    <3>1. G \subseteq Seq(Piece)
      BY DEF Small
    <3> HIDE DEF G
    <3> QED
      BY <1>2, <3>1, SeqMonotonic
  <2>5. Grouped(Append(acc.groups, longer), a, u[2])
    BY <1>1, <1>2, <1>3, <2>4, GroupedStretch
  <2> HIDE DEF longer
  <2>6. GroupLength(longer, spaces) <= limit
    BY <1>6, <2>2
  <2>7. longer \in G
    BY <2>1, <2>6 DEF Small
  <2> HIDE DEF G
  <2> QED
    BY <1>2, <2>1, <2>3, <2>5, <2>7 DEF Packed, G, new
<1> QED
  BY <1>5, <1>6

Rows == [groups : Seq(Seq(Piece)), current : Seq(Piece)]

\* The units are packed one after the other.
LEMMA UnitsPacked ==
  ASSUME NEW units \in Seq(Piece), NEW spaces, NEW size
  PROVE  \E acc : /\ acc[0] = [groups |-> <<>>, current |-> <<>>]
                  /\ \A k \in 1..Len(units) : acc[k] = AddUnit(acc[k - 1], units[k], spaces, size)
                  /\ Pack(units, spaces, size)
                       = IF acc[Len(units)].current = <<>> THEN acc[Len(units)].groups
                         ELSE Append(acc[Len(units)].groups, acc[Len(units)].current)
<1> DEFINE n == Len(units)
           base == [groups |-> <<>>, current |-> <<>>]
           Is(it) == it = [s \in SUBSET (1..n) |->
                             IF s = {} THEN base
                             ELSE AddUnit(it[s \ {Max(s)}], units[Max(s)], spaces, size)]
           step == [i \in 1..n |-> [x \in Rows |-> AddUnit(x, units[i], spaces, size)]]
<1>1. n \in Nat /\ \A i \in 1..n : units[i] \in Piece
  OBVIOUS
<1>2. ASSUME NEW i \in 1..n, NEW x \in Rows PROVE step[i][x] \in Rows
  <2>1. AddUnit(x, units[i], spaces, size) \in Rows
    <3>1. x.groups \in Seq(Seq(Piece)) /\ x.current \in Seq(Piece) /\ units[i] \in Piece
      BY <1>1 DEF Rows
    <3>2. /\ Append(x.groups, x.current) \in Seq(Seq(Piece))
          /\ Append(x.current, units[i]) \in Seq(Piece)
          /\ <<units[i]>> \in Seq(Piece)
      BY <3>1
    <3> QED
      BY <3>1, <3>2 DEF AddUnit, Rows
  <2> QED
    BY <2>1
<1>3. base \in Rows /\ DOMAIN units = 1..n
  BY <1>1 DEF Rows
<1> DEFINE the == CHOOSE it : Is(it)
           packed == the[1..n]
<1>4. Pack(units, spaces, size) = IF packed.current = <<>> THEN packed.groups
                                  ELSE Append(packed.groups, packed.current)
  BY <1>3 DEF Pack, FoldLeft, MapThenFoldSet
<1> HIDE DEF n, base
<1>5. PICK iter \in [SUBSET (1..n) -> Rows] : Folds(iter, n, base, step)
  <2> HIDE DEF step
  <2> QED
    BY <1>1, <1>2, <1>3, FoldExists
<1>6. Is(iter)
  <2>1. iter = [s \in SUBSET (1..n) |-> IF s = {} THEN base ELSE step[Max(s)][iter[s \ {Max(s)}]]]
    BY <1>5 DEF Folds
  <2>2. ASSUME NEW s \in SUBSET (1..n), s # {}
        PROVE  step[Max(s)][iter[s \ {Max(s)}]]
                 = AddUnit(iter[s \ {Max(s)}], units[Max(s)], spaces, size)
    <3>1. Max(s) \in 1..n
      BY <1>1, <2>2, MaxOf
    <3>2. iter[s \ {Max(s)}] \in Rows
      BY <1>5
    <3> QED
      BY <3>1, <3>2
  <2>3. ASSUME NEW s \in SUBSET (1..n)
        PROVE  iter[s] = IF s = {} THEN base
                         ELSE AddUnit(iter[s \ {Max(s)}], units[Max(s)], spaces, size)
    BY <2>1, <2>2
  <2> QED
    BY <1>5, <2>3
<1>7. Is(the)
  <2> HIDE DEF Is
  <2> QED
    BY <1>6, Zenon
<1>8. \A s \in SUBSET (1..n) :
        the[s] = IF s = {} THEN base ELSE AddUnit(the[s \ {Max(s)}], units[Max(s)], spaces, size)
  BY <1>7
<1> HIDE DEF the, Is, step
<1> DEFINE acc == [k \in 0..n |-> the[1..k]]
<1>9. acc[0] = base
  <2>1. 1..0 = {} /\ {} \in SUBSET (1..n) /\ 0 \in 0..n
    BY <1>1
  <2>2. the[{}] = base
    BY <1>8, <2>1
  <2> QED
    BY <2>1, <2>2
<1>10. ASSUME NEW k \in 1..n
       PROVE  acc[k] = AddUnit(acc[k - 1], units[k], spaces, size)
  <2>1. /\ Max(1..k) = k /\ (1..k) \ {k} = 1..(k - 1) /\ 1..k # {}
        /\ 1..k \in SUBSET (1..n)
    BY <1>1, FoldRises
  <2>2. the[1..k] = AddUnit(the[(1..k) \ {Max(1..k)}], units[Max(1..k)], spaces, size)
    BY <1>8, <2>1
  <2>3. the[1..k] = AddUnit(the[1..(k - 1)], units[k], spaces, size)
    BY <2>1, <2>2, Zenon
  <2>4. acc[k] = the[1..k] /\ acc[k - 1] = the[1..(k - 1)]
    BY <1>1
  <2> QED
    BY <2>3, <2>4
<1>11. acc[n] = packed
  BY <1>1
<1> HIDE DEF acc, packed
<1> QED
  BY <1>4, <1>9, <1>10, <1>11 DEF n, base

\* _pack puts units that are within the limit into groups that are, whatever its size.
LEMMA PackFits ==
  ASSUME NEW spaces, NEW limit \in Nat \ {0}, NEW size \in 1..limit,
         NEW units \in Seq(Fit(spaces, limit)), NEW a, NEW b, Run(units, a, b)
  PROVE  /\ Grouped(Pack(units, spaces, size), a, b)
         /\ Pack(units, spaces, size) \in Seq(Small(spaces, limit))
<1> DEFINE n == Len(units)
<1>0. units \in Seq(Piece)
  BY DEF Run
<1>1. n \in Nat \ {0} /\ \A k \in 1..n : units[k] \in Fit(spaces, limit)
  <2>1. n \in Nat \ {0}
    BY RunEnds
  <2> QED
    BY <2>1
<1>2. PICK acc : /\ acc[0] = [groups |-> <<>>, current |-> <<>>]
                 /\ \A k \in 1..n : acc[k] = AddUnit(acc[k - 1], units[k], spaces, size)
                 /\ Pack(units, spaces, size)
                       = IF acc[n].current = <<>> THEN acc[n].groups
                         ELSE Append(acc[n].groups, acc[n].current)
  BY <1>0, UnitsPacked
<1>3. units[1][1] = a /\ units[n][2] = b
      /\ \A k \in 1..(n - 1) : units[k + 1][1] = units[k][2] + 1
  BY DEF Run
<1> HIDE DEF n
<1> DEFINE Good == {k \in 1..n : Packed(acc[k], spaces, limit, a, units[k][2])}
<1>4. 1 \in Good
  <2>1. 1 \in 1..n /\ 1 - 1 = 0
    BY <1>1
  <2>2. acc[1] = AddUnit(acc[0], units[1], spaces, size) /\ units[1] \in Fit(spaces, limit)
    BY <1>1, <1>2, <2>1
  <2>3. Packed(acc[1], spaces, limit, units[1][1], units[1][2])
    BY <1>2, <2>2, AddFirstUnit
  <2> QED
    BY <1>3, <2>1, <2>3
<1>5. ASSUME NEW k \in 1..(n - 1), k \in Good PROVE k + 1 \in Good
  <2>1. k + 1 \in 1..n /\ (k + 1) - 1 = k /\ k \in 1..n
    BY <1>1
  <2>2. acc[k + 1] = AddUnit(acc[k], units[k + 1], spaces, size)
        /\ units[k + 1] \in Fit(spaces, limit) /\ units[k + 1][1] = units[k][2] + 1
    BY <1>1, <1>2, <1>3, <2>1
  <2>3. Packed(acc[k], spaces, limit, a, units[k][2])
    BY <1>5
  <2>4. Packed(acc[k + 1], spaces, limit, a, units[k + 1][2])
    BY <2>2, <2>3, AddNextUnit
  <2> QED
    BY <2>1, <2>4
<1> HIDE DEF Good
<1>6. 1..n \subseteq Good
  <2>1. 1 \in Int /\ n \in Int
    BY <1>1
  <2> QED
    BY <1>4, <1>5, <2>1, Climb
<1>7. Packed(acc[n], spaces, limit, a, b)
  BY <1>1, <1>3, <1>6 DEF Good
<1>8. Pack(units, spaces, size) = Append(acc[n].groups, acc[n].current)
  BY <1>2, <1>7 DEF Packed
<1>9. Append(acc[n].groups, acc[n].current) \in Seq(Small(spaces, limit))
  BY <1>7 DEF Packed
<1> QED
  BY <1>7, <1>8, <1>9 DEF Packed

-----------------------------------------------------------------------------
(* The smallest size that will do: split_sentences.                        *)

\* Where a search from r ends: at a size up to the limit, which is one that will do if it is
\* not the last one looked at.
Ended(size, r, limit, Few) ==
  size \in 1..limit /\ (r[1] <= r[2] => size = r[2] \/ size \in Few)

LEMMA SearchEnds ==
  ASSUME NEW limit \in Nat \ {0}, NEW Few,
         NEW search,
         \A r \in (1..limit) \X (1..limit) :
           search[r] = IF r[1] >= r[2] THEN r[1]
                       ELSE search[IF (r[1] + r[2]) \div 2 \in Few
                                   THEN <<r[1], (r[1] + r[2]) \div 2>>
                                   ELSE <<(r[1] + r[2]) \div 2 + 1, r[2]>>]
  PROVE  \A r \in (1..limit) \X (1..limit) : Ended(search[r], r, limit, Few)
<1> DEFINE D == (1..limit) \X (1..limit)
           Good == {d \in 0..limit : \A r \in D : r[2] - r[1] <= d => Ended(search[r], r, limit, Few)}
<1>1. \A r \in D : r[1] \in 1..limit /\ r[2] \in 1..limit /\ r[2] - r[1] <= limit
  OBVIOUS
<1>2. ASSUME NEW r \in D, NEW d \in Nat, r[2] - r[1] <= d + 1,
             \A x \in D : x[2] - x[1] <= d => Ended(search[x], x, limit, Few)
      PROVE  Ended(search[r], r, limit, Few)
  <2> DEFINE low == r[1]
             high == r[2]
             mid == (low + high) \div 2
  <2>1. low \in 1..limit /\ high \in 1..limit
    BY <1>1
  <2>2. search[r] = IF low >= high THEN low
                    ELSE search[IF mid \in Few THEN <<low, mid>> ELSE <<mid + 1, high>>]
    OBVIOUS
  <2>3. high - low <= d + 1
    BY <1>2
  <2> HIDE DEF low, high, D
  <2>4. CASE low >= high
    <3>1. search[r] = low /\ (low <= high => low = high)
      BY <2>1, <2>2, <2>4
    <3> QED
      BY <2>1, <3>1 DEF Ended, low, high
  <2>5. CASE low < high
    <3>1. mid \in 1..limit /\ mid + 1 \in 1..limit /\ mid - low <= d /\ high - (mid + 1) <= d
          /\ low <= mid /\ mid + 1 <= high
      BY <2>1, <2>3, <2>5
    <3> HIDE DEF mid
    <3>2. <<low, mid>> \in D /\ <<mid + 1, high>> \in D
      BY <2>1, <3>1 DEF D
    <3>3. search[<<low, mid>>] \in 1..limit
          /\ (search[<<low, mid>>] = mid \/ search[<<low, mid>>] \in Few)
      <4>1. <<low, mid>>[2] - <<low, mid>>[1] <= d
        BY <3>1
      <4> QED
        BY <1>2, <3>1, <3>2, <4>1 DEF Ended
    <3>4. search[<<mid + 1, high>>] \in 1..limit
          /\ (search[<<mid + 1, high>>] = high \/ search[<<mid + 1, high>>] \in Few)
      <4>1. <<mid + 1, high>>[2] - <<mid + 1, high>>[1] <= d
        BY <3>1
      <4> QED
        BY <1>2, <3>1, <3>2, <4>1 DEF Ended
    <3>5. ~(low >= high)
      BY <2>1, <2>5
    <3>6. search[r] \in 1..limit /\ (search[r] = high \/ search[r] \in Few)
      BY <2>2, <3>3, <3>4, <3>5
    <3> QED
      BY <3>6 DEF Ended, high
  <2> QED
    BY <2>1, <2>4, <2>5
<1>3. 0 \in Good
  <2>1. ASSUME NEW r \in D, r[2] - r[1] <= 0 PROVE Ended(search[r], r, limit, Few)
    <3>1. r[1] >= r[2] /\ r[1] \in 1..limit
      BY <1>1, <2>1
    <3>2. search[r] = r[1]
      BY <3>1
    <3>3. r[1] <= r[2] => r[1] = r[2]
      BY <1>1, <3>1
    <3> QED
      BY <3>1, <3>2, <3>3 DEF Ended
  <2> QED
    BY <2>1
<1>4. ASSUME NEW d \in 0..(limit - 1), d \in Good PROVE d + 1 \in Good
  <2>1. d \in Nat /\ d + 1 \in 0..limit /\ \A x \in D : x[2] - x[1] <= d => Ended(search[x], x, limit, Few)
    BY <1>4
  <2> HIDE DEF D
  <2>2. \A r \in D : r[2] - r[1] <= d + 1 => Ended(search[r], r, limit, Few)
    BY <1>2, <2>1
  <2> QED
    BY <2>1, <2>2
<1> HIDE DEF Good
<1>5. 0..limit \subseteq Good
  <2>1. 0 \in Int /\ limit \in Int
    OBVIOUS
  <2> QED
    BY <1>3, <1>4, <2>1, Climb
<1>6. limit \in Good
  BY <1>5
<1> QED
  BY <1>1, <1>6 DEF Good

\* And there is such a search: each step narrows what is left.
Narrows(search, limit, Few) ==
  search = [r \in (1..limit) \X (1..limit) |->
     IF r[1] >= r[2] THEN r[1]
     ELSE search[IF (r[1] + r[2]) \div 2 \in Few THEN <<r[1], (r[1] + r[2]) \div 2>>
                 ELSE <<(r[1] + r[2]) \div 2 + 1, r[2]>>]]

LEMMA SearchExists ==
  ASSUME NEW limit \in Nat \ {0}, NEW Few
  PROVE  \E search : Narrows(search, limit, Few)
<1> DEFINE D(d) == {r \in (1..limit) \X (1..limit) : r[2] - r[1] <= d}
           Next_(r) == IF (r[1] + r[2]) \div 2 \in Few THEN <<r[1], (r[1] + r[2]) \div 2>>
                       ELSE <<(r[1] + r[2]) \div 2 + 1, r[2]>>
           Is(f, d) == f = [r \in D(d) |-> IF r[1] >= r[2] THEN r[1] ELSE f[Next_(r)]]
           Done == {d \in 0..limit : \E f : Is(f, d)}
<1>1. ASSUME NEW d \in Nat, NEW r \in D(d + 1), ~(r[1] >= r[2])
      PROVE  Next_(r) \in D(d)
  <2> DEFINE low == r[1]
             high == r[2]
             mid == (low + high) \div 2
  <2>1. low \in 1..limit /\ high \in 1..limit /\ high - low <= d + 1 /\ low < high
    BY <1>1
  <2>2. Next_(r) = IF mid \in Few THEN <<low, mid>> ELSE <<mid + 1, high>>
    OBVIOUS
  <2> HIDE DEF low, high, Next_
  <2>3. mid \in 1..limit /\ mid + 1 \in 1..limit /\ mid - low <= d /\ high - (mid + 1) <= d
    BY <2>1
  <2> HIDE DEF mid
  <2>4. <<low, mid>> \in D(d) /\ <<mid + 1, high>> \in D(d)
    BY <2>1, <2>3
  <2> QED
    BY <2>2, <2>4
<1>2. 0 \in Done
  <2> DEFINE f == [r \in D(0) |-> r[1]]
  <2>1. \A r \in D(0) : r[1] >= r[2]
    OBVIOUS
  <2> HIDE DEF D, Next_
  <2>2. Is(f, 0)
    BY <2>1
  <2> HIDE DEF Is, f
  <2> QED
    BY <2>2
<1> HIDE DEF Next_
<1>3. ASSUME NEW d \in 0..(limit - 1), d \in Done PROVE d + 1 \in Done
  <2>1. PICK f : Is(f, d)
    BY <1>3
  <2>2. d \in Nat /\ d + 1 \in 0..limit
    OBVIOUS
  <2>3. D(d) \subseteq D(d + 1)
    OBVIOUS
  <2> HIDE DEF D
  <2> DEFINE more == [r \in D(d + 1) |->
                        IF r \in D(d) THEN f[r] ELSE IF r[1] >= r[2] THEN r[1] ELSE f[Next_(r)]]
  <2>4. ASSUME NEW r \in D(d + 1)
        PROVE  more[r] = IF r[1] >= r[2] THEN r[1] ELSE more[Next_(r)]
    <3>1. ~(r[1] >= r[2]) => Next_(r) \in D(d)
      BY <1>1, <2>2
    <3>2. ~(r[1] >= r[2]) => more[Next_(r)] = f[Next_(r)]
      BY <2>3, <3>1
    <3>3. r \in D(d) => f[r] = IF r[1] >= r[2] THEN r[1] ELSE f[Next_(r)]
      BY <2>1
    <3> QED
      BY <3>2, <3>3
  <2>5. Is(more, d + 1)
    BY <2>4
  <2> HIDE DEF more, Is
  <2> QED
    BY <2>2, <2>5
<1>4. limit \in Done
  <2> HIDE DEF Done
  <2>1. 0 \in Int /\ limit \in Int
    OBVIOUS
  <2>2. 0..limit \subseteq Done
    BY <1>2, <1>3, <2>1, Climb
  <2> QED
    BY <2>2
<1>5. D(limit) = (1..limit) \X (1..limit)
  OBVIOUS
<1>6. PICK f : Is(f, limit)
  BY <1>4, Zenon
<1>7. f = [r \in (1..limit) \X (1..limit) |-> IF r[1] >= r[2] THEN r[1] ELSE f[Next_(r)]]
  <2> HIDE DEF D
  <2> QED
    BY <1>5, <1>6
<1>8. Narrows(f, limit, Few)
  BY <1>7 DEF Next_, Narrows
<1> QED
  BY <1>8

LEMMA Divided ==
  ASSUME NEW length \in Nat \ {0}, NEW limit \in Nat \ {0}
  PROVE  LET count == (length + limit - 1) \div limit
         IN  count \in Nat \ {0} /\ (length + count - 1) \div count \in 1..limit
<1> DEFINE count == (length + limit - 1) \div limit
<1>1. count \in Nat \ {0} /\ length <= count * limit
  OBVIOUS
<1> HIDE DEF count
<1>2. (length + count - 1) \div count >= 1 /\ (length + count - 1) \div count \in Int
  BY <1>1
<1>3. (length + count - 1) \div count <= limit
  BY <1>1
<1> QED
  BY <1>1, <1>2, <1>3 DEF count

\* A text over the limit is cut into units, which are put together by a size within the limit:
\* by the limit itself unless a smaller one makes few enough groups.
LEMMA SplitPacks ==
  ASSUME NEW p \in Piece, NEW text, NEW limit \in Nat \ {0}, ~(Length(p, text.spaces) <= limit)
  PROVE  LET units == Units(text, p, limit)
             count == (Length(p, text.spaces) + limit - 1) \div limit
         IN  \E size \in 1..limit :
               /\ SplitSentences(text, p, limit) = Pack(units, text.spaces, size)
               /\ size = limit \/ Len(Pack(units, text.spaces, size)) <= count
<1> DEFINE length == Length(p, text.spaces)
           units == Units(text, p, limit)
           count == (length + limit - 1) \div limit
           mid(r) == (r[1] + r[2]) \div 2
           Is(f) == f = [r \in (1..limit) \X (1..limit) |->
                           IF r[1] >= r[2] THEN r[1]
                           ELSE f[IF Len(Pack(units, text.spaces, mid(r))) <= count THEN <<r[1], mid(r)>>
                                  ELSE <<mid(r) + 1, r[2]>>]]
           the == CHOOSE f : Is(f)
           low == (length + count - 1) \div count
           Few == {m \in 1..limit : Len(Pack(units, text.spaces, m)) <= count}
<1>1. length \in Nat \ {0}
  BY LengthFacts
<1>2. SplitSentences(text, p, limit) = Pack(units, text.spaces, the[<<low, limit>>])
  BY DEF SplitSentences
<1> HIDE DEF length, units
<1>3. low \in 1..limit /\ limit \in 1..limit
  BY <1>1, Divided
<1> HIDE DEF low, count
<1>4. \A r \in (1..limit) \X (1..limit) :
        ~(r[1] >= r[2]) => (Len(Pack(units, text.spaces, mid(r))) <= count <=> mid(r) \in Few)
  <2>1. ASSUME NEW r \in (1..limit) \X (1..limit) PROVE mid(r) \in 1..limit
    OBVIOUS
  <2> HIDE DEF mid
  <2> QED
    BY <2>1
<1>5. PICK f : Narrows(f, limit, Few)
  <2> HIDE DEF Few
  <2> QED
    BY SearchExists
<1> HIDE DEF Few
<1>6. f = [r \in (1..limit) \X (1..limit) |->
             IF r[1] >= r[2] THEN r[1]
             ELSE f[IF mid(r) \in Few THEN <<r[1], mid(r)>> ELSE <<mid(r) + 1, r[2]>>]]
  BY <1>5 DEF Narrows
<1> HIDE DEF mid
<1>7. Is(f)
  BY <1>4, <1>6
<1>8. Is(the)
  <2> HIDE DEF Is
  <2> QED
    BY <1>7, Zenon
<1> HIDE DEF the
<1>9. \A r \in (1..limit) \X (1..limit) :
        the[r] = IF r[1] >= r[2] THEN r[1]
                 ELSE the[IF mid(r) \in Few THEN <<r[1], mid(r)>> ELSE <<mid(r) + 1, r[2]>>]
  BY <1>4, <1>8
<1> HIDE DEF Is
<1>10. \A r \in (1..limit) \X (1..limit) : Ended(the[r], r, limit, Few)
  <2>1. \A r \in (1..limit) \X (1..limit) :
          the[r] = IF r[1] >= r[2] THEN r[1]
                   ELSE the[IF (r[1] + r[2]) \div 2 \in Few THEN <<r[1], (r[1] + r[2]) \div 2>>
                            ELSE <<(r[1] + r[2]) \div 2 + 1, r[2]>>]
    BY <1>9, Zenon DEF mid
  <2> QED
    BY <2>1, SearchEnds
<1>11. Ended(the[<<low, limit>>], <<low, limit>>, limit, Few)
  <2>1. <<low, limit>> \in (1..limit) \X (1..limit)
    BY <1>3
  <2> QED
    BY <1>10, <2>1
<1> DEFINE size == the[<<low, limit>>]
<1> HIDE DEF size
<1>12. size \in 1..limit /\ (size = limit \/ size \in Few)
  BY <1>3, <1>11 DEF Ended, size
<1>13. /\ SplitSentences(text, p, limit) = Pack(units, text.spaces, size)
       /\ size = limit \/ Len(Pack(units, text.spaces, size)) <= count
  BY <1>2, <1>12 DEF size, Few
<1> QED
  BY <1>12, <1>13 DEF units, count, length

\* split_sentences keeps a piece of a text whole and in order, in groups within the limit.
LEMMA SplitFits ==
  ASSUME NEW p \in Piece, NEW text, NEW limit \in Nat \ {0}
  PROVE  /\ Grouped(SplitSentences(text, p, limit), p[1], p[2])
         /\ SplitSentences(text, p, limit) \in Seq(Small(text.spaces, limit))
<1> DEFINE length == Length(p, text.spaces)
           units == Units(text, p, limit)
<1>1. CASE length <= limit
  <2> DEFINE one == <<p>>
  <2>1. Run(one, p[1], p[2]) /\ one \in Seq(Piece)
    BY RunOfOne
  <2>2. <<>> \in Seq(Piece)
    OBVIOUS
  <2>3. GroupLength(one, text.spaces) = length
    BY <2>2, GroupGrows, Zenon
  <2>4. SplitSentences(text, p, limit) = <<one>>
    BY <1>1 DEF SplitSentences
  <2> HIDE DEF one, length
  <2>5. Grouped(<<one>>, p[1], p[2])
    BY <2>1, GroupedStart
  <2>6. one \in Small(text.spaces, limit)
    BY <1>1, <2>1, <2>3 DEF Small
  <2>7. <<one>> \in Seq(Small(text.spaces, limit))
    BY <2>6
  <2> QED
    BY <2>4, <2>5, <2>7
<1>2. CASE ~(length <= limit)
  <2>1. Run(units, p[1], p[2]) /\ units \in Seq(Fit(text.spaces, limit))
    BY UnitsFit
  <2>2. PICK size \in 1..limit : SplitSentences(text, p, limit) = Pack(units, text.spaces, size)
    BY <1>2, SplitPacks
  <2> HIDE DEF units
  <2>3. /\ Grouped(Pack(units, text.spaces, size), p[1], p[2])
        /\ Pack(units, text.spaces, size) \in Seq(Small(text.spaces, limit))
    BY <2>1, PackFits
  <2> QED
    BY <2>2, <2>3
<1> QED
  BY <1>1, <1>2

-----------------------------------------------------------------------------
(* How many groups: as many as any other way to put the units together     *)
(* needs, or as many as the length divided by the limit.                   *)

\* A way to put units into groups within the limit: the number of the group each is in.
Numbering(number, units, spaces, limit) ==
  /\ number \in [1..Len(units) -> Nat \ {0}] /\ number[1] = 1
  /\ \A i \in 1..(Len(units) - 1) : number[i + 1] \in {number[i], number[i] + 1}
  /\ \A i \in 1..Len(units), j \in 1..Len(units) :
       i <= j /\ number[i] = number[j] => GroupLength(SubSeq(units, i, j), spaces) <= limit

LEMMA PartFacts ==
  ASSUME NEW u \in Seq(Piece)
  PROVE  /\ \A i \in 1..Len(u) : SubSeq(u, i, i) = <<u[i]>>
         /\ \A i \in 1..Len(u), k \in 1..Len(u) : i <= k => SubSeq(u, i, k) # <<>>
<1>1. ASSUME NEW i \in 1..Len(u) PROVE SubSeq(u, i, i) = <<u[i]>>
  <2> DEFINE s == SubSeq(u, i, i)
             t == <<u[i]>>
  <2>1. s \in Seq(Piece) /\ Len(s) = 1 /\ s[1] = u[i]
    OBVIOUS
  <2>2. t \in Seq(Piece) /\ Len(t) = 1 /\ t[1] = u[i]
    OBVIOUS
  <2> HIDE DEF s, t
  <2>3. s = t
    BY <2>1, <2>2, SameSequence
  <2> QED
    BY <2>3 DEF s, t
<1>2. ASSUME NEW i \in 1..Len(u), NEW k \in 1..Len(u), i <= k PROVE SubSeq(u, i, k) # <<>>
  <2>1. Len(SubSeq(u, i, k)) = k - i + 1 /\ k - i + 1 # 0
    BY <1>2
  <2> QED
    BY <2>1
<1> QED
  BY <1>1, <1>2

LEMMA PartAppended ==
  ASSUME NEW u \in Seq(Piece), NEW i \in 1..Len(u), NEW k \in i..(Len(u) - 1)
  PROVE  /\ Append(SubSeq(u, i, k), u[k + 1]) = SubSeq(u, i, k + 1)
         /\ SubSeq(u, i, k) \in Seq(Piece) /\ SubSeq(u, i, k) # <<>>
<1> DEFINE s == SubSeq(u, i, k)
           t == SubSeq(u, i, k + 1)
           more == Append(s, u[k + 1])
<1>1. s \in Seq(Piece) /\ Len(s) = k - i + 1 /\ \A x \in 1..(k - i + 1) : s[x] = u[i + x - 1]
  OBVIOUS
<1>2. t \in Seq(Piece) /\ Len(t) = k - i + 2 /\ \A x \in 1..(k - i + 2) : t[x] = u[i + x - 1]
  OBVIOUS
<1>3. u[k + 1] \in Piece /\ k - i + 1 \in Nat \ {0}
  OBVIOUS
<1> HIDE DEF s, t
<1>4. more \in Seq(Piece) /\ Len(more) = k - i + 2
      /\ \A x \in 1..(k - i + 2) : more[x] = IF x = k - i + 2 THEN u[k + 1] ELSE s[x]
  BY <1>1, <1>3, SMTT(30)
<1> HIDE DEF more
<1>5. \A x \in 1..Len(more) : more[x] = t[x]
  <2>1. ASSUME NEW x \in 1..(k - i + 2) PROVE more[x] = t[x]
    <3>1. CASE x = k - i + 2
      <4>1. i + x - 1 = k + 1
        BY <3>1
      <4> QED
        BY <1>2, <1>4, <3>1, <4>1
    <3>2. CASE x # k - i + 2
      <4>1. x \in 1..(k - i + 1)
        BY <3>2
      <4> QED
        BY <1>1, <1>2, <1>4, <3>2, <4>1
    <3> QED
      BY <3>1, <3>2
  <2> QED
    BY <1>4, <2>1
<1>6. more = t
  BY <1>2, <1>4, <1>5, SameSequence
<1>7. s # <<>>
  BY <1>1, <1>3
<1> QED
  BY <1>1, <1>6, <1>7 DEF s, t, more

\* What is being put together after k units: the last of them, from one of the group that
\* the k-th is in if no fewer groups have been made.
Ahead(acc, number, units, k) ==
  \E i \in 1..k :
    /\ acc.groups \in Seq(Seq(Piece)) /\ acc.current = SubSeq(units, i, k)
    /\ Len(acc.groups) + 1 <= number[k]
    /\ Len(acc.groups) + 1 = number[k] => number[i] = number[k]

\* Filled to the brim, _pack's groups are no more than those of any other way.
LEMMA StaysAhead ==
  ASSUME NEW units \in Seq(Piece), NEW spaces, NEW limit \in Nat \ {0}, NEW number,
         Numbering(number, units, spaces, limit), NEW k \in 1..(Len(units) - 1), NEW acc,
         Ahead(acc, number, units, k)
  PROVE  Ahead(AddUnit(acc, units[k + 1], spaces, limit), number, units, k + 1)
<1> DEFINE n == Len(units)
           u == units[k + 1]
           one == <<u>>
           row == Append(acc.groups, acc.current)
           new == AddUnit(acc, u, spaces, limit)
           Full == GroupLength(acc.current, spaces) + Length(u, spaces) + 1 > limit
<1>1. PICK i \in 1..k : /\ acc.groups \in Seq(Seq(Piece)) /\ acc.current = SubSeq(units, i, k)
                        /\ Len(acc.groups) + 1 <= number[k]
                        /\ Len(acc.groups) + 1 = number[k] => number[i] = number[k]
  BY DEF Ahead
<1>2. /\ k \in 1..n /\ k + 1 \in 1..n /\ i \in 1..n /\ i \in 1..(k + 1) /\ k + 1 \in 1..(k + 1)
      /\ n \in Nat /\ k \in i..(n - 1) /\ i <= k + 1
  OBVIOUS
<1>3. /\ number[k] \in Nat /\ number[i] \in Nat /\ number[k + 1] \in Nat
      /\ number[k + 1] = number[k] \/ number[k + 1] = number[k] + 1
  <2>1. number \in [1..n -> Nat \ {0}]
    BY DEF Numbering
  <2>2. number[k + 1] \in {number[k], number[k] + 1}
    BY DEF Numbering
  <2> QED
    BY <1>2, <2>1, <2>2
<1>4. u \in Piece
  BY <1>2
<1>5. /\ Append(acc.current, u) = SubSeq(units, i, k + 1)
      /\ acc.current \in Seq(Piece) /\ acc.current # <<>>
  <2>1. i \in 1..Len(units) /\ k \in i..(Len(units) - 1)
    BY <1>2
  <2>2. /\ Append(SubSeq(units, i, k), units[k + 1]) = SubSeq(units, i, k + 1)
        /\ SubSeq(units, i, k) \in Seq(Piece) /\ SubSeq(units, i, k) # <<>>
    BY <2>1, PartAppended
  <2> QED
    BY <1>1, <2>2, Zenon
<1>6. number[i] = number[k + 1] => GroupLength(SubSeq(units, i, k + 1), spaces) <= limit
  BY <1>2 DEF Numbering
<1>7. GroupLength(SubSeq(units, i, k + 1), spaces) = GroupLength(acc.current, spaces) + Length(u, spaces) + 1
  BY <1>4, <1>5, GroupGrows, ZenonT(60)
<1>8. new = IF Full THEN [groups |-> row, current |-> one]
            ELSE [groups |-> acc.groups, current |-> Append(acc.current, u)]
  BY <1>5 DEF AddUnit
<1>9. Len(acc.groups) \in Nat
  BY <1>1
<1> HIDE DEF new
<1>10. CASE Full
  <2>1. new.groups = row /\ new.current = one
    BY <1>8, <1>10
  <2>2. row \in Seq(Seq(Piece)) /\ Len(row) = Len(acc.groups) + 1
    BY <1>1, <1>5
  <2>3. one = SubSeq(units, k + 1, k + 1)
    <3>1. u = units[k + 1] /\ k + 1 \in 1..Len(units)
      BY <1>2
    <3> HIDE DEF u, n
    <3> QED
      BY <3>1
  <2>4. number[i] # number[k + 1]
    <3>1. ~(GroupLength(SubSeq(units, i, k + 1), spaces) <= limit)
      <4>1. GroupLength(acc.current, spaces) \in Int /\ Length(u, spaces) \in Nat
        BY <1>4, <1>5, GroupGrows, LengthFacts
      <4> QED
        BY <1>7, <1>10, <4>1
    <3> QED
      BY <1>6, <3>1
  <2>5. Len(row) + 1 <= number[k + 1]
    <3> DEFINE made == Len(acc.groups)
               now == number[k]
               next == number[k + 1]
    <3>1. made + 1 <= now /\ (made + 1 = now => number[i] = now)
      BY <1>1
    <3>2. made \in Nat /\ now \in Nat /\ next \in Nat /\ (next = now \/ next = now + 1)
      BY <1>3, <1>9
    <3>3. Len(row) = made + 1 /\ number[i] # next
      BY <2>2, <2>4
    <3> HIDE DEF made, now, next, row
    <3>4. Len(row) + 1 <= next
      BY <3>1, <3>2, <3>3
    <3> QED
      BY <3>4 DEF next
  <2> HIDE DEF row, one, u
  <2> QED
    BY <1>2, <2>1, <2>2, <2>3, <2>5 DEF Ahead, new, u
<1>11. CASE ~Full
  <2>1. new.groups = acc.groups /\ new.current = SubSeq(units, i, k + 1)
    BY <1>5, <1>8, <1>11
  <2>2. Len(acc.groups) + 1 <= number[k + 1]
        /\ (Len(acc.groups) + 1 = number[k + 1] => number[i] = number[k + 1])
    BY <1>1, <1>3, <1>9, SMTT(30)
  <2> QED
    BY <1>1, <1>2, <2>1, <2>2 DEF Ahead, new, u
<1> QED
  BY <1>10, <1>11

LEMMA PackIsFewest ==
  ASSUME NEW units \in Seq(Piece), units # <<>>, NEW spaces, NEW limit \in Nat \ {0}, NEW number,
         Numbering(number, units, spaces, limit)
  PROVE  Len(Pack(units, spaces, limit)) <= number[Len(units)]
<1> DEFINE n == Len(units)
<1>1. n \in Nat \ {0}
  OBVIOUS
<1>2. PICK acc : /\ acc[0] = [groups |-> <<>>, current |-> <<>>]
                 /\ \A k \in 1..n : acc[k] = AddUnit(acc[k - 1], units[k], spaces, limit)
                 /\ Pack(units, spaces, limit)
                       = IF acc[n].current = <<>> THEN acc[n].groups
                         ELSE Append(acc[n].groups, acc[n].current)
  BY UnitsPacked
<1> DEFINE Good == {k \in 1..n : Ahead(acc[k], number, units, k)}
<1>3. 1 \in Good
  <2>1. 1 \in 1..n /\ 1 - 1 = 0
    BY <1>1
  <2>2. acc[1] = AddUnit(acc[0], units[1], spaces, limit)
    BY <1>2, <2>1
  <2>3. AddUnit(acc[0], units[1], spaces, limit) = [groups |-> <<>>, current |-> <<units[1]>>]
    BY <1>2 DEF AddUnit
  <2>4. SubSeq(units, 1, 1) = <<units[1]>>
    <3>1. 1 \in 1..Len(units)
      BY <2>1
    <3> QED
      BY <3>1, PartFacts, Zenon
  <2>5. number[1] = 1
    BY DEF Numbering
  <2>6. Ahead(acc[1], number, units, 1)
    <3>1. /\ 1 \in 1..1 /\ acc[1].groups \in Seq(Seq(Piece)) /\ acc[1].current = SubSeq(units, 1, 1)
          /\ Len(acc[1].groups) + 1 = 1
      BY <2>2, <2>3, <2>4
    <3> QED
      BY <2>5, <3>1 DEF Ahead
  <2> QED
    BY <2>1, <2>6
<1>4. ASSUME NEW k \in 1..(n - 1), k \in Good PROVE k + 1 \in Good
  <2>1. k + 1 \in 1..n /\ (k + 1) - 1 = k
    BY <1>1
  <2>2. acc[k + 1] = AddUnit(acc[k], units[k + 1], spaces, limit)
    BY <1>2, <2>1
  <2>3. Ahead(acc[k], number, units, k)
    BY <1>4
  <2>4. Ahead(AddUnit(acc[k], units[k + 1], spaces, limit), number, units, k + 1)
    BY <2>3, StaysAhead
  <2> QED
    BY <2>1, <2>2, <2>4
<1> HIDE DEF Good, n
<1>5. 1..n \subseteq Good
  <2>1. 1 \in Int /\ n \in Int
    BY <1>1
  <2> QED
    BY <1>3, <1>4, <2>1, Climb
<1>6. Ahead(acc[n], number, units, n)
  BY <1>1, <1>5 DEF Good
<1>7. PICK i \in 1..n : /\ acc[n].groups \in Seq(Seq(Piece)) /\ acc[n].current = SubSeq(units, i, n)
                        /\ Len(acc[n].groups) + 1 <= number[n]
  BY <1>6 DEF Ahead
<1>8. acc[n].current # <<>>
  <2>1. n \in 1..Len(units) /\ i \in 1..Len(units) /\ i <= n
    BY <1>1, <1>7 DEF n
  <2>2. SubSeq(units, i, n) # <<>>
    BY <2>1, PartFacts, Zenon
  <2> QED
    BY <1>7, <2>2
<1>9. Pack(units, spaces, limit) = Append(acc[n].groups, acc[n].current)
  BY <1>2, <1>8
<1>10. Len(Append(acc[n].groups, acc[n].current)) = Len(acc[n].groups) + 1
  BY <1>7
<1> QED
  BY <1>7, <1>9, <1>10 DEF n

-----------------------------------------------------------------------------
(* The worker.                                                             *)

AnyText == [letters : Nat \ {0}, spaces : SUBSET Nat, clauses : SUBSET Nat, sentences : SUBSET Nat]
Utterance == [group : Seq(Piece), voice : Voices, limit : Floor..ChunkLimit, length : Int]
Request == [text : AnyText, voice : Voices \cup {NoVoice},
            at : {"waiting", "speaking", "answered", "refused", "failed"},
            groups : Seq(Seq(Piece)), spoken : Seq(Utterance)]
Engine == [voice : Voices, limit : Floor..ChunkLimit, lock : Speeches \cup {NoVoice}]

Uttered(s) == [i \in DOMAIN s.spoken |-> s.spoken[i].group]

\* What a request has spoken goes up to m, and what it has yet to speak goes on from there.
SpokenUpTo(s, m) ==
  /\ (s.spoken = <<>> /\ m = 0) \/ Grouped(Uttered(s), 1, m)
  /\ (s.groups = <<>> /\ m = s.text.letters) \/ Grouped(s.groups, m + 1, s.text.letters)

\* What holds of a request r, given the engine e.
RequestInv(s, r, e) ==
  /\ s.text.spaces \subseteq 1..(s.text.letters - 1)
  /\ s.at = "waiting" => s.groups = <<>> /\ s.spoken = <<>>
  /\ s.at = "speaking" =>
       /\ e.lock = r /\ e.voice = s.voice
       /\ \E m : SpokenUpTo(s, m)
       /\ s.groups \in Seq(Small(s.text.spaces, e.limit))
  /\ s.at = "answered" => Grouped(Uttered(s), 1, s.text.letters)
  /\ e.lock = r => s.at = "speaking"
  /\ \A i \in DOMAIN s.spoken : s.spoken[i].voice = s.voice /\ s.spoken[i].length <= s.spoken[i].limit

SpeechInv ==
  /\ speech \in [Speeches -> Request] /\ engine \in Engine
  /\ \A r \in Speeches : RequestInv(speech[r], r, engine)

\* A request is left alone by what the engine does for another.
LEMMA OthersUnheard ==
  ASSUME NEW s, NEW q \in Speeches, NEW e, NEW f, RequestInv(s, q, e),
         e.lock # q, f.lock # q
  PROVE  RequestInv(s, q, f)
<1>1. s.at # "speaking"
  BY DEF RequestInv
<1> QED
  BY <1>1, Zenon DEF RequestInv

\* So a step of one request keeps the invariant if it does for that request.
LEMMA OneRequest ==
  ASSUME SpeechInv, NEW r \in Speeches, NEW s \in Request, engine' \in Engine,
         speech' = [speech EXCEPT ![r] = s], RequestInv(s, r, engine'),
         engine' = engine \/ (engine.lock \in {r, NoVoice} /\ engine'.lock \in {r, NoVoice})
  PROVE  SpeechInv'
<1>1. speech' \in [Speeches -> Request] /\ speech'[r] = s /\ \A q \in Speeches \ {r} : speech'[q] = speech[q]
  BY DEF SpeechInv
<1>2. ASSUME NEW q \in Speeches PROVE RequestInv(speech'[q], q, engine')
  <2>1. CASE q = r
    BY <1>1, <2>1
  <2>2. CASE q # r
    <3>1. speech'[q] = speech[q] /\ RequestInv(speech[q], q, engine)
      BY <1>1, <2>2 DEF SpeechInv
    <3>2. CASE engine' = engine
      BY <3>1, <3>2
    <3>3. CASE engine.lock \in {r, NoVoice} /\ engine'.lock \in {r, NoVoice}
      <4>1. engine.lock # q /\ engine'.lock # q
        BY <2>2, <3>3, SpeechAssumption
      <4> QED
        BY <3>1, <4>1, OthersUnheard
    <3> QED
      BY <3>2, <3>3
  <2> QED
    BY <2>1, <2>2
<1> QED
  BY <1>1, <1>2 DEF SpeechInv

LEMMA SpeechInvInit == SpeechInit => SpeechInv
<1> SUFFICES ASSUME SpeechInit PROVE SpeechInv
  OBVIOUS
<1>1. Texts \subseteq AnyText /\ \A t \in Texts : t.spaces \subseteq 1..(t.letters - 1)
  BY SpeechAssumption DEF AnyText
<1>2. ASSUME NEW r \in Speeches
      PROVE  /\ speech[r] \in Request /\ speech[r].at = "waiting" /\ speech[r].text \in Texts
             /\ speech[r].groups = <<>> /\ speech[r].spoken = <<>>
  <2>1. speech[r] \in [text : Texts, voice : Voices \cup {NoVoice}, at : {"waiting"},
                       groups : {<<>>}, spoken : {<<>>}]
    BY DEF SpeechInit
  <2>2. <<>> \in Seq(Seq(Piece)) /\ <<>> \in Seq(Utterance)
    OBVIOUS
  <2> QED
    BY <1>1, <2>1, <2>2 DEF Request
<1>3. speech \in [Speeches -> Request]
  BY <1>2 DEF SpeechInit
<1>4. engine \in Engine /\ engine.lock = NoVoice
  <2>1. (CHOOSE v \in Voices : TRUE) \in Voices
    BY SpeechAssumption
  <2>2. ChunkLimit \in Floor..ChunkLimit
    BY SpeechAssumption
  <2> QED
    BY <2>1, <2>2 DEF SpeechInit, Engine
<1>5. ASSUME NEW r \in Speeches PROVE RequestInv(speech[r], r, engine)
  <2>1. engine.lock # r
    BY <1>4, SpeechAssumption
  <2>2. DOMAIN speech[r].spoken = {}
    BY <1>2
  <2>3. speech[r].text.spaces \subseteq 1..(speech[r].text.letters - 1)
    BY <1>1, <1>2
  <2> QED
    BY <1>2, <2>1, <2>2, <2>3, Zenon DEF RequestInv
<1> QED
  BY <1>3, <1>4, <1>5 DEF SpeechInv

\* The parts of a request and of the engine.
LEMMA RequestFacts ==
  ASSUME SpeechInv, NEW r \in Speeches
  PROVE  LET s == speech[r]
         IN  /\ s \in Request /\ s.text \in AnyText /\ s.voice \in Voices \cup {NoVoice}
             /\ s.groups \in Seq(Seq(Piece)) /\ s.spoken \in Seq(Utterance)
             /\ s.text.letters \in Nat \ {0} /\ s.text.spaces \in SUBSET Nat
             /\ engine \in Engine /\ engine.voice \in Voices /\ engine.limit \in Floor..ChunkLimit
             /\ engine.limit \in Nat \ {0} /\ engine.lock \in Speeches \cup {NoVoice}
             /\ RequestInv(s, r, engine)
<1>1. speech[r] \in Request /\ engine \in Engine /\ RequestInv(speech[r], r, engine)
  BY DEF SpeechInv
<1>2. engine.limit \in Floor..ChunkLimit
  BY <1>1 DEF Engine
<1>3. engine.limit \in Nat \ {0}
  BY <1>2, SpeechAssumption
<1>4. speech[r].text \in AnyText
  BY <1>1 DEF Request
<1> QED
  BY <1>1, <1>2, <1>3, <1>4 DEF Request, AnyText, Engine

\* A request that ends has nothing more to speak.
LEMMA EndSpeechKeeps ==
  ASSUME SpeechInv, NEW r \in Speeches, NEW how \in {"answered", "failed"},
         speech[r].at = "speaking", EndSpeech(r, how),
         how = "answered" => speech[r].groups = <<>>
  PROVE  SpeechInv'
<1> DEFINE s == speech[r]
           new == [s EXCEPT !.at = how, !.groups = <<>>]
<1>1. /\ s \in Request /\ s.spoken \in Seq(Utterance) /\ RequestInv(s, r, engine)
      /\ engine \in Engine /\ s.text.letters \in Nat \ {0}
  BY RequestFacts
<1>2. engine.lock = r /\ \E m : SpokenUpTo(s, m)
  BY <1>1, Zenon DEF RequestInv
<1>3. speech' = [speech EXCEPT ![r] = new]
  BY DEF EndSpeech, SpeechInv
<1>4. engine' \in Engine /\ engine'.lock = NoVoice
  BY <1>1 DEF EndSpeech, Engine
<1>5. /\ new \in Request /\ new.at = how /\ new.groups = <<>> /\ new.text = s.text
      /\ new.spoken = s.spoken /\ new.voice = s.voice
  <2>1. <<>> \in Seq(Seq(Piece))
    OBVIOUS
  <2> HIDE DEF s
  <2> QED
    BY <1>1, <2>1 DEF Request
<1>6. how = "answered" => Grouped(Uttered(s), 1, s.text.letters)
  <2> SUFFICES ASSUME s.groups = <<>> PROVE Grouped(Uttered(s), 1, s.text.letters)
    OBVIOUS
  <2>1. PICK m : SpokenUpTo(s, m)
    BY <1>2
  <2> HIDE DEF s
  <2>2. ~Grouped(s.groups, m + 1, s.text.letters)
    BY GroupedEnds
  <2> QED
    BY <1>1, <2>1, <2>2 DEF SpokenUpTo
<1> HIDE DEF new, s
<1>7. Uttered(new) = Uttered(s)
  BY <1>5 DEF Uttered
<1>8. RequestInv(new, r, engine')
  <2>1. engine'.lock # r
    BY <1>4, SpeechAssumption
  <2> QED
    BY <1>1, <1>5, <1>6, <1>7, <2>1 DEF RequestInv
<1>9. engine.lock \in {r, NoVoice} /\ engine'.lock \in {r, NoVoice}
  BY <1>2, <1>4
<1> QED
  BY <1>3, <1>4, <1>5, <1>8, <1>9, OneRequest

LEMMA BeginKeeps ==
  ASSUME SpeechInv, NEW r \in Speeches, BeginSpeech(r)
  PROVE  SpeechInv'
<1> DEFINE s == speech[r]
           refused == [s EXCEPT !.at = "refused"]
           groups == SplitSentences(s.text, Whole(s.text), engine.limit)
           begun == [s EXCEPT !.at = "speaking", !.groups = groups]
<1>1. /\ s \in Request /\ s.voice \in Voices \cup {NoVoice} /\ RequestInv(s, r, engine)
      /\ s.text.letters \in Nat \ {0} /\ engine \in Engine /\ engine.limit \in Nat \ {0}
  BY RequestFacts
<1>2. s.at = "waiting" /\ engine.lock = NoVoice /\ Begin(r)
  BY DEF BeginSpeech
<1>3. s.groups = <<>> /\ s.spoken = <<>>
  BY <1>1, <1>2 DEF RequestInv
<1>4. CASE s.voice = NoVoice
  <2>1. speech' = [speech EXCEPT ![r] = refused] /\ engine' = engine
    BY <1>2, <1>4 DEF Begin, SpeechInv
  <2>2. /\ refused \in Request /\ refused.at = "refused" /\ refused.text = s.text
        /\ refused.spoken = s.spoken /\ refused.voice = s.voice
    BY <1>1 DEF Request
  <2> HIDE DEF refused, s
  <2>3. RequestInv(refused, r, engine')
    <3>1. engine.lock # r
      BY <1>2, SpeechAssumption
    <3> QED
      BY <1>1, <2>1, <2>2, <3>1 DEF RequestInv
  <2> QED
    BY <1>1, <2>1, <2>2, <2>3, OneRequest
<1>5. CASE s.voice # NoVoice
  <2>1. speech' = [speech EXCEPT ![r] = begun]
        /\ engine' = [engine EXCEPT !.voice = s.voice, !.lock = r]
    BY <1>2, <1>5 DEF Begin, SpeechInv
  <2>2. Whole(s.text) = <<1, s.text.letters>> /\ Whole(s.text) \in Piece
    BY <1>1 DEF Whole, Piece
  <2>3. Grouped(groups, 1, s.text.letters) /\ groups \in Seq(Small(s.text.spaces, engine.limit))
    <3> HIDE DEF s
    <3>1. /\ Grouped(groups, Whole(s.text)[1], Whole(s.text)[2])
          /\ groups \in Seq(Small(s.text.spaces, engine.limit))
      BY <1>1, <2>2, SplitFits
    <3> QED
      BY <2>2, <3>1
  <2> HIDE DEF groups
  <2>4. groups \in Seq(Seq(Piece))
    BY <2>3 DEF Grouped
  <2>5. /\ begun \in Request /\ begun.at = "speaking" /\ begun.text = s.text
        /\ begun.spoken = <<>> /\ begun.groups = groups /\ begun.voice = s.voice
    <3> HIDE DEF s
    <3> QED
      BY <1>1, <1>3, <2>4 DEF Request
  <2>6. engine' \in Engine /\ engine'.lock = r /\ engine'.voice = s.voice
        /\ engine'.limit = engine.limit
    BY <1>1, <1>5, <2>1 DEF Engine
  <2> HIDE DEF begun, s
  <2>7. SpokenUpTo(begun, 0)
    BY <2>3, <2>5 DEF SpokenUpTo
  <2>8. DOMAIN begun.spoken = {}
    BY <2>5
  <2>9. begun.text.spaces \subseteq 1..(begun.text.letters - 1)
    BY <1>1, <2>5 DEF RequestInv
  <2>10. RequestInv(begun, r, engine')
    BY <2>3, <2>5, <2>6, <2>7, <2>8, <2>9 DEF RequestInv
  <2> QED
    BY <1>2, <2>1, <2>5, <2>6, <2>10, OneRequest
<1> QED
  BY <1>4, <1>5

LEMMA RefuseKeeps ==
  ASSUME SpeechInv, NEW r \in Speeches, RefuseSpeech(r)
  PROVE  SpeechInv'
<1> DEFINE s == speech[r]
           refused == [s EXCEPT !.at = "refused"]
<1>1. s \in Request /\ RequestInv(s, r, engine) /\ engine \in Engine
  BY RequestFacts
<1>2. s.at = "waiting" /\ speech' = [speech EXCEPT ![r] = refused] /\ engine' = engine
  BY DEF RefuseSpeech, SpeechInv
<1>3. /\ refused \in Request /\ refused.at = "refused" /\ refused.text = s.text
      /\ refused.spoken = s.spoken /\ refused.voice = s.voice
  BY <1>1 DEF Request
<1> HIDE DEF refused, s
<1>4. RequestInv(refused, r, engine')
  <2>1. engine.lock # r
    BY <1>1, <1>2 DEF RequestInv
  <2> QED
    BY <1>1, <1>2, <1>3, <2>1 DEF RequestInv
<1> QED
  BY <1>1, <1>2, <1>3, <1>4, OneRequest

\* One more utterance.
LEMMA UtteredMore ==
  ASSUME NEW s, NEW t, NEW u \in Utterance, s.spoken \in Seq(Utterance), t.spoken = Append(s.spoken, u)
  PROVE  /\ Uttered(t) = Append(Uttered(s), u.group)
         /\ s.spoken = <<>> => Uttered(t) = <<u.group>>
         /\ \A i \in DOMAIN t.spoken : (i \in DOMAIN s.spoken /\ t.spoken[i] = s.spoken[i])
                                       \/ t.spoken[i] = u
<1> DEFINE a == s.spoken
           b == Append(a, u)
           n == Len(a)
           old == [i \in 1..n |-> a[i].group]
           left == [i \in 1..(n + 1) |-> b[i].group]
           right == Append(old, u.group)
<1>1. a \in Seq(Utterance) /\ n \in Nat /\ DOMAIN a = 1..n /\ \A i \in 1..n : a[i] \in Utterance
  OBVIOUS
<1>2. b \in Seq(Utterance) /\ Len(b) = n + 1 /\ DOMAIN b = 1..(n + 1) /\ b[n + 1] = u
      /\ \A i \in 1..n : b[i] = a[i]
  BY <1>1
<1>3. \A x \in Utterance : x.group \in Seq(Piece)
  BY DEF Utterance
<1>4. Uttered(s) = old /\ Uttered(t) = left
  BY <1>1, <1>2 DEF Uttered
<1> HIDE DEF a, b, n
<1>5. old \in Seq(Seq(Piece)) /\ Len(old) = n /\ \A i \in 1..n : old[i] = a[i].group
  <2>1. old \in [1..n -> Seq(Piece)]
    BY <1>1, <1>3
  <2> HIDE DEF old
  <2>2. old \in Seq(Seq(Piece)) /\ Len(old) = n
    BY <1>1, <2>1
  <2> QED
    BY <2>2 DEF old
<1>6. \A i \in 1..(n + 1) : i \in 1..n \/ i = n + 1
  BY <1>1
<1>7. left \in Seq(Seq(Piece)) /\ Len(left) = n + 1
  <2>1. \A i \in 1..(n + 1) : b[i].group \in Seq(Piece)
    BY <1>1, <1>2, <1>3, <1>6
  <2>2. left \in [1..(n + 1) -> Seq(Piece)] /\ n + 1 \in Nat
    BY <1>1, <2>1
  <2> HIDE DEF left
  <2> QED
    BY <2>2
<1>8. n + 1 \in 1..(n + 1) /\ \A i \in 1..n : i \in 1..(n + 1)
  BY <1>1
<1>9. left[n + 1] = u.group /\ \A i \in 1..n : left[i] = a[i].group
  BY <1>2, <1>8
<1> HIDE DEF left, old
<1>10. u.group \in Seq(Piece)
  BY <1>3
<1>11. right \in Seq(Seq(Piece)) /\ Len(right) = n + 1 /\ right[n + 1] = u.group
       /\ \A i \in 1..n : right[i] = old[i]
  BY <1>1, <1>5, <1>10
<1> HIDE DEF right
<1>12. \A i \in 1..(n + 1) : left[i] = right[i]
  BY <1>5, <1>6, <1>9, <1>11
<1>13. left = right
  BY <1>7, <1>11, <1>12, SeqEqual
<1>14. a = <<>> => right = <<u.group>>
  <2>1. a = <<>> => old = <<>>
    BY <1>5, EmptySeq DEF n
  <2> QED
    BY <2>1 DEF right
<1>15. \A i \in 1..(n + 1) : (i \in 1..n /\ b[i] = a[i]) \/ b[i] = u
  BY <1>2, <1>6
<1>16. t.spoken = b
  BY DEF a, b
<1> QED
  BY <1>1, <1>2, <1>4, <1>5, <1>13, <1>14, <1>15, <1>16 DEF a, right

LEMMA SpeakKeeps ==
  ASSUME SpeechInv, NEW r \in Speeches, SpeakGroup(r)
  PROVE  SpeechInv'
<1> DEFINE s == speech[r]
           g == Head(s.groups)
           u == [group |-> g, voice |-> engine.voice, limit |-> engine.limit,
                 length |-> GroupLength(g, s.text.spaces)]
           new == [s EXCEPT !.spoken = Append(s.spoken, u), !.groups = Tail(s.groups)]
<1>1. /\ s \in Request /\ s.groups \in Seq(Seq(Piece)) /\ s.spoken \in Seq(Utterance)
      /\ s.text.letters \in Nat \ {0} /\ RequestInv(s, r, engine) /\ engine \in Engine
      /\ engine.voice \in Voices /\ engine.limit \in Floor..ChunkLimit
  BY RequestFacts
<1>2. s.at = "speaking" /\ s.groups # <<>> /\ engine' = engine
      /\ speech' = [speech EXCEPT ![r] = new]
  BY DEF SpeakGroup, SpeechInv
<1>3. /\ engine.lock = r /\ engine.voice = s.voice /\ \E m : SpokenUpTo(s, m)
      /\ s.groups \in Seq(Small(s.text.spaces, engine.limit))
  BY <1>1, <1>2, Zenon DEF RequestInv
<1>4. g \in Seq(Piece) /\ Tail(s.groups) \in Seq(Seq(Piece))
      /\ Tail(s.groups) \in Seq(Small(s.text.spaces, engine.limit))
      /\ g \in Small(s.text.spaces, engine.limit)
  <2> DEFINE gs == s.groups
             S == Small(s.text.spaces, engine.limit)
  <2>1. gs \in Seq(S) /\ gs # <<>> /\ gs \in Seq(Seq(Piece))
    BY <1>1, <1>2, <1>3
  <2> HIDE DEF gs, S
  <2>2. Head(gs) \in S /\ Tail(gs) \in Seq(S) /\ Head(gs) \in Seq(Piece) /\ Tail(gs) \in Seq(Seq(Piece))
    BY <2>1
  <2> QED
    BY <2>2 DEF gs, S
<1>5. GroupLength(g, s.text.spaces) \in Int /\ GroupLength(g, s.text.spaces) <= engine.limit
  <2>1. g \in Seq(Piece) /\ GroupLength(g, s.text.spaces) <= engine.limit
    BY <1>4, Zenon DEF Small
  <2> QED
    BY <2>1, GroupLengthType, Zenon
<1>6. u \in Utterance /\ u.group = g /\ u.voice = s.voice /\ u.length <= u.limit
  BY <1>1, <1>3, <1>4, <1>5 DEF Utterance
<1> HIDE DEF u
<1>7. Append(s.spoken, u) \in Seq(Utterance)
  BY <1>1, <1>6
<1> HIDE DEF s, g
<1>8. /\ new \in Request /\ new.at = s.at /\ new.groups = Tail(s.groups) /\ new.text = s.text
      /\ new.spoken = Append(s.spoken, u) /\ new.voice = s.voice
  BY <1>1, <1>4, <1>7 DEF Request
<1> HIDE DEF new
<1>9. /\ Uttered(new) = Append(Uttered(s), g)
      /\ s.spoken = <<>> => Uttered(new) = <<g>>
      /\ \A i \in DOMAIN new.spoken : (i \in DOMAIN s.spoken /\ new.spoken[i] = s.spoken[i])
                                      \/ new.spoken[i] = u
  <2>1. u \in Utterance /\ s.spoken \in Seq(Utterance) /\ new.spoken = Append(s.spoken, u)
    BY <1>1, <1>6, <1>8
  <2>2. /\ Uttered(new) = Append(Uttered(s), u.group)
        /\ s.spoken = <<>> => Uttered(new) = <<u.group>>
        /\ \A i \in DOMAIN new.spoken : (i \in DOMAIN s.spoken /\ new.spoken[i] = s.spoken[i])
                                        \/ new.spoken[i] = u
    BY ONLY <2>1, UtteredMore
  <2> QED
    BY <1>6, <2>2
<1>10. \E m : SpokenUpTo(new, m)
  <2> DEFINE L == s.text.letters
  <2>1. PICK m : SpokenUpTo(s, m)
    BY <1>3
  <2>2. Grouped(s.groups, m + 1, L)
    BY <1>2, <2>1 DEF SpokenUpTo
  <2>3. PICK k : Run(g, m + 1, k) /\ ((Tail(s.groups) = <<>> /\ k = L) \/ Grouped(Tail(s.groups), k + 1, L))
    BY <2>2, GroupedTail DEF g
  <2>4. Grouped(Uttered(new), 1, k)
    <3>1. CASE s.spoken = <<>> /\ m = 0
      <4>1. Run(g, 1, k)
        BY <2>3, <3>1
      <4> QED
        BY <1>9, <3>1, <4>1, GroupedStart
    <3>2. CASE Grouped(Uttered(s), 1, m)
      BY <1>9, <2>3, <3>2, GroupedAppend
    <3> QED
      BY <2>1, <3>1, <3>2 DEF SpokenUpTo
  <2>5. SpokenUpTo(new, k)
    BY <1>8, <2>3, <2>4 DEF SpokenUpTo
  <2> QED
    BY <2>5
<1>11. \A i \in DOMAIN new.spoken : /\ new.spoken[i].voice = s.voice
                                     /\ new.spoken[i].length <= new.spoken[i].limit
  <2>1. \A i \in DOMAIN s.spoken : s.spoken[i].voice = s.voice /\ s.spoken[i].length <= s.spoken[i].limit
    BY <1>1 DEF RequestInv
  <2> QED
    BY <1>6, <1>9, <2>1
<1>12. new.groups \in Seq(Small(new.text.spaces, engine.limit))
  BY <1>4, <1>8
<1>13. new.text.spaces \subseteq 1..(new.text.letters - 1)
  BY <1>1, <1>8 DEF RequestInv
<1>14. RequestInv(new, r, engine')
  BY <1>2, <1>3, <1>8, <1>10, <1>11, <1>12, <1>13 DEF RequestInv
<1> QED
  BY <1>1, <1>2, <1>8, <1>14, OneRequest

\* What is left of the groups, joined again, is the same piece of the same letters.
LEMMA RejoinedFacts ==
  ASSUME NEW s, s.text \in AnyText, s.text.spaces \subseteq 1..(s.text.letters - 1),
         NEW m \in Nat, Grouped(s.groups, m + 1, s.text.letters)
  PROVE  /\ Rejoined(s).piece = <<m + 1, s.text.letters>> /\ Rejoined(s).piece \in Piece
         /\ Rejoined(s).text \in AnyText /\ Rejoined(s).text.letters = s.text.letters
         /\ Rejoined(s).text.spaces \subseteq 1..(s.text.letters - 1)
<1> DEFINE units == FlattenSeq(s.groups)
           front == Front(units)
           cuts == {Final(u) : u \in ToSet(front)}
           L == s.text.letters
           n == Len(units)
<1>1. L \in Nat \ {0}
  BY DEF AnyText
<1>2. Run(units, m + 1, L)
  BY FlatRun
<1> HIDE DEF units, L
<1>3. /\ n \in Nat \ {0} /\ units \in Seq(Piece) /\ units # <<>>
      /\ units[1][1] = m + 1 /\ units[n][2] = L /\ m + 1 <= L
      /\ \A i \in 1..n : units[i][1] \in Nat /\ units[i][2] \in Nat /\ units[i][1] <= units[i][2]
      /\ \A i \in 1..n : m + 1 <= units[i][1]
      /\ \A i \in 1..(n - 1) : units[i][2] < L
  BY <1>2, RunEnds, RunInside DEF Run
<1>4. Head(units) = units[1] /\ Last(units) = units[n]
  BY <1>3 DEF Last
<1>5. Rejoined(s).piece = <<m + 1, L>>
  BY <1>3, <1>4 DEF Rejoined, First, Final, units
<1>6. <<m + 1, L>> \in Piece
  BY <1>1, <1>3 DEF Piece
<1>7. DOMAIN front = 1..(n - 1) /\ \A i \in 1..(n - 1) : front[i] = units[i]
  <2>1. front = SubSeq(units, 1, n - 1)
    BY DEF Front
  <2>2. n - 1 \in 0..n
    BY <1>3
  <2>3. SubSeq(units, 1, n - 1) = [i \in 1..(n - 1) |-> units[i]]
    BY <1>3, <2>2
  <2> QED
    BY <2>1, <2>3
<1> HIDE DEF front
<1>8. ASSUME NEW c \in cuts PROVE c \in 1..(L - 1)
  <2>1. PICK i \in 1..(n - 1) : c = units[i][2]
    BY <1>7 DEF ToSet, Final
  <2>2. i \in 1..n
    BY <1>3
  <2> HIDE DEF n
  <2>3. units[i][2] < L /\ m + 1 <= units[i][1] /\ units[i][1] <= units[i][2] /\ units[i][2] \in Nat
        /\ units[i][1] \in Nat
    BY <1>3, <2>1, <2>2
  <2> QED
    BY <1>1, <2>1, <2>3
<1> HIDE DEF cuts
<1>9. Rejoined(s).text = [s.text EXCEPT !.spaces = s.text.spaces \cup cuts]
  BY DEF Rejoined, cuts, front, units
<1>10. s.text.spaces \cup cuts \subseteq 1..(L - 1) /\ s.text.spaces \cup cuts \in SUBSET Nat
  BY <1>1, <1>8 DEF L
<1> HIDE DEF n
<1>11. /\ Rejoined(s).text \in AnyText /\ Rejoined(s).text.letters = L
       /\ Rejoined(s).text.spaces = s.text.spaces \cup cuts
  BY <1>9, <1>10 DEF AnyText, L
<1> QED
  BY <1>5, <1>6, <1>10, <1>11 DEF L

LEMMA MemoryKeeps ==
  ASSUME SpeechInv, NEW r \in Speeches, OutOfMemory(r)
  PROVE  SpeechInv'
<1> DEFINE s == speech[r]
           half == engine.limit \div 2
           limit == IF half < Floor THEN Floor ELSE half
           again == Rejoined(s)
           groups == SplitSentences(again.text, again.piece, limit)
           new == [s EXCEPT !.text = again.text, !.groups = groups]
<1>1. /\ s \in Request /\ s.text \in AnyText /\ s.groups \in Seq(Seq(Piece))
      /\ s.spoken \in Seq(Utterance) /\ s.text.letters \in Nat \ {0}
      /\ RequestInv(s, r, engine) /\ engine \in Engine
      /\ engine.limit \in Floor..ChunkLimit /\ engine.limit \in Nat \ {0}
  BY RequestFacts
<1>2. s.at = "speaking" /\ s.groups # <<>>
  BY DEF OutOfMemory
<1>3. CASE engine.limit <= Floor
  <2>1. EndSpeech(r, "failed")
    BY <1>3 DEF OutOfMemory
  <2> QED
    BY <1>2, <2>1, EndSpeechKeeps
<1>4. CASE ~(engine.limit <= Floor)
  <2>1. engine' = [engine EXCEPT !.limit = limit] /\ speech' = [speech EXCEPT ![r] = new]
    BY <1>4 DEF OutOfMemory, SpeechInv
  <2>2. limit \in Floor..ChunkLimit /\ limit \in Nat \ {0}
    BY <1>1, <1>4, SpeechAssumption
  <2> HIDE DEF limit
  <2>3. /\ engine.lock = r /\ engine.voice = s.voice /\ \E m : SpokenUpTo(s, m)
        /\ s.text.spaces \subseteq 1..(s.text.letters - 1)
    BY <1>1, <1>2, Zenon DEF RequestInv
  <2>4. PICK m : SpokenUpTo(s, m)
    BY <2>3
  <2>5. Grouped(s.groups, m + 1, s.text.letters) /\ m \in Nat
    <3>1. m \in Nat
      BY <2>4, GroupedEnds DEF SpokenUpTo
    <3> QED
      BY <1>2, <2>4, <3>1 DEF SpokenUpTo
  <2> HIDE DEF s
  <2>6. /\ again.piece = <<m + 1, s.text.letters>> /\ again.piece \in Piece
        /\ again.text \in AnyText /\ again.text.letters = s.text.letters
        /\ again.text.spaces \subseteq 1..(s.text.letters - 1)
    BY <1>1, <2>3, <2>5, RejoinedFacts
  <2> HIDE DEF again
  <2>7. Grouped(groups, m + 1, s.text.letters) /\ groups \in Seq(Small(again.text.spaces, limit))
    <3>1. /\ Grouped(groups, again.piece[1], again.piece[2])
          /\ groups \in Seq(Small(again.text.spaces, limit))
      BY <2>2, <2>6, SplitFits
    <3> QED
      BY <2>6, <3>1
  <2> HIDE DEF groups
  <2>8. groups \in Seq(Seq(Piece))
    BY <2>7 DEF Grouped
  <2>9. /\ new \in Request /\ new.at = "speaking" /\ new.text = again.text
        /\ new.spoken = s.spoken /\ new.groups = groups /\ new.voice = s.voice
    BY <1>1, <1>2, <2>6, <2>8 DEF Request
  <2>10. engine' \in Engine /\ engine'.lock = r /\ engine'.voice = s.voice /\ engine'.limit = limit
    BY <1>1, <2>1, <2>2, <2>3 DEF Engine
  <2> HIDE DEF new
  <2>11. Uttered(new) = Uttered(s)
    BY <2>9 DEF Uttered
  <2>12. SpokenUpTo(new, m)
    BY <2>4, <2>6, <2>7, <2>9, <2>11 DEF SpokenUpTo
  <2>13. \A i \in DOMAIN new.spoken : /\ new.spoken[i].voice = new.voice
                                       /\ new.spoken[i].length <= new.spoken[i].limit
    BY <1>1, <2>9 DEF RequestInv
  <2>14. new.text.spaces \subseteq 1..(new.text.letters - 1)
    BY <2>6, <2>9
  <2>15. RequestInv(new, r, engine')
    BY <2>7, <2>9, <2>10, <2>12, <2>13, <2>14 DEF RequestInv
  <2> QED
    BY <2>1, <2>3, <2>9, <2>10, <2>15, OneRequest
<1> QED
  BY <1>3, <1>4

LEMMA SpeechInvNext == SpeechInv /\ [SpeechNext]_speechVars => SpeechInv'
<1> SUFFICES ASSUME SpeechInv, [SpeechNext]_speechVars PROVE SpeechInv'
  OBVIOUS
<1>1. CASE UNCHANGED speechVars
  BY <1>1 DEF speechVars, SpeechInv
<1>2. ASSUME NEW r \in Speeches, SpeechFails(r) PROVE SpeechInv'
  BY <1>2, EndSpeechKeeps DEF SpeechFails
<1>3. ASSUME NEW r \in Speeches, AnswerSpeech(r) PROVE SpeechInv'
  BY <1>3, EndSpeechKeeps DEF AnswerSpeech
<1> QED
  BY <1>1, <1>2, <1>3, RefuseKeeps, BeginKeeps, SpeakKeeps, MemoryKeeps DEF SpeechNext

LEMMA SpeechInvTypes == SpeechInv => SpeechTypeOK
<1> SUFFICES ASSUME SpeechInv PROVE SpeechTypeOK
  OBVIOUS
<1>1. engine.voice \in Voices /\ engine.limit \in Floor..ChunkLimit
      /\ engine.lock \in Speeches \cup {NoVoice}
  BY DEF SpeechInv, Engine
<1>2. ASSUME NEW r \in Speeches
      PROVE  /\ speech[r].at \in {"waiting", "speaking", "answered", "refused", "failed"}
             /\ speech[r].text.spaces \subseteq 1..speech[r].text.letters
  <2>1. /\ speech[r] \in Request /\ speech[r].text.letters \in Nat \ {0}
        /\ RequestInv(speech[r], r, engine)
    BY RequestFacts
  <2>2. speech[r].text.spaces \subseteq 1..(speech[r].text.letters - 1)
    BY <2>1 DEF RequestInv
  <2> QED
    BY <2>1, <2>2 DEF Request
<1> QED
  BY <1>1, <1>2 DEF SpeechTypeOK

LEMMA RunCovers ==
  ASSUME NEW u, NEW p \in Piece, Run(u, p[1], p[2])
  PROVE  Covers(u, p)
<1> DEFINE n == Len(u)
<1>1. /\ u \in Seq(Piece) /\ u # <<>> /\ n \in Nat \ {0} /\ u[1][1] = p[1] /\ u[n][2] = p[2]
      /\ \A i \in 1..n : u[i][1] <= u[i][2]
      /\ \A i \in 1..(n - 1) : u[i + 1][1] = u[i][2] + 1
  BY RunEnds DEF Run
<1>2. DOMAIN u = 1..n
  BY <1>1
<1> HIDE DEF n
<1>3. ASSUME NEW i \in 1..n, i > 1 PROVE u[i][1] = u[i - 1][2] + 1
  <2>1. i - 1 \in 1..(n - 1) /\ (i - 1) + 1 = i
    BY <1>1, <1>3
  <2> QED
    BY <1>1, <2>1
<1> QED
  BY <1>1, <1>2, <1>3 DEF Covers, First, Final, Last, n

LEMMA SpeechInvSpoken == SpeechInv => SpokenInFull
<1> SUFFICES ASSUME SpeechInv, NEW r \in Speeches
             PROVE  /\ speech[r].at = "answered" =>
                         Covers(FlattenSeq([i \in DOMAIN speech[r].spoken |-> speech[r].spoken[i].group]),
                                Whole(speech[r].text))
                    /\ \A i \in DOMAIN speech[r].spoken :
                         /\ speech[r].spoken[i].voice = speech[r].voice
                         /\ speech[r].spoken[i].length <= speech[r].spoken[i].limit
  BY DEF SpokenInFull
<1> DEFINE s == speech[r]
<1>1. RequestInv(s, r, engine) /\ s.text.letters \in Nat \ {0}
  BY RequestFacts
<1>2. ASSUME s.at = "answered" PROVE Covers(FlattenSeq(Uttered(s)), Whole(s.text))
  <2> DEFINE p == Whole(s.text)
  <2>1. Grouped(Uttered(s), 1, s.text.letters)
    BY <1>1, <1>2 DEF RequestInv
  <2>2. p \in Piece /\ p[1] = 1 /\ p[2] = s.text.letters
    BY <1>1 DEF Whole, Piece
  <2> HIDE DEF p, s
  <2>3. Run(FlattenSeq(Uttered(s)), p[1], p[2])
    BY <2>1, <2>2, FlatRun
  <2>4. Covers(FlattenSeq(Uttered(s)), p)
    BY <2>2, <2>3, RunCovers
  <2> QED
    BY <2>4 DEF p
<1>3. \A i \in DOMAIN s.spoken : /\ s.spoken[i].voice = s.voice
                                  /\ s.spoken[i].length <= s.spoken[i].limit
  BY <1>1, Zenon DEF RequestInv
<1> QED
  BY <1>2, <1>3 DEF Uttered

-----------------------------------------------------------------------------
(* The theorems.                                                           *)

LEMMA SpeechInvHolds == SpeechSpec => []SpeechInv
<1> QED
  BY SpeechInvInit, SpeechInvNext, PTL DEF SpeechSpec

\* Every state is well-typed: the engine's limit stays between its floor and the limit it
\* was built with, however often it is halved.
THEOREM SpeechTypeInvariant == SpeechSpec => []SpeechTypeOK
<1> QED
  BY SpeechInvHolds, SpeechInvTypes, PTL

\* An answer is the whole text, nothing twice and in order, in the voice asked for, in
\* chunks within the limit: for any texts, and any number of requests.
THEOREM AnswersAreSpokenInFull == SpeechSpec => []SpokenInFull
<1> QED
  BY SpeechInvHolds, SpeechInvSpoken, PTL

\* The docstring of split_sentences, "the limit is a hard guarantee even when a single
\* sentence exceeds it", and nothing is lost or reordered: for any piece of any text.
THEOREM SplitIsSound ==
  ASSUME NEW p \in Piece, NEW text, NEW limit \in Nat \ {0}
  PROVE  LET groups == SplitSentences(text, p, limit)
         IN  /\ Covers(FlattenSeq(groups), p)
             /\ \A i \in DOMAIN groups : GroupLength(groups[i], text.spaces) <= limit
<1> DEFINE groups == SplitSentences(text, p, limit)
<1>1. Grouped(groups, p[1], p[2]) /\ groups \in Seq(Small(text.spaces, limit))
  BY SplitFits
<1> HIDE DEF groups
<1>2. Covers(FlattenSeq(groups), p)
  BY <1>1, FlatRun, RunCovers
<1>3. \A i \in DOMAIN groups : groups[i] \in Small(text.spaces, limit)
  BY <1>1
<1> QED
  BY <1>2, <1>3 DEF Small, groups

\* A text over the limit is cut into units that are put together into no more groups than
\* the units need, or into at most as many as its length divided by the limit.
THEOREM SplitMakesFew ==
  ASSUME NEW text, NEW piece \in Piece, NEW limit \in Nat \ {0},
         Length(piece, text.spaces) > limit,
         NEW number, Numbering(number, Units(text, piece, limit), text.spaces, limit)
  PROVE  LET groups == SplitSentences(text, piece, limit)
             needed == number[Len(Units(text, piece, limit))]
             count  == (Length(piece, text.spaces) + limit - 1) \div limit
         IN  Len(groups) <= needed \/ Len(groups) <= count
<1> DEFINE units == Units(text, piece, limit)
<1>1. units \in Seq(Piece) /\ units # <<>>
  <2>1. Run(units, piece[1], piece[2])
    BY UnitsFit
  <2>2. Len(units) \in Nat \ {0}
    BY <2>1, RunEnds
  <2> HIDE DEF units
  <2> QED
    BY <2>1, <2>2 DEF Run
<1>2. ~(Length(piece, text.spaces) <= limit)
  BY LengthFacts
<1>3. PICK size \in 1..limit :
        /\ SplitSentences(text, piece, limit) = Pack(units, text.spaces, size)
        /\ \/ size = limit
           \/ Len(Pack(units, text.spaces, size))
                <= (Length(piece, text.spaces) + limit - 1) \div limit
  BY <1>2, SplitPacks
<1>4. CASE size = limit
  <2> HIDE DEF units
  <2>1. Len(Pack(units, text.spaces, limit)) <= number[Len(units)]
    BY <1>1, PackIsFewest DEF units
  <2> QED
    BY <1>3, <1>4, <2>1 DEF units
<1>5. CASE size # limit
  BY <1>3, <1>5
<1> QED
  BY <1>4, <1>5
=============================================================================
