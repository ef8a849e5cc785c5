---------------------------- MODULE StreamProofs ----------------------------
(***************************************************************************)
(* Proofs about ReplyStream, for any replies that backends send, limits    *)
(* and chunks: the record is what the chat made of the reply, or the       *)
(* beginning of it, and the tokens counted are those reported last.        *)
(*                                                                         *)
(* What the proxy keeps are stretches of units.  Each reader is a fold     *)
(* over lines, and a fold is a sequence of states: of the chat and the     *)
(* record the states are the same, of the token count they are Zero up to  *)
(* the last report and that report from there on.                          *)
(***************************************************************************)
EXTENDS ReplyStream, SpeechProofs

-----------------------------------------------------------------------------
(* Stretches of units.                                                     *)

\* The units behind the a-th, up to the b-th.
Stretch(a, b) == [k \in 1..(b - a) |-> a + k]

LEMMA StretchFacts ==
  ASSUME NEW a \in Nat, NEW b \in Nat, a <= b
  PROVE  /\ Stretch(a, b) \in Seq((a + 1)..b) /\ Len(Stretch(a, b)) = b - a
         /\ DOMAIN Stretch(a, b) = 1..(b - a)
         /\ \A k \in 1..(b - a) : Stretch(a, b)[k] = a + k
         /\ ToSet(Stretch(a, b)) = (a + 1)..b
<1> DEFINE s == Stretch(a, b)
<1>1. b - a \in Nat /\ DOMAIN s = 1..(b - a)
  BY DEF Stretch
<1>2. \A k \in 1..(b - a) : s[k] = a + k /\ a + k \in (a + 1)..b
  BY DEF Stretch
<1>3. s \in [1..(b - a) -> (a + 1)..b]
  BY <1>2 DEF Stretch
<1>4. s \in Seq((a + 1)..b) /\ Len(s) = b - a
  BY <1>1, <1>3
<1>5. \A u \in (a + 1)..b : u - a \in 1..(b - a) /\ a + (u - a) = u
  OBVIOUS
<1> HIDE DEF s
<1>6. ToSet(s) = (a + 1)..b
  <2>1. \A x \in ToSet(s) : x \in (a + 1)..b
    BY <1>1, <1>2, Zenon DEF ToSet
  <2>2. \A u \in (a + 1)..b : \E k \in DOMAIN s : s[k] = u
    BY <1>1, <1>2, <1>5
  <2>3. \A u \in (a + 1)..b : u \in ToSet(s)
    BY <2>2 DEF ToSet
  <2> QED
    BY <2>1, <2>3
<1> QED
  BY <1>1, <1>2, <1>4, <1>6 DEF s

LEMMA StretchConcat ==
  ASSUME NEW a \in Nat, NEW b \in Nat, NEW c \in Nat, a <= b, b <= c
  PROVE  Stretch(a, b) \o Stretch(b, c) = Stretch(a, c)
<1> DEFINE s == Stretch(a, b)
           t == Stretch(b, c)
           u == Stretch(a, c)
<1>1. /\ s \in Seq(Nat) /\ Len(s) = b - a /\ t \in Seq(Nat) /\ Len(t) = c - b
      /\ u \in Seq(Nat) /\ Len(u) = c - a
  <2>1. \A x \in Nat, y \in Nat : x <= y => Stretch(x, y) \in Seq(Nat) /\ Len(Stretch(x, y)) = y - x
    <3>1. ASSUME NEW x \in Nat, NEW y \in Nat, x <= y
          PROVE  Stretch(x, y) \in Seq(Nat) /\ Len(Stretch(x, y)) = y - x
      <4>1. Stretch(x, y) \in [1..(y - x) -> Nat]
        BY DEF Stretch
      <4>2. y - x \in Nat
        BY <3>1
      <4> QED
        BY <4>1, <4>2
    <3> QED
      BY <3>1
  <2>2. a <= c
    OBVIOUS
  <2> QED
    BY <2>1, <2>2
<1>2. \A k \in 1..(b - a) : s[k] = a + k
  BY DEF Stretch
<1>3. \A k \in 1..(c - b) : t[k] = b + k
  BY DEF Stretch
<1>4. \A k \in 1..(c - a) : u[k] = a + k
  BY DEF Stretch
<1> HIDE DEF s, t, u
<1>5. Len(s \o t) = c - a /\ s \o t \in Seq(Nat)
  BY <1>1
<1>6. ASSUME NEW k \in 1..(c - a) PROVE (s \o t)[k] = u[k]
  <2>1. CASE k <= b - a
    <3>1. (s \o t)[k] = s[k]
      BY <1>1, <2>1
    <3> QED
      BY <1>2, <1>4, <2>1, <3>1
  <2>2. CASE ~(k <= b - a)
    <3>1. (s \o t)[k] = t[k - (b - a)] /\ k - (b - a) \in 1..(c - b)
      BY <1>1, <2>2, SMTT(30)
    <3>2. t[k - (b - a)] = b + (k - (b - a))
      BY <1>3, <3>1
    <3> QED
      BY <1>4, <3>1, <3>2
  <2> QED
    BY <2>1, <2>2
<1>7. s \o t = u
  <2>1. \A k \in 1..Len(s \o t) : (s \o t)[k] = u[k]
    BY <1>5, <1>6
  <2>2. Len(s \o t) = Len(u)
    BY <1>1, <1>5
  <2> QED
    BY <1>1, <1>5, <2>1, <2>2, SameSequence, Zenon
<1> QED
  BY <1>7 DEF s, t, u

LEMMA StretchPart ==
  ASSUME NEW a \in Nat, NEW b \in Nat, a <= b,
         NEW m \in Nat \ {0}, NEW n \in Nat, m - 1 <= n, n <= b - a
  PROVE  SubSeq(Stretch(a, b), m, n) = Stretch(a + m - 1, a + n)
<1> DEFINE s == Stretch(a, b)
           t == Stretch(a + m - 1, a + n)
<1>1. s \in Seq((a + 1)..b) /\ Len(s) = b - a /\ \A k \in 1..(b - a) : s[k] = a + k
  BY StretchFacts
<1>2. /\ t \in Seq((a + m)..(a + n)) /\ Len(t) = n - m + 1
      /\ \A k \in 1..(n - m + 1) : t[k] = a + m - 1 + k
  <2> DEFINE x == a + m - 1
             y == a + n
  <2>1. x \in Nat /\ y \in Nat /\ x <= y
    OBVIOUS
  <2>2. y - x = n - m + 1 /\ x + 1 = a + m
    OBVIOUS
  <2>3. t = Stretch(x, y)
    OBVIOUS
  <2>4. a + m - 1 = x /\ a + n = y
    OBVIOUS
  <2> HIDE DEF x, y, t
  <2>5. /\ t \in Seq((x + 1)..y) /\ Len(t) = y - x
        /\ \A k \in 1..(y - x) : t[k] = x + k
    BY <2>1, <2>3, StretchFacts
  <2> QED
    BY <2>2, <2>4, <2>5
<1> HIDE DEF s, t
<1>3. Len(SubSeq(s, m, n)) = n - m + 1 /\ SubSeq(s, m, n) \in Seq((a + 1)..b)
  BY <1>1
<1>4. ASSUME NEW k \in 1..(n - m + 1) PROVE SubSeq(s, m, n)[k] = t[k]
  <2>1. SubSeq(s, m, n)[k] = s[m + k - 1] /\ m + k - 1 \in 1..(b - a)
    BY <1>1
  <2> QED
    BY <1>1, <1>2, <2>1
<1>5. SubSeq(s, m, n) = t
  <2>1. Len(SubSeq(s, m, n)) = Len(t) /\ \A k \in 1..Len(t) : SubSeq(s, m, n)[k] = t[k]
    BY <1>2, <1>3, <1>4
  <2> QED
    BY <1>2, <1>3, <2>1, SameSequence, ZenonT(60)
<1> QED
  BY <1>5 DEF s, t

(* StretchPart with its bounds under a quantifier, for readers whose bounds are named terms. *)
LEMMA StretchParts ==
  \A a \in Nat, b \in Nat, m \in Nat \ {0}, n \in Nat :
    a <= b /\ m - 1 <= n /\ n <= b - a => SubSeq(Stretch(a, b), m, n) = Stretch(a + m - 1, a + n)
<1> TAKE a \in Nat, b \in Nat, m \in Nat \ {0}, n \in Nat
<1> HAVE a <= b /\ m - 1 <= n /\ n <= b - a
<1> QED
  BY StretchPart, ZenonT(60)

-----------------------------------------------------------------------------
(* Folds as sequences of states.                                           *)

Call   == [index : Nat, id : Nat, args : Seq(Nat)]
Tokens == [prompt : Nat, completion : Nat]
Text   == [found : BOOLEAN, thinking : Seq(Nat), content : Seq(Nat), calls : Seq(Call),
           usage : {NoTokens} \cup Tokens]

\* The states of a fold are those that its recursion meets along the indices 1..k.
LEMMA StatesOfFold ==
  ASSUME NEW n \in Nat, NEW base, NEW step, NEW the, Folds(the, n, base, step)
  PROVE  /\ the[1..0] = base
         /\ \A k \in 1..n : the[1..k] = step[k][the[1..(k - 1)]]
<1>1. \A s \in SUBSET (1..n) : the[s] = IF s = {} THEN base ELSE step[Max(s)][the[s \ {Max(s)}]]
  BY DEF Folds
<1>2. 1..0 = {} /\ {} \in SUBSET (1..n)
  OBVIOUS
<1>3. the[1..0] = base
  BY <1>1, <1>2
<1>4. ASSUME NEW k \in 1..n PROVE the[1..k] = step[k][the[1..(k - 1)]]
  <2>1. Max(1..k) = k /\ (1..k) \ {k} = 1..(k - 1) /\ 1..k # {} /\ 1..k \in SUBSET (1..n)
    BY FoldRises
  <2>2. the[1..k] = step[Max(1..k)][the[(1..k) \ {Max(1..k)}]]
    BY <1>1, <2>1, Zenon
  <2> QED
    BY <2>1, <2>2, Zenon
<1> QED
  BY <1>3, <1>4

\* Two recursions that start alike and go on alike end alike.
GoAlike(f, g, n) ==
  /\ f[1..0] = g[1..0]
  /\ \A k \in 1..n : f[1..(k - 1)] = g[1..(k - 1)] => f[1..k] = g[1..k]

LEMMA SameRuns == \A n \in Nat : \A f, g : GoAlike(f, g, n) => f[1..n] = g[1..n]
<1> SUFFICES ASSUME NEW n \in Nat, NEW f, NEW g, f[1..0] = g[1..0],
                    \A k \in 1..n : f[1..(k - 1)] = g[1..(k - 1)] => f[1..k] = g[1..k]
             PROVE  f[1..n] = g[1..n]
  BY Zenon DEF GoAlike
<1> DEFINE S == {k \in 0..n : f[1..k] = g[1..k]}
<1>1. 0 \in S
  OBVIOUS
<1>2. ASSUME NEW k \in 0..(n - 1), k \in S PROVE k + 1 \in S
  <2>1. k + 1 \in 1..n /\ (k + 1) - 1 = k /\ k + 1 \in 0..n
    OBVIOUS
  <2>2. f[1..((k + 1) - 1)] = g[1..((k + 1) - 1)] => f[1..(k + 1)] = g[1..(k + 1)]
    BY <2>1
  <2>3. f[1..k] = g[1..k] => f[1..(k + 1)] = g[1..(k + 1)]
    BY <2>1, <2>2, Zenon
  <2> QED
    BY <1>2, <2>1, <2>3
<1> HIDE DEF S
<1>3. 0 \in Int /\ n \in Int /\ n \in 0..n
  OBVIOUS
<1>4. 0..n \subseteq S
  BY <1>1, <1>2, <1>3, Climb
<1>5. n \in S
  BY <1>3, <1>4, Zenon
<1> QED
  BY <1>5 DEF S

\* The four folds of this module, over states of any type that their steps keep.
CollectRun(st, s, base) ==
  /\ st[0] = base /\ st[Len(s)] = FoldLeft(Collect, base, s)
  /\ \A k \in 1..Len(s) : st[k] = Collect(st[k - 1], s[k])

LEMMA CollectFold ==
  ASSUME NEW L, NEW s \in Seq(L), NEW A, NEW base \in A,
         \A a \in A : \A i \in 1..Len(s) : Collect(a, s[i]) \in A
  PROVE  \E st \in [0..Len(s) -> A] : CollectRun(st, s, base)
<1> DEFINE n == Len(s)
           change == [i \in 1..n |-> [a \in A |-> Collect(a, s[i])]]
           Next1(it, p) == IF p = {} THEN base ELSE Collect(it[p \ {Max(p)}], s[Max(p)])
           Is(it) == it = [p \in SUBSET (1..n) |-> Next1(it, p)]
           the == CHOOSE it : Is(it)
<1>1. n \in Nat /\ DOMAIN s = 1..n
  OBVIOUS
<1>2. PICK iter \in [SUBSET (1..n) -> A] : Folds(iter, n, base, change)
  <2>1. \A i \in 1..n : \A a \in A : change[i][a] \in A
    OBVIOUS
  <2> HIDE DEF n, change
  <2> QED
    BY <1>1, <2>1, FoldExists
<1>3. \A p \in SUBSET (1..n) : p # {} => Max(p) \in 1..n
  BY <1>1, MaxOf
<1>4. Is(iter)
  <2>1. ASSUME NEW p \in SUBSET (1..n) PROVE iter[p] = Next1(iter, p)
    <3>1. iter[p] = IF p = {} THEN base ELSE change[Max(p)][iter[p \ {Max(p)}]]
      BY <1>2 DEF Folds
    <3>2. iter[p \ {Max(p)}] \in A
      BY <1>2
    <3> QED
      BY <1>3, <3>1, <3>2
  <2> HIDE DEF Next1
  <2> QED
    BY <1>2, <2>1
<1>5. Is(the)
  <2> HIDE DEF Is
  <2> QED
    BY <1>4, Zenon
<1>6. FoldLeft(Collect, base, s) = the[1..n]
  BY <1>1 DEF FoldLeft, MapThenFoldSet
<1> HIDE DEF the
<1>7. iter[1..0] = base /\ \A k \in 1..n : iter[1..k] = change[k][iter[1..(k - 1)]]
  <2> HIDE DEF change
  <2> QED
    BY <1>1, <1>2, StatesOfFold
<1>8. iter[1..0] = base /\ \A k \in 1..n : iter[1..k] = Collect(iter[1..(k - 1)], s[k])
  <2>1. \A k \in 1..n : iter[1..(k - 1)] \in A
    BY <1>1, <1>2, FoldRises
  <2> QED
    BY <1>7, <2>1
<1>9. the[1..0] = base /\ \A k \in 1..n : the[1..k] = Collect(the[1..(k - 1)], s[k])
  <2>1. \A p \in SUBSET (1..n) : the[p] = Next1(the, p)
    BY <1>5
  <2>2. 1..0 = {} /\ {} \in SUBSET (1..n)
    OBVIOUS
  <2>3. the[1..0] = base
    BY <2>1, <2>2
  <2>4. ASSUME NEW k \in 1..n PROVE the[1..k] = Collect(the[1..(k - 1)], s[k])
    <3>1. Max(1..k) = k /\ (1..k) \ {k} = 1..(k - 1) /\ 1..k # {} /\ 1..k \in SUBSET (1..n)
      BY <1>1, FoldRises
    <3>2. the[1..k] = Next1(the, 1..k)
      BY <2>1, <3>1
    <3>3. Next1(the, 1..k) = Collect(the[(1..k) \ {Max(1..k)}], s[Max(1..k)])
      BY <3>1
    <3> QED
      BY <3>1, <3>2, <3>3, Zenon
  <2> QED
    BY <2>3, <2>4
<1>10. the[1..n] = iter[1..n]
  <2>1. \A k \in 1..n : the[1..(k - 1)] = iter[1..(k - 1)] => the[1..k] = iter[1..k]
    BY <1>8, <1>9
  <2>2. the[1..0] = iter[1..0] /\ n \in Nat
    BY <1>1, <1>8, <1>9
  <2>3. GoAlike(the, iter, n)
    BY <2>1, <2>2, Zenon DEF GoAlike
  <2> QED
    BY <2>2, <2>3, SameRuns, Zenon
<1> DEFINE st == [k \in 0..n |-> iter[1..k]]
<1>11. st \in [0..n -> A]
  <2>1. \A k \in 0..n : 1..k \in SUBSET (1..n)
    BY <1>1
  <2> QED
    BY <1>2, <2>1
<1>12. st[0] = base /\ st[n] = FoldLeft(Collect, base, s)
  BY <1>1, <1>6, <1>8, <1>10
<1>13. ASSUME NEW k \in 1..n PROVE st[k] = Collect(st[k - 1], s[k])
  <2>1. st[k] = iter[1..k] /\ st[k - 1] = iter[1..(k - 1)]
    BY <1>1
  <2> HIDE DEF st
  <2> QED
    BY <1>8, <2>1, Zenon
<1> HIDE DEF st
<1> QED
  BY <1>11, <1>12, <1>13 DEF CollectRun

ChatRun(st, s, base) ==
  /\ st[0] = base /\ st[Len(s)] = FoldLeft(ChatGathers, base, s)
  /\ \A k \in 1..Len(s) : st[k] = ChatGathers(st[k - 1], s[k])

LEMMA ChatFold ==
  ASSUME NEW L, NEW s \in Seq(L), NEW A, NEW base \in A,
         \A a \in A : \A i \in 1..Len(s) : ChatGathers(a, s[i]) \in A
  PROVE  \E st \in [0..Len(s) -> A] : ChatRun(st, s, base)
<1> DEFINE n == Len(s)
           change == [i \in 1..n |-> [a \in A |-> ChatGathers(a, s[i])]]
           Next1(it, p) == IF p = {} THEN base ELSE ChatGathers(it[p \ {Max(p)}], s[Max(p)])
           Is(it) == it = [p \in SUBSET (1..n) |-> Next1(it, p)]
           the == CHOOSE it : Is(it)
<1>1. n \in Nat /\ DOMAIN s = 1..n
  OBVIOUS
<1>2. PICK iter \in [SUBSET (1..n) -> A] : Folds(iter, n, base, change)
  <2>1. \A i \in 1..n : \A a \in A : change[i][a] \in A
    OBVIOUS
  <2> HIDE DEF n, change
  <2> QED
    BY <1>1, <2>1, FoldExists
<1>3. \A p \in SUBSET (1..n) : p # {} => Max(p) \in 1..n
  BY <1>1, MaxOf
<1>4. Is(iter)
  <2>1. ASSUME NEW p \in SUBSET (1..n) PROVE iter[p] = Next1(iter, p)
    <3>1. iter[p] = IF p = {} THEN base ELSE change[Max(p)][iter[p \ {Max(p)}]]
      BY <1>2 DEF Folds
    <3>2. iter[p \ {Max(p)}] \in A
      BY <1>2
    <3> QED
      BY <1>3, <3>1, <3>2
  <2> HIDE DEF Next1
  <2> QED
    BY <1>2, <2>1
<1>5. Is(the)
  <2> HIDE DEF Is
  <2> QED
    BY <1>4, Zenon
<1>6. FoldLeft(ChatGathers, base, s) = the[1..n]
  BY <1>1 DEF FoldLeft, MapThenFoldSet
<1> HIDE DEF the
<1>7. iter[1..0] = base /\ \A k \in 1..n : iter[1..k] = change[k][iter[1..(k - 1)]]
  <2> HIDE DEF change
  <2> QED
    BY <1>1, <1>2, StatesOfFold
<1>8. iter[1..0] = base /\ \A k \in 1..n : iter[1..k] = ChatGathers(iter[1..(k - 1)], s[k])
  <2>1. \A k \in 1..n : iter[1..(k - 1)] \in A
    BY <1>1, <1>2, FoldRises
  <2> QED
    BY <1>7, <2>1
<1>9. the[1..0] = base /\ \A k \in 1..n : the[1..k] = ChatGathers(the[1..(k - 1)], s[k])
  <2>1. \A p \in SUBSET (1..n) : the[p] = Next1(the, p)
    BY <1>5
  <2>2. 1..0 = {} /\ {} \in SUBSET (1..n)
    OBVIOUS
  <2>3. the[1..0] = base
    BY <2>1, <2>2
  <2>4. ASSUME NEW k \in 1..n PROVE the[1..k] = ChatGathers(the[1..(k - 1)], s[k])
    <3>1. Max(1..k) = k /\ (1..k) \ {k} = 1..(k - 1) /\ 1..k # {} /\ 1..k \in SUBSET (1..n)
      BY <1>1, FoldRises
    <3>2. the[1..k] = Next1(the, 1..k)
      BY <2>1, <3>1
    <3>3. Next1(the, 1..k) = ChatGathers(the[(1..k) \ {Max(1..k)}], s[Max(1..k)])
      BY <3>1
    <3> QED
      BY <3>1, <3>2, <3>3, Zenon
  <2> QED
    BY <2>3, <2>4
<1>10. the[1..n] = iter[1..n]
  <2>1. \A k \in 1..n : the[1..(k - 1)] = iter[1..(k - 1)] => the[1..k] = iter[1..k]
    BY <1>8, <1>9
  <2>2. the[1..0] = iter[1..0] /\ n \in Nat
    BY <1>1, <1>8, <1>9
  <2>3. GoAlike(the, iter, n)
    BY <2>1, <2>2, Zenon DEF GoAlike
  <2> QED
    BY <2>2, <2>3, SameRuns, Zenon
<1> DEFINE st == [k \in 0..n |-> iter[1..k]]
<1>11. st \in [0..n -> A]
  <2>1. \A k \in 0..n : 1..k \in SUBSET (1..n)
    BY <1>1
  <2> QED
    BY <1>2, <2>1
<1>12. st[0] = base /\ st[n] = FoldLeft(ChatGathers, base, s)
  BY <1>1, <1>6, <1>8, <1>10
<1>13. ASSUME NEW k \in 1..n PROVE st[k] = ChatGathers(st[k - 1], s[k])
  <2>1. st[k] = iter[1..k] /\ st[k - 1] = iter[1..(k - 1)]
    BY <1>1
  <2> HIDE DEF st
  <2> QED
    BY <1>8, <2>1, Zenon
<1> HIDE DEF st
<1> QED
  BY <1>11, <1>12, <1>13 DEF ChatRun

RecordRun(st, s, base) ==
  /\ st[0] = base /\ st[Len(s)] = FoldLeft(RecordGathers, base, s)
  /\ \A k \in 1..Len(s) : st[k] = RecordGathers(st[k - 1], s[k])

LEMMA RecordFold ==
  ASSUME NEW L, NEW s \in Seq(L), NEW A, NEW base \in A,
         \A a \in A : \A i \in 1..Len(s) : RecordGathers(a, s[i]) \in A
  PROVE  \E st \in [0..Len(s) -> A] : RecordRun(st, s, base)
<1> DEFINE n == Len(s)
           change == [i \in 1..n |-> [a \in A |-> RecordGathers(a, s[i])]]
           Next1(it, p) == IF p = {} THEN base ELSE RecordGathers(it[p \ {Max(p)}], s[Max(p)])
           Is(it) == it = [p \in SUBSET (1..n) |-> Next1(it, p)]
           the == CHOOSE it : Is(it)
<1>1. n \in Nat /\ DOMAIN s = 1..n
  OBVIOUS
<1>2. PICK iter \in [SUBSET (1..n) -> A] : Folds(iter, n, base, change)
  <2>1. \A i \in 1..n : \A a \in A : change[i][a] \in A
    OBVIOUS
  <2> HIDE DEF n, change
  <2> QED
    BY <1>1, <2>1, FoldExists
<1>3. \A p \in SUBSET (1..n) : p # {} => Max(p) \in 1..n
  BY <1>1, MaxOf
<1>4. Is(iter)
  <2>1. ASSUME NEW p \in SUBSET (1..n) PROVE iter[p] = Next1(iter, p)
    <3>1. iter[p] = IF p = {} THEN base ELSE change[Max(p)][iter[p \ {Max(p)}]]
      BY <1>2 DEF Folds
    <3>2. iter[p \ {Max(p)}] \in A
      BY <1>2
    <3> QED
      BY <1>3, <3>1, <3>2
  <2> HIDE DEF Next1
  <2> QED
    BY <1>2, <2>1
<1>5. Is(the)
  <2> HIDE DEF Is
  <2> QED
    BY <1>4, Zenon
<1>6. FoldLeft(RecordGathers, base, s) = the[1..n]
  BY <1>1 DEF FoldLeft, MapThenFoldSet
<1> HIDE DEF the
<1>7. iter[1..0] = base /\ \A k \in 1..n : iter[1..k] = change[k][iter[1..(k - 1)]]
  <2> HIDE DEF change
  <2> QED
    BY <1>1, <1>2, StatesOfFold
<1>8. iter[1..0] = base /\ \A k \in 1..n : iter[1..k] = RecordGathers(iter[1..(k - 1)], s[k])
  <2>1. \A k \in 1..n : iter[1..(k - 1)] \in A
    BY <1>1, <1>2, FoldRises
  <2> QED
    BY <1>7, <2>1
<1>9. the[1..0] = base /\ \A k \in 1..n : the[1..k] = RecordGathers(the[1..(k - 1)], s[k])
  <2>1. \A p \in SUBSET (1..n) : the[p] = Next1(the, p)
    BY <1>5
  <2>2. 1..0 = {} /\ {} \in SUBSET (1..n)
    OBVIOUS
  <2>3. the[1..0] = base
    BY <2>1, <2>2
  <2>4. ASSUME NEW k \in 1..n PROVE the[1..k] = RecordGathers(the[1..(k - 1)], s[k])
    <3>1. Max(1..k) = k /\ (1..k) \ {k} = 1..(k - 1) /\ 1..k # {} /\ 1..k \in SUBSET (1..n)
      BY <1>1, FoldRises
    <3>2. the[1..k] = Next1(the, 1..k)
      BY <2>1, <3>1
    <3>3. Next1(the, 1..k) = RecordGathers(the[(1..k) \ {Max(1..k)}], s[Max(1..k)])
      BY <3>1
    <3> QED
      BY <3>1, <3>2, <3>3, Zenon
  <2> QED
    BY <2>3, <2>4
<1>10. the[1..n] = iter[1..n]
  <2>1. \A k \in 1..n : the[1..(k - 1)] = iter[1..(k - 1)] => the[1..k] = iter[1..k]
    BY <1>8, <1>9
  <2>2. the[1..0] = iter[1..0] /\ n \in Nat
    BY <1>1, <1>8, <1>9
  <2>3. GoAlike(the, iter, n)
    BY <2>1, <2>2, Zenon DEF GoAlike
  <2> QED
    BY <2>2, <2>3, SameRuns, Zenon
<1> DEFINE st == [k \in 0..n |-> iter[1..k]]
<1>11. st \in [0..n -> A]
  <2>1. \A k \in 0..n : 1..k \in SUBSET (1..n)
    BY <1>1
  <2> QED
    BY <1>2, <2>1
<1>12. st[0] = base /\ st[n] = FoldLeft(RecordGathers, base, s)
  BY <1>1, <1>6, <1>8, <1>10
<1>13. ASSUME NEW k \in 1..n PROVE st[k] = RecordGathers(st[k - 1], s[k])
  <2>1. st[k] = iter[1..k] /\ st[k - 1] = iter[1..(k - 1)]
    BY <1>1
  <2> HIDE DEF st
  <2> QED
    BY <1>8, <2>1, Zenon
<1> HIDE DEF st
<1> QED
  BY <1>11, <1>12, <1>13 DEF RecordRun

ScanRun(st, s, base) ==
  /\ st[0] = base /\ st[Len(s)] = FoldLeft(ScanBack, base, s)
  /\ \A k \in 1..Len(s) : st[k] = ScanBack(st[k - 1], s[k])

LEMMA ScanFold ==
  ASSUME NEW L, NEW s \in Seq(L), NEW A, NEW base \in A,
         \A a \in A : \A i \in 1..Len(s) : ScanBack(a, s[i]) \in A
  PROVE  \E st \in [0..Len(s) -> A] : ScanRun(st, s, base)
<1> DEFINE n == Len(s)
           change == [i \in 1..n |-> [a \in A |-> ScanBack(a, s[i])]]
           Next1(it, p) == IF p = {} THEN base ELSE ScanBack(it[p \ {Max(p)}], s[Max(p)])
           Is(it) == it = [p \in SUBSET (1..n) |-> Next1(it, p)]
           the == CHOOSE it : Is(it)
<1>1. n \in Nat /\ DOMAIN s = 1..n
  OBVIOUS
<1>2. PICK iter \in [SUBSET (1..n) -> A] : Folds(iter, n, base, change)
  <2>1. \A i \in 1..n : \A a \in A : change[i][a] \in A
    OBVIOUS
  <2> HIDE DEF n, change
  <2> QED
    BY <1>1, <2>1, FoldExists
<1>3. \A p \in SUBSET (1..n) : p # {} => Max(p) \in 1..n
  BY <1>1, MaxOf
<1>4. Is(iter)
  <2>1. ASSUME NEW p \in SUBSET (1..n) PROVE iter[p] = Next1(iter, p)
    <3>1. iter[p] = IF p = {} THEN base ELSE change[Max(p)][iter[p \ {Max(p)}]]
      BY <1>2 DEF Folds
    <3>2. iter[p \ {Max(p)}] \in A
      BY <1>2
    <3> QED
      BY <1>3, <3>1, <3>2
  <2> HIDE DEF Next1
  <2> QED
    BY <1>2, <2>1
<1>5. Is(the)
  <2> HIDE DEF Is
  <2> QED
    BY <1>4, Zenon
<1>6. FoldLeft(ScanBack, base, s) = the[1..n]
  BY <1>1 DEF FoldLeft, MapThenFoldSet
<1> HIDE DEF the
<1>7. iter[1..0] = base /\ \A k \in 1..n : iter[1..k] = change[k][iter[1..(k - 1)]]
  <2> HIDE DEF change
  <2> QED
    BY <1>1, <1>2, StatesOfFold
<1>8. iter[1..0] = base /\ \A k \in 1..n : iter[1..k] = ScanBack(iter[1..(k - 1)], s[k])
  <2>1. \A k \in 1..n : iter[1..(k - 1)] \in A
    BY <1>1, <1>2, FoldRises
  <2> QED
    BY <1>7, <2>1
<1>9. the[1..0] = base /\ \A k \in 1..n : the[1..k] = ScanBack(the[1..(k - 1)], s[k])
  <2>1. \A p \in SUBSET (1..n) : the[p] = Next1(the, p)
    BY <1>5
  <2>2. 1..0 = {} /\ {} \in SUBSET (1..n)
    OBVIOUS
  <2>3. the[1..0] = base
    BY <2>1, <2>2
  <2>4. ASSUME NEW k \in 1..n PROVE the[1..k] = ScanBack(the[1..(k - 1)], s[k])
    <3>1. Max(1..k) = k /\ (1..k) \ {k} = 1..(k - 1) /\ 1..k # {} /\ 1..k \in SUBSET (1..n)
      BY <1>1, FoldRises
    <3>2. the[1..k] = Next1(the, 1..k)
      BY <2>1, <3>1
    <3>3. Next1(the, 1..k) = ScanBack(the[(1..k) \ {Max(1..k)}], s[Max(1..k)])
      BY <3>1
    <3> QED
      BY <3>1, <3>2, <3>3, Zenon
  <2> QED
    BY <2>3, <2>4
<1>10. the[1..n] = iter[1..n]
  <2>1. \A k \in 1..n : the[1..(k - 1)] = iter[1..(k - 1)] => the[1..k] = iter[1..k]
    BY <1>8, <1>9
  <2>2. the[1..0] = iter[1..0] /\ n \in Nat
    BY <1>1, <1>8, <1>9
  <2>3. GoAlike(the, iter, n)
    BY <2>1, <2>2, Zenon DEF GoAlike
  <2> QED
    BY <2>2, <2>3, SameRuns, Zenon
<1> DEFINE st == [k \in 0..n |-> iter[1..k]]
<1>11. st \in [0..n -> A]
  <2>1. \A k \in 0..n : 1..k \in SUBSET (1..n)
    BY <1>1
  <2> QED
    BY <1>2, <2>1
<1>12. st[0] = base /\ st[n] = FoldLeft(ScanBack, base, s)
  BY <1>1, <1>6, <1>8, <1>10
<1>13. ASSUME NEW k \in 1..n PROVE st[k] = ScanBack(st[k - 1], s[k])
  <2>1. st[k] = iter[1..k] /\ st[k - 1] = iter[1..(k - 1)]
    BY <1>1
  <2> HIDE DEF st
  <2> QED
    BY <1>8, <2>1, Zenon
<1> HIDE DEF st
<1> QED
  BY <1>11, <1>12, <1>13 DEF ScanRun

-----------------------------------------------------------------------------
(* A call is put together from its pieces.                                 *)

LEMMA PrefixFacts ==
  ASSUME NEW S
  PROVE  /\ \A s \in Seq(S) : IsPrefix(s, s)
         /\ \A s, t \in Seq(S) : s \o t \in Seq(S) /\ IsPrefix(s, s \o t)
         /\ \A s, t, u \in Seq(S) : IsPrefix(s, t) /\ IsPrefix(t, u) => IsPrefix(s, u)
<1>1. ASSUME NEW s \in Seq(S), NEW t \in Seq(S), Len(s) <= Len(t)
      PROVE  IsPrefix(s, t) <=> \A k \in 1..Len(s) : s[k] = t[k]
  <2> DEFINE a == SubSeq(s, 1, Len(s))
             b == SubSeq(t, 1, Len(s))
  <2>1. /\ a \in Seq(S) /\ Len(a) = Len(s) /\ \A k \in 1..Len(s) : a[k] = s[k]
        /\ b \in Seq(S) /\ Len(b) = Len(s) /\ \A k \in 1..Len(s) : b[k] = t[k]
    BY <1>1
  <2>2. IsPrefix(s, t) <=> a = b
    BY <1>1 DEF IsPrefix
  <2> HIDE DEF a, b
  <2>3. (\A k \in 1..Len(s) : s[k] = t[k]) => a = b
    <3>1. ASSUME \A k \in 1..Len(s) : s[k] = t[k] PROVE a = b
      <4>1. Len(a) = Len(b) /\ \A k \in 1..Len(a) : a[k] = b[k]
        BY <2>1, <3>1
      <4> QED
        BY <2>1, <4>1, SameSequence, Zenon
    <3> QED
      BY <3>1
  <2>4. a = b => \A k \in 1..Len(s) : s[k] = t[k]
    BY <2>1
  <2> QED
    BY <2>2, <2>3, <2>4
<1>2. \A s, t \in Seq(S) : IsPrefix(s, t) => Len(s) <= Len(t)
  BY DEF IsPrefix
<1>3. ASSUME NEW s \in Seq(S) PROVE IsPrefix(s, s)
  <2>1. Len(s) <= Len(s) /\ \A k \in 1..Len(s) : s[k] = s[k]
    OBVIOUS
  <2> QED
    BY <1>1, <2>1
<1>4. ASSUME NEW s \in Seq(S), NEW t \in Seq(S) PROVE s \o t \in Seq(S) /\ IsPrefix(s, s \o t)
  <2>1. s \o t \in Seq(S) /\ Len(s) <= Len(s \o t) /\ \A k \in 1..Len(s) : s[k] = (s \o t)[k]
    OBVIOUS
  <2> QED
    BY <1>1, <2>1
<1>5. ASSUME NEW s \in Seq(S), NEW t \in Seq(S), NEW u \in Seq(S), IsPrefix(s, t), IsPrefix(t, u)
      PROVE  IsPrefix(s, u)
  <2>1. Len(s) <= Len(t) /\ Len(t) <= Len(u) /\ Len(s) \in Nat /\ Len(t) \in Nat /\ Len(u) \in Nat
    BY <1>2, <1>5
  <2>2. (\A k \in 1..Len(s) : s[k] = t[k]) /\ \A k \in 1..Len(t) : t[k] = u[k]
    BY <1>1, <1>5, <2>1
  <2>3. \A k \in 1..Len(s) : s[k] = u[k]
    BY <2>1, <2>2
  <2>4. Len(s) <= Len(u)
    BY <2>1
  <2> QED
    BY <1>1, <2>3, <2>4
<1> QED
  BY <1>3, <1>4, <1>5

\* The two ways to put a piece at the end of what is known of a call.
BothAdd(old, id, args) ==
  LET new == [index |-> old.index, id |-> IF id # 0 THEN id ELSE old.id, args |-> old.args \o args]
  IN  /\ new \in Call
      /\ [old EXCEPT !.id = IF id = 0 THEN @ ELSE id, !.args = @ \o args] = new
      /\ [old EXCEPT !.id = IF id # 0 THEN id ELSE @, !.args = @ \o args] = new

LEMMA PieceAdded ==
  ASSUME NEW old \in Call, NEW id \in Nat, NEW args \in Seq(Nat)
  PROVE  BothAdd(old, id, args)
<1> DEFINE x == IF id # 0 THEN id ELSE old.id
           y == old.args \o args
<1>1. x \in Nat /\ y \in Seq(Nat) /\ old.index \in Nat
  BY DEF Call
<1>2. x = IF id = 0 THEN old.id ELSE id
  OBVIOUS
<1> HIDE DEF x, y
<1>3. [old EXCEPT !.id = x, !.args = y] = [index |-> old.index, id |-> x, args |-> y]
  <2>1. PICK a \in Nat, b \in Nat, c \in Seq(Nat) : old = [index |-> a, id |-> b, args |-> c]
    BY DEF Call
  <2>2. [[index |-> a, id |-> b, args |-> c] EXCEPT !.id = x, !.args = y] = [index |-> a, id |-> x, args |-> y]
    <3>1. [[index |-> a, id |-> b, args |-> c] EXCEPT !.id = x] = [index |-> a, id |-> x, args |-> c]
      OBVIOUS
    <3>2. [[index |-> a, id |-> x, args |-> c] EXCEPT !.args = y] = [index |-> a, id |-> x, args |-> y]
      OBVIOUS
    <3> QED
      BY <3>1, <3>2
  <2>3. old.index = a
    BY <2>1
  <2> QED
    BY <2>1, <2>2, <2>3, Zenon
<1>4. [index |-> old.index, id |-> x, args |-> y] \in Call
  BY <1>1 DEF Call
<1>5. [old EXCEPT !.id = IF id # 0 THEN id ELSE @, !.args = @ \o args] = [old EXCEPT !.id = x, !.args = y]
  BY Zenon DEF x, y
<1>6. [old EXCEPT !.id = IF id = 0 THEN @ ELSE id, !.args = @ \o args] = [old EXCEPT !.id = x, !.args = y]
  BY <1>2, Zenon DEF y
<1> QED
  BY <1>3, <1>4, <1>5, <1>6, Zenon DEF x, y, BothAdd

\* No two calls have one index.
Distinct(calls) == \A i, j \in DOMAIN calls : calls[i].index = calls[j].index => i = j

\* What a piece makes of the calls: one it continues, or one more.
Continued(calls, more, at, piece) ==
  /\ at \in 1..Len(calls) /\ Len(more) = Len(calls)
  /\ \A i \in 1..Len(calls) : i # at => more[i] = calls[i]
  /\ calls[at].index = piece.index
  /\ more[at] = [index |-> calls[at].index, id |-> IF piece.id # 0 THEN piece.id ELSE calls[at].id,
                 args |-> calls[at].args \o piece.args]

LEMMA GatherOne ==
  ASSUME NEW calls \in Seq(Call), Distinct(calls), NEW piece \in Call
  PROVE  LET more == RecordGathers(calls, piece)
         IN  /\ more \in Seq(Call) /\ ChatGathers(calls, piece) = more
             /\ \/ \E at \in 1..Len(calls) : Continued(calls, more, at, piece)
                \/ /\ \A i \in 1..Len(calls) : calls[i].index # piece.index
                   /\ more = Append(calls, piece)
<1> DEFINE more == RecordGathers(calls, piece)
           known == {i \in DOMAIN calls : calls[i].index = piece.index}
<1>1. DOMAIN calls = 1..Len(calls) /\ Len(calls) \in Nat /\ \A i \in 1..Len(calls) : calls[i] \in Call
  OBVIOUS
<1>2. /\ piece.index \in Nat /\ piece.id \in Nat /\ piece.args \in Seq(Nat)
      /\ piece = [index |-> piece.index, id |-> piece.id, args |-> piece.args]
  BY DEF Call
<1>3. CASE known = {}
  <2> DEFINE old == [index |-> piece.index, id |-> 0, args |-> <<>>]
             new == [old EXCEPT !.id = IF piece.id = 0 THEN @ ELSE piece.id, !.args = @ \o piece.args]
  <2>0. old \in Call /\ old.index = piece.index /\ old.id = 0 /\ old.args = <<>>
    BY <1>2 DEF Call
  <2>4. more = SubSeq(calls, 1, Len(calls) + 1 - 1) \o <<new>>
                 \o SubSeq(calls, Len(calls) + 1 + 1, Len(calls))
    <3> DEFINE here == IF known = {} THEN Len(calls) + 1 ELSE Max(known)
               was == IF known = {} THEN [index |-> piece.index, id |-> 0, args |-> <<>>]
                      ELSE calls[here]
    <3>1. here = Len(calls) + 1 /\ was = old
      BY <1>3, Zenon
    <3> DEFINE grown == [was EXCEPT !.id = IF piece.id = 0 THEN @ ELSE piece.id, !.args = @ \o piece.args]
    <3>2. more = SubSeq(calls, 1, here - 1) \o <<grown>> \o SubSeq(calls, here + 1, Len(calls))
      BY Zenon DEF RecordGathers
    <3>3. grown = new
      <4> HIDE DEF was, old
      <4> QED
        BY <3>1
    <3>4. here = Len(calls) + 1
      BY <3>1
    <3> HIDE DEF here, was, grown, old, new, more, known
    <3>5. more = SubSeq(calls, 1, here - 1) \o <<new>> \o SubSeq(calls, here + 1, Len(calls))
      BY <3>2, <3>3
    <3>6. here - 1 = Len(calls) + 1 - 1 /\ here + 1 = Len(calls) + 1 + 1
      BY <1>1, <3>4
    <3> QED
      BY <3>5, <3>6, Zenon
  <2>1. new = [index |-> old.index, id |-> IF piece.id # 0 THEN piece.id ELSE old.id,
               args |-> old.args \o piece.args]
    <3>1. BothAdd(old, piece.id, piece.args)
      <4> HIDE DEF old
      <4> QED
        BY <1>2, <2>0, PieceAdded
    <3> QED
      BY <3>1, Zenon DEF BothAdd
  <2> HIDE DEF old, new, more
  <2>2. <<>> \o piece.args = piece.args
    BY <1>2
  <2>3. new = piece
    BY <1>2, <2>0, <2>1, <2>2
  <2>5. more = SubSeq(calls, 1, Len(calls)) \o <<piece>> \o SubSeq(calls, Len(calls) + 2, Len(calls))
    <3>1. Len(calls) + 1 - 1 = Len(calls) /\ Len(calls) + 1 + 1 = Len(calls) + 2
      BY <1>1
    <3> QED
      BY <2>3, <2>4, <3>1, Zenon
  <2>6. SubSeq(calls, 1, Len(calls)) = calls /\ SubSeq(calls, Len(calls) + 2, Len(calls)) = <<>>
    OBVIOUS
  <2>7. more = (calls \o <<piece>>) \o <<>>
    BY <2>5, <2>6
  <2>8. calls \o <<piece>> = Append(calls, piece) /\ Append(calls, piece) \in Seq(Call)
    OBVIOUS
  <2>9. Append(calls, piece) \o <<>> = Append(calls, piece)
    BY <2>8
  <2>10. more = Append(calls, piece)
    BY <2>7, <2>8, <2>9
  <2>11. ~(\E i \in DOMAIN calls : calls[i].index = piece.index)
    BY <1>3
  <2>12. ChatGathers(calls, piece) = Append(calls, piece)
    BY <2>11 DEF ChatGathers
  <2> QED
    BY <1>1, <2>8, <2>10, <2>11, <2>12 DEF more
<1>4. CASE known # {}
  <2>1. PICK at \in DOMAIN calls : calls[at].index = piece.index
    BY <1>4
  <2>2. at \in 1..Len(calls) /\ known = {at}
    BY <1>1, <2>1 DEF Distinct
  <2>3. Max(known) = at
    BY <1>1, <2>2, MaxOf
  <2> DEFINE new == [calls[at] EXCEPT !.id = IF piece.id = 0 THEN @ ELSE piece.id,
                                      !.args = @ \o piece.args]
             other == [calls[at] EXCEPT !.id = IF piece.id # 0 THEN piece.id ELSE @,
                                        !.args = @ \o piece.args]
             result == [index |-> calls[at].index,
                        id |-> IF piece.id # 0 THEN piece.id ELSE calls[at].id,
                        args |-> calls[at].args \o piece.args]
  <2>4. calls[at] \in Call
    BY <1>1, <2>2
  <2>5. new = result /\ other = result
    <3>1. BothAdd(calls[at], piece.id, piece.args)
      BY <1>2, <2>4, PieceAdded
    <3> QED
      BY <3>1, Zenon DEF BothAdd
  <2>6. result \in Call
    <3>1. BothAdd(calls[at], piece.id, piece.args)
      BY <1>2, <2>4, PieceAdded
    <3> QED
      BY <3>1, Zenon DEF BothAdd
  <2>7. more = SubSeq(calls, 1, at - 1) \o <<new>> \o SubSeq(calls, at + 1, Len(calls))
    BY <2>2, <2>3 DEF RecordGathers
  <2>8. ChatGathers(calls, piece) = [i \in DOMAIN calls |-> IF calls[i].index # piece.index THEN calls[i]
                                      ELSE [calls[i] EXCEPT !.id = IF piece.id # 0 THEN piece.id ELSE @,
                                                            !.args = @ \o piece.args]]
    BY <2>1 DEF ChatGathers
  <2>9. ChatGathers(calls, piece) = [i \in 1..Len(calls) |-> IF i = at THEN other ELSE calls[i]]
    <3>1. \A i \in DOMAIN calls : calls[i].index = piece.index <=> i = at
      BY <2>2
    <3> QED
      BY <1>1, <2>8, <3>1
  <2> HIDE DEF new, other, result, more
  <2>10. /\ ChatGathers(calls, piece) \in Seq(Call) /\ Len(ChatGathers(calls, piece)) = Len(calls)
         /\ \A i \in 1..Len(calls) : ChatGathers(calls, piece)[i] = IF i = at THEN result ELSE calls[i]
    <3>1. ChatGathers(calls, piece) \in [1..Len(calls) -> Call]
      BY <1>1, <2>5, <2>6, <2>9
    <3> QED
      BY <1>1, <2>5, <2>9, <3>1
  <2>11. /\ more \in Seq(Call) /\ Len(more) = Len(calls)
         /\ \A i \in 1..Len(calls) : more[i] = IF i = at THEN result ELSE calls[i]
    <3> DEFINE u == SubSeq(calls, 1, at - 1)
               v == SubSeq(calls, at + 1, Len(calls))
    <3>1. /\ u \in Seq(Call) /\ Len(u) = at - 1 /\ \A i \in 1..(at - 1) : u[i] = calls[i]
      BY <2>2
    <3>2. /\ v \in Seq(Call) /\ Len(v) = Len(calls) - at
          /\ \A i \in 1..(Len(calls) - at) : v[i] = calls[at + i]
      BY <2>2
    <3>3. more = (u \o <<result>>) \o v
      BY <2>5, <2>7
    <3> HIDE DEF u, v
    <3>4. /\ u \o <<result>> \in Seq(Call) /\ Len(u \o <<result>>) = at
          /\ \A i \in 1..at : (u \o <<result>>)[i] = IF i = at THEN result ELSE calls[i]
      BY <2>2, <2>6, <3>1
    <3> DEFINE w == u \o <<result>>
    <3> HIDE DEF w
    <3>5. w \in Seq(Call) /\ Len(w) = at /\ \A i \in 1..at : w[i] = IF i = at THEN result ELSE calls[i]
      BY <3>4 DEF w
    <3>6. more = w \o v
      BY <3>3 DEF w
    <3>7. more \in Seq(Call) /\ Len(more) = Len(calls)
      BY <2>2, <3>2, <3>5, <3>6
    <3>8. ASSUME NEW i \in 1..Len(calls) PROVE more[i] = IF i = at THEN result ELSE calls[i]
      <4>1. CASE i <= at
        BY <1>1, <2>2, <3>2, <3>5, <3>6, <4>1
      <4>2. CASE ~(i <= at)
        <5>1. i - at \in 1..(Len(calls) - at) /\ at + (i - at) = i /\ i # at
          BY <1>1, <2>2, <4>2
        <5>2. more[i] = v[i - at]
          BY <1>1, <2>2, <3>2, <3>5, <3>6, <4>2
        <5> QED
          BY <3>2, <5>1, <5>2
      <4> QED
        BY <4>1, <4>2
    <3> QED
      BY <3>7, <3>8
  <2>12. ChatGathers(calls, piece) = more
    <3>1. Len(more) = Len(ChatGathers(calls, piece))
          /\ \A i \in 1..Len(more) : more[i] = ChatGathers(calls, piece)[i]
      BY <2>10, <2>11
    <3> QED
      BY <2>10, <2>11, <3>1, SameSequence, Zenon
  <2>13. Continued(calls, more, at, piece)
    BY <2>1, <2>2, <2>11 DEF Continued, result
  <2> QED
    BY <2>2, <2>11, <2>12, <2>13 DEF more
<1> QED
  BY <1>3, <1>4

\* The calls of more lines: those of fewer, each with its index and its place, no other id
\* than it had and arguments that go on, and then others.
Grown(calls, more) ==
  /\ Len(calls) <= Len(more)
  /\ \A i \in 1..Len(calls) :
       /\ more[i].index = calls[i].index /\ calls[i].id \in {0, more[i].id}
       /\ IsPrefix(calls[i].args, more[i].args)

\* The calls that lines of s make: the id of each is named by a piece of it.
Named(s, calls) ==
  \A i \in DOMAIN calls : calls[i].id # 0 =>
    \E j \in DOMAIN s : \E p \in ToSet(s[j].calls) : p.index = calls[i].index /\ p.id = calls[i].id

CallsOf(s) == {calls \in Seq(Call) : Distinct(calls) /\ Named(s, calls)}

LEMMA CallParts ==
  \A c \in Call : c.index \in Nat /\ c.id \in Nat /\ c.args \in Seq(Nat)
BY DEF Call

LEMMA GrownCalls ==
  /\ \A c \in Seq(Call) : Grown(c, c)
  /\ \A c, d, e \in Seq(Call) : Grown(c, d) /\ Grown(d, e) => Grown(c, e)
<1>1. ASSUME NEW c \in Seq(Call) PROVE Grown(c, c)
  <2>1. \A i \in 1..Len(c) : c[i].args \in Seq(Nat)
    BY CallParts
  <2>2. \A i \in 1..Len(c) : IsPrefix(c[i].args, c[i].args)
    BY <2>1, PrefixFacts
  <2> QED
    BY <2>2 DEF Grown
<1>2. ASSUME NEW c \in Seq(Call), NEW d \in Seq(Call), NEW e \in Seq(Call), Grown(c, d), Grown(d, e)
      PROVE  Grown(c, e)
  <2>1. Len(c) \in Nat /\ Len(d) \in Nat /\ Len(e) \in Nat /\ Len(c) <= Len(d) /\ Len(d) <= Len(e)
    BY <1>2 DEF Grown
  <2>2. ASSUME NEW i \in 1..Len(c)
        PROVE  /\ e[i].index = c[i].index /\ c[i].id \in {0, e[i].id}
               /\ IsPrefix(c[i].args, e[i].args)
    <3>1. i \in 1..Len(d) /\ i \in 1..Len(e)
      BY <2>1
    <3>2. c[i] \in Call /\ d[i] \in Call /\ e[i] \in Call
      BY <3>1
    <3>3. /\ d[i].index = c[i].index /\ c[i].id \in {0, d[i].id} /\ IsPrefix(c[i].args, d[i].args)
          /\ e[i].index = d[i].index /\ d[i].id \in {0, e[i].id} /\ IsPrefix(d[i].args, e[i].args)
      BY <1>2, <3>1 DEF Grown
    <3>4. c[i].args \in Seq(Nat) /\ d[i].args \in Seq(Nat) /\ e[i].args \in Seq(Nat)
      BY <3>2, CallParts
    <3>5. IsPrefix(c[i].args, e[i].args)
      BY <3>3, <3>4, PrefixFacts
    <3> QED
      BY <3>3, <3>5
  <2> QED
    BY <2>1, <2>2 DEF Grown
<1> QED
  BY <1>1, <1>2

LEMMA LineParts ==
  ASSUME NEW line \in Line
  PROVE  /\ line.shape \in {"event", "done", "noise", "body"}
         /\ line.thinking \in Seq(Nat) /\ line.content \in Seq(Nat) /\ line.calls \in Seq(Call)
         /\ line.usage \in {NoTokens} \cup Tokens /\ line.timings \in {NoTokens} \cup Tokens
BY DEF Line, Call, Tokens

LEMMA ReplyParts ==
  ASSUME NEW s \in Replies
  PROVE  /\ s \in Seq(Line) /\ s # <<>> /\ Len(s) \in Nat \ {0} /\ DOMAIN s = 1..Len(s)
         /\ \A j \in 1..Len(s) : s[j] \in Line
         /\ WellFormed(s)
<1>1. s \in Seq(Line) /\ s # <<>> /\ WellFormed(s)
  BY StreamAssumption
<1> HIDE DEF WellFormed
<1> QED
  BY <1>1

LEMMA OneId ==
  ASSUME NEW s \in Replies, NEW i \in DOMAIN s, NEW j \in DOMAIN s,
         NEW p \in ToSet(s[i].calls), NEW q \in ToSet(s[j].calls),
         p.index = q.index, p.id # 0, q.id # 0
  PROVE  p.id = q.id
<1>1. WellFormed(s)
  BY ReplyParts
<1>2. \A a, b \in DOMAIN s : \A x \in ToSet(s[a].calls), y \in ToSet(s[b].calls) :
        x.index = y.index /\ 0 \notin {x.id, y.id} => x.id = y.id
  BY <1>1, Zenon DEF WellFormed
<1>3. 0 \notin {p.id, q.id}
  OBVIOUS
<1>4. \A x \in ToSet(s[i].calls), y \in ToSet(s[j].calls) :
        x.index = y.index /\ 0 \notin {x.id, y.id} => x.id = y.id
  BY <1>2
<1> QED
  BY <1>3, <1>4

LEMMA GatherMore ==
  ASSUME NEW s \in Replies, NEW j \in DOMAIN s, NEW piece \in ToSet(s[j].calls),
         NEW calls \in CallsOf(s)
  PROVE  LET more == RecordGathers(calls, piece)
         IN  more \in CallsOf(s) /\ Grown(calls, more) /\ ChatGathers(calls, piece) = more
<1> DEFINE more == RecordGathers(calls, piece)
<1>1. s[j] \in Line /\ s[j].calls \in Seq(Call)
  BY ReplyParts, LineParts
<1>2. piece \in Call
  BY <1>1 DEF ToSet
<1>3. calls \in Seq(Call) /\ Distinct(calls) /\ Named(s, calls)
  BY DEF CallsOf
<1>4. /\ more \in Seq(Call) /\ ChatGathers(calls, piece) = more
      /\ \/ \E at \in 1..Len(calls) : Continued(calls, more, at, piece)
         \/ (\A i \in 1..Len(calls) : calls[i].index # piece.index) /\ more = Append(calls, piece)
  BY <1>2, <1>3, GatherOne
<1> HIDE DEF more
<1>5. Len(calls) \in Nat /\ DOMAIN calls = 1..Len(calls) /\ DOMAIN more = 1..Len(more)
  BY <1>3, <1>4
<1>6. \A i \in 1..Len(calls) : calls[i] \in Call /\ calls[i].args \in Seq(Nat) /\ calls[i].id \in Nat
  BY <1>3, CallParts
<1>7. piece.args \in Seq(Nat) /\ piece.id \in Nat
  BY <1>2, CallParts
<1>8. CASE \E at \in 1..Len(calls) : Continued(calls, more, at, piece)
  <2>1. PICK at \in 1..Len(calls) : Continued(calls, more, at, piece)
    BY <1>8
  <2>2. /\ Len(more) = Len(calls) /\ \A i \in 1..Len(calls) : i # at => more[i] = calls[i]
        /\ calls[at].index = piece.index
    BY <2>1 DEF Continued
  <2>3. /\ more[at].index = calls[at].index
        /\ more[at].id = IF piece.id # 0 THEN piece.id ELSE calls[at].id
        /\ more[at].args = calls[at].args \o piece.args
    <3> DEFINE id == IF piece.id # 0 THEN piece.id ELSE calls[at].id
               args == calls[at].args \o piece.args
    <3>1. more[at] = [index |-> calls[at].index, id |-> id, args |-> args]
      BY <2>1, Zenon DEF Continued
    <3> HIDE DEF id, args
    <3>2. more[at].index = calls[at].index /\ more[at].id = id /\ more[at].args = args
      BY <3>1
    <3> QED
      BY <3>2 DEF id, args
  <2>4. calls[at].id # 0 => more[at].id = calls[at].id
    <3>1. ASSUME calls[at].id # 0, piece.id # 0 PROVE piece.id = calls[at].id
      <4>1. PICK k \in DOMAIN s : \E p \in ToSet(s[k].calls) : p.index = calls[at].index /\ p.id = calls[at].id
        BY <1>3, <1>5, <3>1 DEF Named
      <4>2. PICK p \in ToSet(s[k].calls) : p.index = calls[at].index /\ p.id = calls[at].id
        BY <4>1
      <4> QED
        BY <2>2, <3>1, <4>2, OneId
    <3> QED
      BY <2>3, <3>1
  <2>5. Grown(calls, more)
    <3>1. IsPrefix(calls[at].args, more[at].args)
      BY <1>6, <1>7, <2>3, PrefixFacts
    <3>2. \A i \in 1..Len(calls) : IsPrefix(calls[i].args, calls[i].args)
      BY <1>6, PrefixFacts
    <3>3. ASSUME NEW i \in 1..Len(calls)
          PROVE  /\ more[i].index = calls[i].index /\ calls[i].id \in {0, more[i].id}
                 /\ IsPrefix(calls[i].args, more[i].args)
      <4>1. CASE i = at
        BY <2>3, <2>4, <3>1, <4>1
      <4>2. CASE i # at
        BY <2>2, <3>2, <4>2
      <4> QED
        BY <4>1, <4>2
    <3> QED
      BY <1>5, <2>2, <3>3 DEF Grown
  <2>6. \A i \in 1..Len(calls) : more[i].index = calls[i].index
    BY <2>5 DEF Grown
  <2>7. Distinct(more)
    BY <1>3, <1>5, <2>2, <2>6 DEF Distinct
  <2>8. Named(s, more)
    <3>1. ASSUME NEW i \in DOMAIN more, more[i].id # 0
          PROVE  \E k \in DOMAIN s : \E p \in ToSet(s[k].calls) : p.index = more[i].index /\ p.id = more[i].id
      <4>1. i \in DOMAIN calls
        BY <1>5, <2>2
      <4>2. CASE i = at /\ piece.id # 0
        BY <2>2, <2>3, <4>2
      <4>3. CASE ~(i = at /\ piece.id # 0)
        <5>1. more[i].id = calls[i].id /\ more[i].index = calls[i].index
          BY <1>5, <2>2, <2>3, <4>1, <4>3
        <5> QED
          BY <1>3, <3>1, <4>1, <5>1 DEF Named
      <4> QED
        BY <4>2, <4>3
    <3> QED
      BY <3>1 DEF Named
  <2> QED
    BY <1>4, <2>5, <2>7, <2>8 DEF CallsOf, more
<1>9. CASE (\A i \in 1..Len(calls) : calls[i].index # piece.index) /\ more = Append(calls, piece)
  <2>1. /\ Len(more) = Len(calls) + 1 /\ more[Len(calls) + 1] = piece
        /\ \A i \in 1..Len(calls) : more[i] = calls[i]
    BY <1>2, <1>3, <1>9
  <2>2. Grown(calls, more)
    <3>1. \A i \in 1..Len(calls) : IsPrefix(calls[i].args, calls[i].args)
      BY <1>6, PrefixFacts
    <3> QED
      BY <1>5, <2>1, <3>1 DEF Grown
  <2>3. \A i \in DOMAIN more : i \in DOMAIN calls \/ i = Len(calls) + 1
    BY <1>5, <2>1
  <2>4. Distinct(more)
    <3>1. ASSUME NEW i \in DOMAIN more, NEW k \in DOMAIN more, more[i].index = more[k].index
          PROVE  i = k
      BY <1>3, <1>5, <1>9, <2>1, <2>3, <3>1 DEF Distinct
    <3> QED
      BY <3>1 DEF Distinct
  <2>5. Named(s, more)
    <3>1. ASSUME NEW i \in DOMAIN more, more[i].id # 0
          PROVE  \E k \in DOMAIN s : \E p \in ToSet(s[k].calls) : p.index = more[i].index /\ p.id = more[i].id
      <4>1. CASE i = Len(calls) + 1
        BY <2>1, <4>1
      <4>2. CASE i \in DOMAIN calls
        BY <1>3, <1>5, <2>1, <3>1, <4>2 DEF Named
      <4> QED
        BY <2>3, <4>1, <4>2
    <3> QED
      BY <3>1 DEF Named
  <2> QED
    BY <1>4, <2>2, <2>4, <2>5 DEF CallsOf, more
<1> QED
  BY <1>4, <1>8, <1>9

\* The chat and the record make the same calls of a line's pieces.
LEMMA LineGathers ==
  ASSUME NEW s \in Replies, NEW j \in DOMAIN s, NEW calls \in CallsOf(s)
  PROVE  LET more == FoldLeft(RecordGathers, calls, s[j].calls)
         IN  /\ more \in CallsOf(s) /\ Grown(calls, more)
             /\ FoldLeft(ChatGathers, calls, s[j].calls) = more
<1> DEFINE pieces == s[j].calls
           n == Len(pieces)
           A == {more \in CallsOf(s) : Grown(calls, more)}
<1>1. pieces \in Seq(Call) /\ n \in Nat
  BY ReplyParts, LineParts
<1>2. calls \in A
  BY GrownCalls DEF CallsOf
<1>3. ASSUME NEW a \in A, NEW i \in 1..n
      PROVE  RecordGathers(a, pieces[i]) \in A /\ ChatGathers(a, pieces[i]) = RecordGathers(a, pieces[i])
  <2>1. pieces[i] \in ToSet(s[j].calls)
    BY <1>1 DEF ToSet
  <2>2. a \in CallsOf(s) /\ Grown(calls, a)
    OBVIOUS
  <2> DEFINE more == RecordGathers(a, pieces[i])
  <2>3. more \in CallsOf(s) /\ Grown(a, more) /\ ChatGathers(a, pieces[i]) = more
    BY <2>1, <2>2, GatherMore
  <2> HIDE DEF more
  <2>4. Grown(calls, more)
    BY <2>2, <2>3, GrownCalls DEF CallsOf
  <2> QED
    BY <2>3, <2>4 DEF more
<1> HIDE DEF A, pieces
<1>4. PICK r \in [0..n -> A] : RecordRun(r, pieces, calls)
  <2>1. \A a \in A : \A i \in 1..n : RecordGathers(a, pieces[i]) \in A
    BY <1>3
  <2> QED
    BY <1>1, <1>2, <2>1, RecordFold, Zenon
<1>5. PICK c \in [0..n -> A] : ChatRun(c, pieces, calls)
  <2>1. \A a \in A : \A i \in 1..n : ChatGathers(a, pieces[i]) \in A
    BY <1>3
  <2> QED
    BY <1>1, <1>2, <2>1, ChatFold, Zenon
<1> USE DEF RecordRun, ChatRun
<1>6. c[n] = r[n]
  <2> DEFINE S == {k \in 0..n : c[k] = r[k]}
  <2>1. 0 \in S
    BY <1>1, <1>4, <1>5
  <2>2. ASSUME NEW k \in 0..(n - 1), k \in S PROVE k + 1 \in S
    <3>1. k + 1 \in 1..n /\ (k + 1) - 1 = k /\ k + 1 \in 0..n /\ k \in 0..n
      BY <1>1
    <3>2. c[k + 1] = ChatGathers(c[k], pieces[k + 1]) /\ r[k + 1] = RecordGathers(r[k], pieces[k + 1])
      BY <1>4, <1>5, <3>1
    <3>3. c[k] = r[k] /\ r[k] \in A
      BY <1>4, <2>2, <3>1
    <3>4. ChatGathers(r[k], pieces[k + 1]) = RecordGathers(r[k], pieces[k + 1])
      BY <1>3, <3>1, <3>3
    <3> QED
      BY <3>1, <3>2, <3>3, <3>4
  <2> HIDE DEF S, n
  <2>3. 0 \in Int /\ n \in Int /\ n \in 0..n
    BY <1>1
  <2>4. 0..n \subseteq S
    BY <2>1, <2>2, <2>3, Climb
  <2> QED
    BY <2>3, <2>4 DEF S
<1>7. r[n] \in A
  BY <1>1, <1>4
<1> QED
  BY <1>4, <1>5, <1>6, <1>7 DEF A, pieces

-----------------------------------------------------------------------------
(* What the lines of a reply say, one after the other.                     *)

\* What is collected of lines of s; as long as there is no event, nothing is.
TextOf(s) == {t \in Text : t.calls \in CallsOf(s) /\ (~t.found => t = NoText)}

\* One text is the beginning of another.
Longer(text, more) ==
  /\ IsPrefix(text.thinking, more.thinking) /\ IsPrefix(text.content, more.content)
  /\ Grown(text.calls, more.calls)

LEMMA TextParts ==
  ASSUME NEW t \in Text
  PROVE  /\ t.found \in BOOLEAN /\ t.thinking \in Seq(Nat) /\ t.content \in Seq(Nat)
         /\ t.calls \in Seq(Call) /\ t.usage \in {NoTokens} \cup Tokens
BY DEF Text

LEMMA LongerFacts ==
  /\ \A t \in Text : Longer(t, t)
  /\ \A t, u, v \in Text : Longer(t, u) /\ Longer(u, v) => Longer(t, v)
<1>1. \A t \in Text : Longer(t, t)
  BY TextParts, PrefixFacts, GrownCalls DEF Longer
<1>2. ASSUME NEW t \in Text, NEW u \in Text, NEW v \in Text, Longer(t, u), Longer(u, v)
      PROVE  Longer(t, v)
  <2>1. /\ t.thinking \in Seq(Nat) /\ u.thinking \in Seq(Nat) /\ v.thinking \in Seq(Nat)
        /\ t.content \in Seq(Nat) /\ u.content \in Seq(Nat) /\ v.content \in Seq(Nat)
        /\ t.calls \in Seq(Call) /\ u.calls \in Seq(Call) /\ v.calls \in Seq(Call)
    BY TextParts
  <2>2. IsPrefix(t.thinking, v.thinking) /\ IsPrefix(t.content, v.content)
    BY <1>2, <2>1, PrefixFacts DEF Longer
  <2>3. Grown(t.calls, v.calls)
    BY <1>2, <2>1, GrownCalls DEF Longer
  <2> QED
    BY <2>2, <2>3 DEF Longer
<1> QED
  BY <1>1, <1>2

LEMMA NoTextFacts ==
  ASSUME NEW s \in Replies
  PROVE  NoText \in TextOf(s)
<1>1. <<>> \in Seq(Call) /\ <<>> \in Seq(Nat)
  OBVIOUS
<1>2. NoText \in Text
  BY <1>1 DEF NoText, Text
<1>3. NoText.calls = <<>>
  BY DEF NoText
<1>4. <<>> \in CallsOf(s)
  BY <1>1 DEF CallsOf, Distinct, Named
<1> QED
  BY <1>2, <1>3, <1>4 DEF TextOf

LEMMA CollectFacts ==
  ASSUME NEW s \in Replies, NEW j \in DOMAIN s, NEW t \in TextOf(s)
  PROVE  Collect(t, s[j]) \in TextOf(s) /\ Longer(t, Collect(t, s[j]))
<1>1. s[j] \in Line /\ t \in Text /\ t.calls \in CallsOf(s)
  BY ReplyParts DEF TextOf
<1>2. CASE s[j].shape # "event"
  BY <1>1, <1>2, LongerFacts DEF Collect
<1>3. CASE s[j].shape = "event"
  <2> DEFINE thinking == t.thinking \o s[j].thinking
             content == t.content \o s[j].content
             calls == FoldLeft(RecordGathers, t.calls, s[j].calls)
             usage == IF s[j].usage # NoTokens THEN s[j].usage ELSE t.usage
             more == [found |-> TRUE, thinking |-> thinking, content |-> content,
                      calls |-> calls, usage |-> usage]
  <2>1. Collect(t, s[j]) = more
    BY <1>3 DEF Collect
  <2>2. /\ thinking \in Seq(Nat) /\ IsPrefix(t.thinking, thinking)
        /\ content \in Seq(Nat) /\ IsPrefix(t.content, content)
    BY <1>1, LineParts, TextParts, PrefixFacts
  <2>3. calls \in CallsOf(s) /\ Grown(t.calls, calls) /\ calls \in Seq(Call)
    BY <1>1, LineGathers DEF CallsOf
  <2>4. usage \in {NoTokens} \cup Tokens
    BY <1>1, LineParts, TextParts
  <2> HIDE DEF thinking, content, calls, usage
  <2>5. more \in Text
    BY <2>2, <2>3, <2>4 DEF Text
  <2>6. more.found /\ more.thinking = thinking /\ more.content = content /\ more.calls = calls
    OBVIOUS
  <2> HIDE DEF more
  <2> QED
    BY <2>1, <2>2, <2>3, <2>5, <2>6 DEF TextOf, Longer
<1> QED
  BY <1>2, <1>3

\* What is collected of the first k lines, for each k.
TextUpTo(s) == CHOOSE r \in [0..Len(s) -> TextOf(s)] : CollectRun(r, s, NoText)

LEMMA TextFacts ==
  ASSUME NEW s \in Replies
  PROVE  /\ \A k \in 0..Len(s) : TextUpTo(s)[k] \in TextOf(s)
         /\ TextUpTo(s)[0] = NoText
         /\ \A k \in 1..Len(s) : TextUpTo(s)[k] = Collect(TextUpTo(s)[k - 1], s[k])
<1>1. s \in Seq(Line) /\ DOMAIN s = 1..Len(s)
  BY ReplyParts
<1>2. \A a \in TextOf(s) : \A i \in 1..Len(s) : Collect(a, s[i]) \in TextOf(s)
  BY <1>1, CollectFacts
<1>3. \E r \in [0..Len(s) -> TextOf(s)] : CollectRun(r, s, NoText)
  BY <1>1, <1>2, NoTextFacts, CollectFold, Zenon
<1>4. TextUpTo(s) \in [0..Len(s) -> TextOf(s)] /\ CollectRun(TextUpTo(s), s, NoText)
  BY <1>3, Zenon DEF TextUpTo
<1> QED
  BY <1>4 DEF CollectRun

LEMMA TextGrows ==
  ASSUME NEW s \in Replies, NEW k \in 0..Len(s), NEW m \in k..Len(s)
  PROVE  Longer(TextUpTo(s)[k], TextUpTo(s)[m])
<1> DEFINE r == TextUpTo(s)
           n == Len(s)
           S == {i \in k..n : Longer(r[k], r[i])}
<1>1. /\ n \in Nat /\ DOMAIN s = 1..n /\ \A i \in 0..n : r[i] \in TextOf(s) /\ r[i] \in Text
      /\ \A i \in 1..n : r[i] = Collect(r[i - 1], s[i])
  BY ReplyParts, TextFacts DEF TextOf
<1> HIDE DEF r, n
<1>2. k \in S
  <2>1. k \in k..n /\ k \in 0..n
    BY <1>1 DEF n
  <2> QED
    BY <1>1, <2>1, LongerFacts
<1>3. ASSUME NEW i \in k..(n - 1), i \in S PROVE i + 1 \in S
  <2>1. i + 1 \in 1..n /\ (i + 1) - 1 = i /\ i + 1 \in 0..n /\ i \in 0..n /\ i + 1 \in k..n /\ k \in 0..n
    BY <1>1 DEF n
  <2>2. r[i + 1] = Collect(r[i], s[i + 1])
    BY <1>1, <2>1
  <2>3. Longer(r[i], r[i + 1])
    BY <1>1, <2>1, <2>2, CollectFacts
  <2>4. Longer(r[k], r[i])
    BY <1>3
  <2>5. Longer(r[k], r[i + 1])
    BY <1>1, <2>1, <2>3, <2>4, LongerFacts
  <2> QED
    BY <2>1, <2>5
<1> HIDE DEF S
<1>4. k \in Int /\ n \in Int /\ m \in k..n
  BY <1>1 DEF n
<1>5. k..n \subseteq S
  BY <1>2, <1>3, <1>4, Climb
<1> QED
  BY <1>4, <1>5 DEF S, r

LEMMA TextOfPart ==
  ASSUME NEW s \in Replies, NEW m \in 0..Len(s)
  PROVE  FoldLeft(Collect, NoText, SubSeq(s, 1, m)) = TextUpTo(s)[m]
<1> DEFINE r == TextUpTo(s)
           part == SubSeq(s, 1, m)
<1>1. /\ Len(s) \in Nat /\ m \in Nat /\ part \in Seq(Line) /\ Len(part) = m
      /\ \A i \in 1..m : part[i] = s[i]
  BY ReplyParts
<1>2. /\ r[0] = NoText /\ \A i \in 1..Len(s) : r[i] = Collect(r[i - 1], s[i])
  BY TextFacts
<1> HIDE DEF r, part
<1>3. PICK p \in [0..Len(part) -> TextOf(s)] : CollectRun(p, part, NoText)
  <2>1. \A a \in TextOf(s) : \A i \in 1..Len(part) : Collect(a, part[i]) \in TextOf(s)
    BY <1>1, ReplyParts, CollectFacts
  <2> QED
    BY <1>1, <2>1, NoTextFacts, CollectFold, Zenon
<1>4. /\ p[0] = NoText /\ p[m] = FoldLeft(Collect, NoText, part)
      /\ \A i \in 1..m : p[i] = Collect(p[i - 1], s[i])
  BY <1>1, <1>3 DEF CollectRun
<1> DEFINE S == {k \in 0..m : p[k] = r[k]}
<1>5. 0 \in S
  BY <1>1, <1>2, <1>4
<1>6. ASSUME NEW k \in 0..(m - 1), k \in S PROVE k + 1 \in S
  <2>1. k + 1 \in 1..m /\ (k + 1) - 1 = k /\ k + 1 \in 0..m /\ k + 1 \in 1..Len(s)
    BY <1>1
  <2>2. p[k + 1] = Collect(p[k], s[k + 1]) /\ r[k + 1] = Collect(r[k], s[k + 1])
    BY <1>2, <1>4, <2>1
  <2>3. p[k] = r[k]
    BY <1>6
  <2> QED
    BY <2>1, <2>2, <2>3
<1> HIDE DEF S
<1>7. 0 \in Int /\ m \in Int /\ m \in 0..m
  BY <1>1
<1>8. 0..m \subseteq S
  BY <1>5, <1>6, <1>7, Climb
<1>9. p[m] = r[m]
  BY <1>7, <1>8 DEF S
<1> QED
  BY <1>4, <1>9 DEF r, part

-----------------------------------------------------------------------------
(* Sorting calls by id puts each of them in one place.                     *)

LEMMA ByIdFacts ==
  ASSUME NEW calls \in Seq(Call)
  PROVE  /\ DOMAIN ById(calls) = 1..Len(calls)
         /\ \A k \in 1..Len(calls) : \E j \in 1..Len(calls) : ById(calls)[k] = calls[j]
         /\ \A j \in 1..Len(calls) : \E k \in 1..Len(calls) : ById(calls)[k] = calls[j]
<1> DEFINE n == Len(calls)
           UpTo(j) == {i \in DOMAIN calls : \/ calls[i].id < calls[j].id
                                            \/ calls[i].id = calls[j].id /\ i <= j}
           Nth(k) == CHOOSE j \in DOMAIN calls : Cardinality(UpTo(j)) = k
           place == [j \in 1..n |-> Cardinality(UpTo(j))]
<1>1. n \in Nat /\ DOMAIN calls = 1..n /\ \A i \in 1..n : calls[i].id \in Nat
  BY CallParts
<1>2. ById(calls) = [k \in 1..n |-> calls[Nth(k)]]
  BY <1>1, Zenon DEF ById
<1>3. IsFiniteSet(1..n) /\ Cardinality(1..n) = n
  BY <1>1, FS_Interval, SMTT(30)
<1>4. ASSUME NEW j \in 1..n
      PROVE  /\ j \in UpTo(j) /\ UpTo(j) \in SUBSET (1..n) /\ IsFiniteSet(UpTo(j))
             /\ Cardinality(UpTo(j)) \in 1..n
  <2>1. j \in UpTo(j) /\ UpTo(j) \in SUBSET (1..n)
    BY <1>1
  <2> HIDE DEF UpTo
  <2>2. IsFiniteSet(UpTo(j)) /\ Cardinality(UpTo(j)) <= n
    BY <1>3, <2>1, FS_Subset
  <2>3. Cardinality(UpTo(j)) \in Nat
    BY <2>2, FS_CardinalityType
  <2>4. Cardinality(UpTo(j)) # 0
    BY <2>1, <2>2, FS_EmptySet
  <2> QED
    BY <1>1, <2>1, <2>2, <2>3, <2>4
<1>5. ASSUME NEW i \in 1..n, NEW j \in 1..n, Cardinality(UpTo(i)) = Cardinality(UpTo(j))
      PROVE  i = j
  <2>1. UpTo(i) \subseteq UpTo(j) \/ UpTo(j) \subseteq UpTo(i)
    <3>1. CASE calls[i].id < calls[j].id \/ (calls[i].id = calls[j].id /\ i <= j)
      <4>1. \A x \in UpTo(i) : x \in UpTo(j)
        BY <1>1, <3>1
      <4> QED
        BY <4>1
    <3>2. CASE ~(calls[i].id < calls[j].id \/ (calls[i].id = calls[j].id /\ i <= j))
      <4>1. \A x \in UpTo(j) : x \in UpTo(i)
        BY <1>1, <3>2
      <4> QED
        BY <4>1
    <3> QED
      BY <3>1, <3>2
  <2>2. UpTo(i) = UpTo(j)
    <3>1. /\ IsFiniteSet(UpTo(i)) /\ IsFiniteSet(UpTo(j))
      BY <1>4
    <3> HIDE DEF UpTo
    <3>2. UpTo(i) \subseteq UpTo(j) => UpTo(i) = UpTo(j)
      BY <1>5, <3>1, FS_Subset
    <3>3. UpTo(j) \subseteq UpTo(i) => UpTo(i) = UpTo(j)
      BY <1>5, <3>1, FS_Subset
    <3> QED
      BY <2>1, <3>2, <3>3
  <2>3. i \in UpTo(j) /\ j \in UpTo(i)
    BY <1>4, <2>2, Zenon
  <2> QED
    BY <1>1, <2>3
<1> HIDE DEF UpTo
<1>6. place \in Injection(1..n, 1..n)
  <2>1. place \in [1..n -> 1..n]
    BY <1>4
  <2>2. \A i, j \in 1..n : place[i] = place[j] => i = j
    BY <1>5
  <2> QED
    BY <2>1, <2>2 DEF Injection, IsInjective
<1>7. place \in Surjection(1..n, 1..n)
  <2> HIDE DEF place
  <2> QED
    BY <1>3, <1>6, FS_Injection
<1>8. \A k \in 1..n : \E j \in 1..n : Cardinality(UpTo(j)) = k
  BY <1>7 DEF Surjection
<1>9. \A k \in 1..n : Nth(k) \in 1..n /\ Cardinality(UpTo(Nth(k))) = k
  BY <1>1, <1>8
<1> HIDE DEF Nth
<1>10. ASSUME NEW j \in 1..n PROVE Nth(Cardinality(UpTo(j))) = j
  <2>1. Cardinality(UpTo(j)) \in 1..n
    BY <1>4
  <2> QED
    BY <1>5, <1>9, <2>1
<1>11. \A j \in 1..n : \E k \in 1..n : ById(calls)[k] = calls[j]
  <2>1. ASSUME NEW j \in 1..n PROVE \E k \in 1..n : ById(calls)[k] = calls[j]
    <3>1. Cardinality(UpTo(j)) \in 1..n
      BY <1>4
    <3> QED
      BY <1>2, <1>10, <3>1
  <2> QED
    BY <2>1
<1>12. \A k \in 1..n : \E j \in 1..n : ById(calls)[k] = calls[j]
  BY <1>2, <1>9
<1> QED
  BY <1>2, <1>11, <1>12

-----------------------------------------------------------------------------
(* The units that the proxy keeps, and the lines they hold.                *)

LEMMA LesserOf ==
  ASSUME NEW m \in Int, NEW n \in Int
  PROVE  Min({m, n}) = IF m <= n THEN m ELSE n
<1> DEFINE x == IF m <= n THEN m ELSE n
<1>1. x \in {m, n} /\ \A y \in {m, n} : x <= y
  OBVIOUS
<1>2. \A z \in {m, n} : (\A y \in {m, n} : z <= y) => z = x
  OBVIOUS
<1> HIDE DEF x
<1>3. Min({m, n}) = x
  BY <1>1, <1>2, Zenon DEF Min
<1> QED
  BY <1>3 DEF x

LEMMA RangeEnds ==
  ASSUME NEW m \in Nat \ {0}, NEW n \in Nat, m <= n
  PROVE  Min(m..n) = m /\ Max(m..n) = n /\ m..n # {}
<1>1. m..n \in SUBSET (1..n) /\ m..n \in SUBSET Nat /\ m \in m..n /\ n \in m..n /\ m..n # {}
  OBVIOUS
<1> DEFINE R == m..n
<1>2. \A x \in R : m <= x /\ x <= n
  OBVIOUS
<1> HIDE DEF R
<1>3. Max(R) \in R /\ Max(R) >= n
  BY <1>1, MaxOf DEF R
<1>4. Min(R) \in R /\ Min(R) <= m
  BY <1>1, MinOf DEF R
<1>5. Min(R) \in Int /\ Max(R) \in Int
  BY <1>3, <1>4 DEF R
<1>6. Min(R) = m /\ Max(R) = n
  BY <1>2, <1>3, <1>4, <1>5
<1> QED
  BY <1>1, <1>6 DEF R

\* The lines that are whole in the units behind the a-th, up to the b-th.
LEMMA IntactLines ==
  ASSUME reply \in Replies, NEW a \in Nat, NEW b \in Nat, a <= b, b <= Size,
         NEW m \in Nat \ {0}, NEW n \in Nat, n = b \div 2, m = (a + 3) \div 2
  PROVE  Intact(Stretch(a, b)) = IF m <= n THEN SubSeq(reply, m, n) ELSE <<>>
<1> DEFINE whole == {i \in DOMAIN reply : {2 * i - 1, 2 * i} \subseteq ToSet(Stretch(a, b))}
<1>1. DOMAIN reply = 1..Len(reply) /\ Len(reply) \in Nat /\ Size = 2 * Len(reply)
  BY ReplyParts DEF Size
<1>2. ToSet(Stretch(a, b)) = (a + 1)..b
  BY StretchFacts
<1>3. \A i \in Nat \ {0} : (a + 1 <= 2 * i - 1 <=> m <= i) /\ (2 * i <= b <=> i <= n)
  OBVIOUS
<1>4. ASSUME NEW i \in 1..Len(reply)
      PROVE  {2 * i - 1, 2 * i} \subseteq (a + 1)..b <=> (m <= i /\ i <= n)
  <2>1. {2 * i - 1, 2 * i} \subseteq (a + 1)..b <=> (a + 1 <= 2 * i - 1 /\ 2 * i <= b)
    BY <1>1
  <2> QED
    BY <1>1, <1>3, <2>1
<1>5. n <= Len(reply)
  BY <1>1
<1>6. whole = m..n
  <2>1. \A i \in 1..Len(reply) : i \in whole <=> m <= i /\ i <= n
    BY <1>1, <1>2, <1>4
  <2>2. whole \subseteq 1..Len(reply)
    BY <1>1
  <2>3. m..n \subseteq 1..Len(reply)
    BY <1>1, <1>5
  <2> HIDE DEF whole
  <2>4. \A i \in whole : i \in m..n
    BY <1>1, <2>1, <2>2
  <2>5. \A i \in m..n : i \in whole
    BY <1>1, <2>1, <2>3
  <2> QED
    BY <2>4, <2>5
<1>7. Intact(Stretch(a, b)) = IF whole = {} THEN <<>> ELSE SubSeq(reply, Min(whole), Max(whole))
  BY Zenon DEF Intact
<1> HIDE DEF whole
<1>8. CASE m <= n
  BY <1>6, <1>7, <1>8, RangeEnds
<1>9. CASE ~(m <= n)
  <2>1. m..n = {}
    BY <1>9
  <2> QED
    BY <1>6, <1>7, <1>9, <2>1
<1> QED
  BY <1>8, <1>9

LEMMA FirstLines ==
  ASSUME reply \in Replies, NEW c \in Nat, c <= Size
  PROVE  /\ c \div 2 \in 0..Len(reply)
         /\ Intact(Stretch(0, c)) = SubSeq(reply, 1, c \div 2)
<1>1. reply \in Seq(Line) /\ Len(reply) \in Nat /\ Size = 2 * Len(reply)
  BY ReplyParts DEF Size
<1> DEFINE n == c \div 2
<1>2. n \in Nat /\ n <= Len(reply) /\ n = c \div 2 /\ 1 = (0 + 3) \div 2
  BY <1>1
<1> HIDE DEF n
<1>3. Intact(Stretch(0, c)) = IF 1 <= n THEN SubSeq(reply, 1, n) ELSE <<>>
  <2> DEFINE one == 1
             zero == 0
  <2>1. one \in Nat \ {0} /\ zero \in Nat /\ one = (zero + 3) \div 2 /\ zero <= c /\ one = 1 /\ zero = 0
    OBVIOUS
  <2> HIDE DEF one, zero
  <2>2. Intact(Stretch(zero, c)) = IF one <= n THEN SubSeq(reply, one, n) ELSE <<>>
    BY <1>2, <2>1, IntactLines
  <2> QED
    BY <2>1, <2>2
<1>4. ~(1 <= n) => SubSeq(reply, 1, n) = <<>>
  BY <1>1, <1>2
<1>5. Intact(Stretch(0, c)) = SubSeq(reply, 1, n)
  BY <1>3, <1>4
<1>6. n \in 0..Len(reply)
  BY <1>1, <1>2
<1> QED
  BY <1>5, <1>6 DEF n

LEMMA LastLines ==
  ASSUME reply \in Replies, NEW a \in Nat, a <= Size
  PROVE  LET m == (a + 3) \div 2
         IN  /\ m \in 1..(Len(reply) + 1) /\ Intact(Stretch(a, Size)) = SubSeq(reply, m, Len(reply))
             /\ \A i \in 1..Len(reply) : (2 * i > a + 1 <=> m <= i)
<1>1. reply \in Seq(Line) /\ Len(reply) \in Nat /\ Size = 2 * Len(reply) /\ Size \in Nat
  BY ReplyParts DEF Size
<1> DEFINE m == (a + 3) \div 2
           n == Len(reply)
<1>2. m \in 1..(n + 1) /\ \A i \in 1..n : (2 * i > a + 1 <=> m <= i)
  BY <1>1
<1>3. m \in Nat \ {0} /\ n \in Nat /\ n = Size \div 2 /\ m = (a + 3) \div 2
  BY <1>1, <1>2
<1> HIDE DEF m, n
<1>4. Intact(Stretch(a, Size)) = IF m <= n THEN SubSeq(reply, m, n) ELSE <<>>
  <2> DEFINE b == Size
  <2>1. b \in Nat /\ a <= b /\ b <= Size /\ n = b \div 2
    BY <1>1, <1>3
  <2> HIDE DEF b
  <2>2. Intact(Stretch(a, b)) = IF m <= n THEN SubSeq(reply, m, n) ELSE <<>>
    BY <1>3, <2>1, IntactLines
  <2> QED
    BY <2>2 DEF b
<1>5. ~(m <= n) => SubSeq(reply, m, n) = <<>>
  BY <1>1, <1>2, <1>3
<1> QED
  BY <1>2, <1>4, <1>5 DEF m, n

LEMMA StretchFirst ==
  ASSUME NEW a \in Nat, NEW b \in Nat, a <= b, NEW n \in Nat, n <= b - a
  PROVE  SubSeq(Stretch(a, b), 1, n) = Stretch(a, a + n)
<1>1. \A m \in Nat \ {0} : m - 1 <= n => SubSeq(Stretch(a, b), m, n) = Stretch(a + m - 1, a + n)
  BY StretchPart, ZenonT(60)
<1>2. 1 \in Nat \ {0} /\ 1 - 1 <= n /\ a + 1 - 1 = a
  OBVIOUS
<1>3. SubSeq(Stretch(a, b), 1, n) = Stretch(a + 1 - 1, a + n)
  BY <1>1, <1>2, Zenon
<1> QED
  BY <1>2, <1>3, Zenon

LEMMA StretchOn ==
  ASSUME NEW b \in Nat, NEW c \in Nat, b <= c
  PROVE  Stretch(0, b) \o Stretch(b, c) = Stretch(0, c)
<1> DEFINE zero == 0
<1>1. zero \in Nat /\ zero <= b /\ zero = 0
  OBVIOUS
<1> HIDE DEF zero
<1>2. Stretch(zero, b) \o Stretch(b, c) = Stretch(zero, c)
  BY <1>1, StretchConcat
<1> QED
  BY <1>1, <1>2

\* The first and the last units that are kept are stretches of the reply, as long as they may
\* be, and no buffer is full.
Kept ==
  /\ relayed \in 0..Size
  /\ captured = Stretch(0, IF relayed <= BodyLimit THEN relayed ELSE BodyLimit)
  /\ Len(tail) \in 0..relayed /\ Len(tail) <= 2 * TailLimit
  /\ tail = Stretch(relayed - Len(tail), relayed)
  /\ Len(tail) = relayed \/ Len(tail) >= TailLimit

LEMMA ForwardKeeps == reply \in Replies /\ Kept /\ ForwardChunk => Kept'
<1> SUFFICES ASSUME reply \in Replies, Kept, ForwardChunk PROVE Kept'
  OBVIOUS
<1>1. PICK n \in 1..MaxChunk :
        /\ relayed + n <= Size /\ relayed' = relayed + n
        /\ captured' = KeptForRecord([k \in 1..n |-> relayed + k])
        /\ tail' = Trimmed(tail \o [k \in 1..n |-> relayed + k])
  BY DEF ForwardChunk
<1> DEFINE old == relayed
           new == relayed + n
           chunk == [k \in 1..n |-> relayed + k]
<1>2. /\ n \in Nat \ {0} /\ old \in Nat /\ Size \in Nat /\ new \in Nat /\ new = old + n
      /\ new <= Size /\ old <= new /\ relayed' = new /\ relayed = old
  BY <1>1, StreamAssumption, ReplyParts DEF Kept, Size
<1>3. BodyLimit \in Nat \ {0} /\ TailLimit \in Nat \ {0}
  BY StreamAssumption
<1>4. Size' = Size
  BY DEF ForwardChunk, Size
<1>5. chunk = Stretch(old, new)
  <2>1. new - old = n
    BY <1>2
  <2> QED
    BY <2>1 DEF Stretch
<1> HIDE DEF chunk
<1>6. captured' = Stretch(0, IF new <= BodyLimit THEN new ELSE BodyLimit)
  <2> DEFINE c == IF old <= BodyLimit THEN old ELSE BodyLimit
             m == Min({Len(chunk), BodyLimit - Len(captured)})
  <2>1. c \in Nat /\ c <= old /\ c <= BodyLimit /\ captured = Stretch(0, c)
    BY <1>2, <1>3 DEF Kept
  <2>2. Len(chunk) = n /\ Len(captured) = c
    <3>1. 0 \in Nat /\ 0 <= c /\ c - 0 = c /\ new - old = n
      BY <1>2, <2>1
    <3> HIDE DEF c, old, new
    <3>2. Len(Stretch(0, c)) = c - 0
      BY <2>1, <3>1, StretchFacts
    <3>3. Len(Stretch(old, new)) = new - old
      BY <1>2, StretchFacts
    <3> QED
      BY <1>5, <2>1, <3>1, <3>2, <3>3
  <2>3. m = IF n <= BodyLimit - c THEN n ELSE BodyLimit - c
    <3>1. n \in Int /\ BodyLimit - c \in Int
      BY <1>2, <1>3, <2>1
    <3> HIDE DEF c
    <3> QED
      BY <2>2, <3>1, LesserOf
  <2>4. captured' = captured \o SubSeq(chunk, 1, m)
    BY <1>1 DEF KeptForRecord, chunk
  <2> DEFINE end == old + m
  <2>5. m \in Nat /\ m <= n /\ end \in Nat /\ old <= end
    BY <1>2, <1>3, <2>1, <2>3
  <2>6. SubSeq(chunk, 1, m) = Stretch(old, end)
    <3>1. m \in Nat /\ m <= new - old /\ old \in Nat /\ new \in Nat /\ old <= new
      BY <1>2, <2>5
    <3> HIDE DEF old, new, m
    <3>2. SubSeq(Stretch(old, new), 1, m) = Stretch(old, old + m)
      BY <3>1, StretchFirst
    <3> QED
      BY <1>5, <3>2
  <2>7. CASE old <= BodyLimit
    <3>1. c = old /\ end = IF new <= BodyLimit THEN new ELSE BodyLimit
      BY <1>2, <1>3, <2>1, <2>3, <2>7
    <3> HIDE DEF c, old, new, m, end
    <3>2. Stretch(0, old) \o Stretch(old, end) = Stretch(0, end)
      BY <1>2, <2>5, StretchOn
    <3> QED
      BY <2>1, <2>4, <2>6, <3>1, <3>2
  <2>8. CASE ~(old <= BodyLimit)
    <3>1. c = BodyLimit /\ ~(new <= BodyLimit) /\ m = 0
      BY <1>2, <1>3, <2>1, <2>3, <2>8
    <3>2. captured \in Seq(1..c)
      <4>1. 0 \in Nat /\ 0 <= c /\ 0 + 1 = 1
        BY <2>1
      <4> HIDE DEF c
      <4>2. Stretch(0, c) \in Seq((0 + 1)..c)
        BY <2>1, <4>1, StretchFacts
      <4> QED
        BY <2>1, <4>1, <4>2
    <3>3. SubSeq(chunk, 1, 0) = <<>>
      <4>1. chunk \in Seq((old + 1)..new)
        BY <1>2, <1>5, StretchFacts
      <4> QED
        BY <4>1
    <3>4. captured \o <<>> = captured
      BY <3>2
    <3>5. captured' = captured
      <4> HIDE DEF m
      <4> QED
        BY <2>4, <3>1, <3>3, <3>4
    <3> QED
      BY <2>1, <3>1, <3>5
  <2> QED
    BY <2>7, <2>8
<1>7. /\ Len(tail') \in 0..new /\ Len(tail') <= 2 * TailLimit
      /\ tail' = Stretch(new - Len(tail'), new)
      /\ Len(tail') = new \/ Len(tail') >= TailLimit
  <2> DEFINE t == Len(tail)
             from == old - t
             units == tail \o chunk
  <2>1. /\ t \in Nat /\ t <= old /\ t <= 2 * TailLimit /\ (t = old \/ t >= TailLimit)
        /\ from \in Nat /\ from <= old /\ from <= new /\ new - from = t + n
    BY <1>2, <1>3 DEF Kept
  <2>2. tail = Stretch(from, old)
    BY DEF Kept
  <2>3. units = Stretch(from, new)
    <3> HIDE DEF from, old, new
    <3> QED
      BY <1>2, <1>5, <2>1, <2>2, StretchConcat, ZenonT(60)
  <2>4. tail' = Trimmed(units)
    BY <1>1 DEF chunk
  <2>5. Len(units) = t + n
    <3> HIDE DEF from, old, new, t, units
    <3>1. Len(Stretch(from, new)) = new - from
      BY <1>2, <2>1, StretchFacts
    <3> QED
      BY <2>1, <2>3, <3>1
  <2> HIDE DEF units
  <2>6. CASE t + n > 2 * TailLimit
    <3> DEFINE lo == t + n - TailLimit + 1
               start == from + lo - 1
    <3>1. Min({TailLimit, t + n}) = TailLimit
      <4>1. TailLimit \in Int /\ t + n \in Int /\ TailLimit <= t + n
        BY <1>2, <1>3, <2>1, <2>6
      <4> HIDE DEF t
      <4> QED
        BY <4>1, LesserOf
    <3>2. tail' = SubSeq(units, lo, t + n)
      <4>1. Len(units) > 2 * TailLimit
        BY <2>5, <2>6
      <4>2. tail' = SubSeq(units, Len(units) - Min({TailLimit, Len(units)}) + 1, Len(units))
        BY <2>4, <4>1, Zenon DEF Trimmed, LastUnits
      <4>3. Min({TailLimit, Len(units)}) = TailLimit
        BY <2>5, <3>1
      <4>4. tail' = SubSeq(units, Len(units) - TailLimit + 1, Len(units))
        BY <4>2, <4>3
      <4>5. Len(units) - TailLimit + 1 = lo
        BY <1>2, <1>3, <2>1, <2>5
      <4> HIDE DEF lo
      <4> QED
        BY <2>5, <4>4, <4>5
    <3>3. /\ lo \in Nat \ {0} /\ lo - 1 <= t + n /\ t + n \in Nat /\ t + n <= new - from
          /\ from + (t + n) = new /\ start = new - TailLimit /\ start \in Nat /\ start <= new
          /\ new - start = TailLimit
      BY <1>2, <1>3, <2>1, <2>6
    <3>4. tail' = Stretch(start, new)
      <4> DEFINE k == t + n
      <4>1. /\ k \in Nat /\ lo \in Nat \ {0} /\ lo - 1 <= k /\ k <= new - from
            /\ from \in Nat /\ new \in Nat /\ from <= new
        BY <1>2, <2>1, <3>3
      <4>2. k = t + n
        OBVIOUS
      <4> HIDE DEF from, old, new, t, lo, k
      <4>3. SubSeq(Stretch(from, new), lo, k) = Stretch(from + lo - 1, from + k)
        BY <4>1, StretchParts, ZenonT(60)
      <4> QED
        BY <2>3, <3>2, <3>3, <4>2, <4>3
    <3>5. Len(tail') = TailLimit
      <4> HIDE DEF start, new
      <4>1. Len(Stretch(start, new)) = new - start
        BY <1>2, <3>3, StretchFacts
      <4> QED
        BY <3>3, <3>4, <4>1
    <3> QED
      BY <1>2, <1>3, <3>3, <3>4, <3>5
  <2>7. CASE ~(t + n > 2 * TailLimit)
    <3>1. tail' = units /\ Len(tail') = t + n
      <4>1. ~(Len(units) > 2 * TailLimit)
        BY <2>5, <2>7
      <4> QED
        BY <2>4, <2>5, <4>1 DEF Trimmed
    <3>2. new - Len(tail') = from
      BY <1>2, <2>1, <3>1
    <3>3. /\ Len(tail') \in 0..new /\ Len(tail') <= 2 * TailLimit
          /\ Len(tail') = new \/ Len(tail') >= TailLimit
      BY <1>2, <1>3, <2>1, <2>7, <3>1
    <3> QED
      BY <2>3, <3>1, <3>2, <3>3
  <2> QED
    BY <2>6, <2>7
<1>8. relayed' \in 0..Size'
  BY <1>2, <1>4
<1> HIDE DEF new
<1> QED
  BY <1>2, <1>6, <1>7, <1>8 DEF Kept

-----------------------------------------------------------------------------
(* The tokens that are found are those of the last report.                 *)

LEMMA ZeroFacts == ZeroTokens \in Tokens /\ ZeroTokens.prompt = 0 /\ ZeroTokens.completion = 0
BY DEF ZeroTokens, Tokens

LEMMA FillFacts ==
  ASSUME NEW x \in Tokens, NEW y \in Tokens
  PROVE  /\ Fill(x, y) \in Tokens /\ Fill(x, x) = x
         /\ Fill(x, ZeroTokens) = x /\ Fill(ZeroTokens, x) = x
<1> DEFINE p == IF x.prompt # 0 THEN x.prompt ELSE y.prompt
           c == IF x.completion # 0 THEN x.completion ELSE y.completion
<1>1. /\ x.prompt \in Nat /\ x.completion \in Nat /\ y.prompt \in Nat /\ y.completion \in Nat
      /\ x = [prompt |-> x.prompt, completion |-> x.completion]
  BY DEF Tokens
<1>2. Fill(x, y) \in Tokens
  <2>1. p \in Nat /\ c \in Nat
    BY <1>1
  <2> HIDE DEF p, c
  <2>2. [prompt |-> p, completion |-> c] \in Tokens
    BY <2>1 DEF Tokens
  <2> QED
    BY <2>2 DEF Fill, p, c
<1>3. Fill(x, x) = x
  <2>1. /\ (IF x.prompt # 0 THEN x.prompt ELSE x.prompt) = x.prompt
        /\ (IF x.completion # 0 THEN x.completion ELSE x.completion) = x.completion
    OBVIOUS
  <2> QED
    BY <1>1, <2>1, Zenon DEF Fill
<1>4. Fill(x, ZeroTokens) = x
  <2>1. /\ (IF x.prompt # 0 THEN x.prompt ELSE ZeroTokens.prompt) = x.prompt
        /\ (IF x.completion # 0 THEN x.completion ELSE ZeroTokens.completion) = x.completion
    BY ZeroFacts
  <2> QED
    BY <1>1, <2>1, Zenon DEF Fill
<1>5. Fill(ZeroTokens, x) = x
  <2>1. /\ (IF ZeroTokens.prompt # 0 THEN ZeroTokens.prompt ELSE x.prompt) = x.prompt
        /\ (IF ZeroTokens.completion # 0 THEN ZeroTokens.completion ELSE x.completion) = x.completion
    BY ZeroFacts
  <2> QED
    BY <1>1, <2>1, Zenon DEF Fill
<1> QED
  BY <1>2, <1>3, <1>4, <1>5

LEMMA ExtractFacts ==
  ASSUME NEW line \in Line, NEW t \in Tokens
  PROVE  /\ ExtractTokens(line.usage, line.timings, t) \in Tokens
         /\ ExtractTokens(NoTokens, NoTokens, t) = t
         /\ ScanBack(t, line) \in Tokens
<1>1. line.usage \in {NoTokens} \cup Tokens /\ line.timings \in {NoTokens} \cup Tokens
  BY LineParts
<1> DEFINE used == IF line.usage = NoTokens THEN t ELSE Fill(line.usage, t)
<1>2. used \in Tokens
  BY <1>1, FillFacts
<1>3. ExtractTokens(line.usage, line.timings, t) = IF line.timings = NoTokens THEN used ELSE Fill(used, line.timings)
  BY DEF ExtractTokens
<1> HIDE DEF used
<1>4. ExtractTokens(line.usage, line.timings, t) \in Tokens
  BY <1>1, <1>2, <1>3, FillFacts
<1>5. ExtractTokens(NoTokens, NoTokens, t) = t
  BY DEF ExtractTokens
<1> QED
  BY <1>4, <1>5 DEF ScanBack

LEMMA ReportsFacts ==
  ASSUME NEW s \in Replies
  PROVE  /\ Reports(s) \in SUBSET (1..Len(s))
         /\ \A i \in 1..Len(s) : i \notin Reports(s) => s[i].usage = NoTokens /\ s[i].timings = NoTokens
         /\ \A i \in Reports(s) : ReportOf(s[i]) \in Tokens
<1>1. DOMAIN s = 1..Len(s)
  BY ReplyParts
<1>2. ASSUME NEW i \in 1..Len(s)
      PROVE  i \in Reports(s) <=> ~(s[i].usage = NoTokens /\ s[i].timings = NoTokens)
  BY <1>1 DEF Reports
<1>3. ASSUME NEW i \in Reports(s) PROVE ReportOf(s[i]) \in Tokens
  <2>1. i \in 1..Len(s)
    BY <1>1 DEF Reports
  <2>2. s[i] \in Line
    BY <2>1, ReplyParts
  <2>3. s[i].usage \in {NoTokens} \cup Tokens /\ s[i].timings \in {NoTokens} \cup Tokens
    BY <2>2, LineParts
  <2>4. ~(s[i].usage = NoTokens /\ s[i].timings = NoTokens)
    BY <1>2, <2>1
  <2> QED
    BY <2>3, <2>4 DEF ReportOf
<1>4. Reports(s) \in SUBSET (1..Len(s))
  BY <1>1 DEF Reports
<1> QED
  BY <1>2, <1>3, <1>4

\* The last report stands whatever is known already, and when it says that nothing was
\* generated, or is no event, it is the only one.
LEMMA LastReport ==
  ASSUME NEW s \in Replies, Reports(s) # {}
  PROVE  LET l == Max(Reports(s))
             v == ReportOf(s[l])
         IN  /\ l \in 1..Len(s) /\ l \in Reports(s) /\ \A i \in Reports(s) : i <= l
             /\ v \in Tokens
             /\ s[l].shape # "event" \/ v.completion = 0 => Reports(s) = {l}
             /\ ExtractTokens(s[l].usage, s[l].timings, ZeroTokens) = v
             /\ ExtractTokens(s[l].usage, s[l].timings, v) = v
<1> DEFINE l == Max(Reports(s))
           u == s[l].usage
           w == s[l].timings
           v == ReportOf(s[l])
<1>1. l \in Reports(s) /\ \A i \in Reports(s) : l >= i
  BY ReportsFacts, ReplyParts, MaxOf
<1>2. WellFormed(s)
  BY ReplyParts
<1>3. /\ s[l].shape = "event" \/ (s[l].shape = "body" /\ Reports(s) = {l})
      /\ ReportOf(s[l]).completion # 0 \/ Reports(s) = {l}
      /\ NoTokens \in {u, w} \/ Fill(u, w) = u
  BY <1>1, <1>2, Zenon DEF WellFormed
<1> HIDE DEF l
<1>4. l \in 1..Len(s) /\ l \in Int /\ \A i \in Reports(s) : i <= l /\ i \in Int
  BY <1>1, ReportsFacts
<1>5. s[l] \in Line /\ v \in Tokens
  BY <1>1, <1>4, ReplyParts, ReportsFacts
<1>6. u \in {NoTokens} \cup Tokens /\ w \in {NoTokens} \cup Tokens
  BY <1>5, LineParts
<1>7. ~(u = NoTokens /\ w = NoTokens)
  BY <1>1, <1>4 DEF Reports
<1>8. v = IF u # NoTokens THEN u ELSE w
  BY DEF ReportOf
<1> HIDE DEF u, w, v
<1>9. ASSUME NEW t \in {ZeroTokens, v} PROVE ExtractTokens(u, w, t) = v
  <2>1. t \in Tokens
    BY <1>5, ZeroFacts
  <2>2. CASE u = NoTokens
    <3>1. ExtractTokens(u, w, t) = Fill(t, w) /\ v = w /\ w \in Tokens
      BY <1>6, <1>7, <1>8, <2>2 DEF ExtractTokens
    <3>2. t = ZeroTokens => Fill(t, w) = w
      BY <1>6, <3>1, FillFacts
    <3> QED
      BY <3>1, <3>2, FillFacts
  <2>3. CASE u # NoTokens
    <3>1. v = u /\ u \in Tokens
      BY <1>6, <1>8, <2>3
    <3>2. Fill(u, t) = u
      BY <3>1, FillFacts
    <3>3. ExtractTokens(u, w, t) = IF w = NoTokens THEN u ELSE Fill(u, w)
      BY <2>3, <3>2 DEF ExtractTokens
    <3> QED
      BY <1>3, <2>3, <3>1, <3>3
  <2> QED
    BY <2>2, <2>3
<1>10. ExtractTokens(u, w, ZeroTokens) = v /\ ExtractTokens(u, w, v) = v
  BY <1>9
<1> QED
  BY <1>1, <1>3, <1>4, <1>5, <1>10 DEF u, w, v, l

\* TextUpTo lines of s from its end back to the m-th.
LEMMA ScanStates ==
  ASSUME NEW s \in Replies, NEW m \in 1..(Len(s) + 1)
  PROVE  \E st \in [0..(Len(s) - m + 1) -> Tokens] :
           /\ st[0] = ZeroTokens
           /\ st[Len(s) - m + 1] = FoldLeft(ScanBack, ZeroTokens, Reverse(SubSeq(s, m, Len(s))))
           /\ \A k \in 1..(Len(s) - m + 1) : st[k] = ScanBack(st[k - 1], s[Len(s) - k + 1])
<1> DEFINE n == Len(s)
           part == SubSeq(s, m, n)
           back == Reverse(part)
           len == n - m + 1
<1>1. /\ s \in Seq(Line) /\ n \in Nat /\ m \in Nat \ {0} /\ len \in Nat /\ len = n - m + 1
      /\ \A i \in 1..n : s[i] \in Line
  BY ReplyParts
<1>2. part \in Seq(Line) /\ Len(part) = len /\ \A i \in 1..len : part[i] = s[m + i - 1]
  BY <1>1
<1> HIDE DEF part, n
<1>3. back = [i \in 1..len |-> part[len - i + 1]]
  BY <1>2 DEF Reverse
<1>4. ASSUME NEW k \in 1..len
      PROVE  back[k] = s[n - k + 1] /\ back[k] \in Line
  <2>1. len - k + 1 \in 1..len /\ m + (len - k + 1) - 1 = n - k + 1 /\ n - k + 1 \in 1..n
    BY <1>1
  <2>2. back[k] = part[len - k + 1]
    BY <1>3
  <2> QED
    BY <1>1, <1>2, <2>1, <2>2
<1>5. back \in Seq(Line) /\ Len(back) = len
  <2>1. back \in [1..len -> Line]
    BY <1>3, <1>4
  <2>2. DOMAIN back = 1..len
    BY <1>3
  <2> HIDE DEF back, len
  <2> QED
    BY <1>1, <2>1, <2>2
<1> HIDE DEF back, len
<1>6. PICK st \in [0..Len(back) -> Tokens] : ScanRun(st, back, ZeroTokens)
  <2>1. \A a \in Tokens : \A i \in 1..Len(back) : ScanBack(a, back[i]) \in Tokens
    BY <1>4, <1>5, ExtractFacts
  <2> QED
    BY <1>5, <2>1, ZeroFacts, ScanFold, Zenon
<1>7. st \in [0..len -> Tokens]
  BY <1>5, <1>6
<1>8. /\ st[0] = ZeroTokens /\ st[len] = FoldLeft(ScanBack, ZeroTokens, back)
      /\ \A k \in 1..len : st[k] = ScanBack(st[k - 1], s[n - k + 1])
  BY <1>4, <1>5, <1>6 DEF ScanRun
<1> QED
  BY <1>7, <1>8 DEF n, part, back, len

\* Back from the end, nothing is found before the last report, which is final if anything was
\* generated.
LEMMA ScanFinds ==
  ASSUME NEW s \in Replies, NEW m \in 1..(Len(s) + 1)
  PROVE  LET found == FoldLeft(ScanBack, ZeroTokens, Reverse(SubSeq(s, m, Len(s))))
             l == Max(Reports(s))
             v == ReportOf(s[l])
         IN  /\ found \in Tokens
             /\ (\A i \in m..Len(s) : i \notin Reports(s)) => found = ZeroTokens
             /\ Reports(s) # {} =>
                  /\ found \in {ZeroTokens, v}
                  /\ m <= l /\ s[l].shape = "event" /\ v.completion # 0 => found = v
<1> DEFINE found == FoldLeft(ScanBack, ZeroTokens, Reverse(SubSeq(s, m, Len(s))))
           l == Max(Reports(s))
           v == ReportOf(s[l])
           n == Len(s)
           len == n - m + 1
<1>1. PICK st \in [0..len -> Tokens] :
        /\ st[0] = ZeroTokens /\ st[len] = found
        /\ \A k \in 1..len : st[k] = ScanBack(st[k - 1], s[n - k + 1])
  BY ScanStates
<1>2. n \in Nat /\ m \in Nat \ {0} /\ m <= n + 1 /\ len \in Nat /\ \A i \in 1..n : s[i] \in Line
  BY ReplyParts
<1>3. ASSUME NEW i \in 1..n, i \notin Reports(s), NEW t \in Tokens PROVE ScanBack(t, s[i]) = t
  <2>1. s[i].usage = NoTokens /\ s[i].timings = NoTokens /\ s[i] \in Line
    BY <1>2, <1>3, ReportsFacts
  <2>2. ExtractTokens(NoTokens, NoTokens, t) = t
    BY <2>1, ExtractFacts
  <2> QED
    BY <2>1, <2>2 DEF ScanBack
<1> HIDE DEF found, n
<1>4. ASSUME NEW k \in 0..(len - 1)
      PROVE  /\ k + 1 \in 1..len /\ k + 1 \in 0..len /\ k \in 0..len /\ n - k \in m..n /\ n - k \in 1..n
             /\ st[k + 1] = ScanBack(st[k], s[n - k]) /\ st[k] \in Tokens
  <2>1. /\ k + 1 \in 1..len /\ k + 1 \in 0..len /\ k \in 0..len /\ n - k \in m..n /\ n - k \in 1..n
        /\ (k + 1) - 1 = k /\ n - (k + 1) + 1 = n - k
    BY <1>2
  <2>2. st[k + 1] = ScanBack(st[(k + 1) - 1], s[n - (k + 1) + 1])
    BY <1>1, <2>1
  <2> QED
    BY <1>1, <2>1, <2>2
<1>5. ASSUME \A i \in m..n : i \notin Reports(s) PROVE found = ZeroTokens
  <2> DEFINE S == {k \in 0..len : st[k] = ZeroTokens}
  <2>1. 0 \in S
    BY <1>1, <1>2
  <2>2. ASSUME NEW k \in 0..(len - 1), k \in S PROVE k + 1 \in S
    <3>1. st[k + 1] = ScanBack(st[k], s[n - k]) /\ n - k \in 1..n /\ n - k \notin Reports(s)
      BY <1>4, <1>5
    <3>2. ScanBack(st[k], s[n - k]) = st[k]
      BY <1>3, <1>4, <3>1
    <3> QED
      BY <1>4, <2>2, <3>1, <3>2
  <2> HIDE DEF S, len
  <2>3. 0 \in Int /\ len \in Int /\ len \in 0..len
    BY <1>2
  <2>4. 0..len \subseteq S
    BY <2>1, <2>2, <2>3, Climb
  <2> QED
    BY <1>1, <2>3, <2>4 DEF S
<1>6. ASSUME Reports(s) # {}
      PROVE  /\ found \in {ZeroTokens, v}
             /\ m <= l /\ s[l].shape = "event" /\ v.completion # 0 => found = v
  <2>1. /\ l \in 1..n /\ l \in Reports(s) /\ \A i \in Reports(s) : i <= l
        /\ v \in Tokens
        /\ s[l].shape # "event" \/ v.completion = 0 => Reports(s) = {l}
        /\ ExtractTokens(s[l].usage, s[l].timings, ZeroTokens) = v
    BY <1>6, LastReport DEF n
  <2> HIDE DEF l, v
  <2> DEFINE S == {k \in 0..len : /\ k <= n - l => st[k] = ZeroTokens
                                  /\ st[k] \in {ZeroTokens, v}
                                  /\ k > n - l /\ s[l].shape = "event" /\ v.completion # 0 => st[k] = v}
  <2>2. 0 \in S
    BY <1>1, <1>2, <2>1
  <2>3. ASSUME NEW k \in 0..(len - 1), k \in S PROVE k + 1 \in S
    <3>1. /\ k <= n - l => st[k] = ZeroTokens
          /\ st[k] \in {ZeroTokens, v}
          /\ k > n - l /\ s[l].shape = "event" /\ v.completion # 0 => st[k] = v
      BY <2>3
    <3>2. st[k + 1] = ScanBack(st[k], s[n - k]) /\ n - k \in 1..n /\ st[k] \in Tokens /\ k + 1 \in 0..len
      BY <1>4
    <3>3. CASE n - k = l
      <4>1. st[k] = ZeroTokens
        BY <1>2, <2>1, <3>1, <3>3
      <4>2. ScanBack(st[k], s[n - k]) = IF s[l].shape # "event" THEN ZeroTokens ELSE v
        BY <2>1, <3>3, <4>1, ZeroFacts DEF ScanBack
      <4>3. ~(k + 1 <= n - l)
        BY <1>2, <2>1, <3>3
      <4> QED
        BY <3>2, <4>2, <4>3
    <3>4. CASE n - k # l /\ n - k \notin Reports(s)
      <4>1. st[k + 1] = st[k]
        BY <1>3, <3>2, <3>4
      <4>2. (k + 1 <= n - l => k <= n - l) /\ (k + 1 > n - l => k > n - l)
        BY <1>2, <2>1, <3>4
      <4> QED
        BY <3>1, <3>2, <4>1, <4>2
    <3>5. CASE n - k # l /\ n - k \in Reports(s)
      <4>1. s[l].shape = "event" /\ v.completion # 0
        BY <2>1, <3>5
      <4>2. k > n - l /\ ~(k + 1 <= n - l)
        BY <1>2, <2>1, <3>5
      <4>3. st[k] = v
        BY <3>1, <4>1, <4>2
      <4>4. ScanBack(st[k], s[n - k]) = v
        BY <4>1, <4>3 DEF ScanBack
      <4> QED
        BY <3>2, <4>2, <4>4
    <3> QED
      BY <3>3, <3>4, <3>5
  <2> HIDE DEF S
  <2>4. 0 \in Int /\ len \in Int /\ len \in 0..len
    BY <1>2
  <2>5. 0..len \subseteq S
    <3> HIDE DEF len
    <3> QED
      BY <2>2, <2>3, <2>4, Climb
  <2>6. len \in S
    BY <2>4, <2>5
  <2>7. m <= l => len > n - l
    BY <1>2, <2>1
  <2> QED
    BY <1>1, <2>6, <2>7 DEF S
<1>7. found \in Tokens
  BY <1>1, <1>2
<1> QED
  BY <1>5, <1>6, <1>7 DEF found, n

\* The last of the reports that are late enough is the last of all.
LEMMA LateReports ==
  ASSUME NEW s \in Replies, NEW a \in Int, NEW reports,
         reports = {i \in Reports(s) : 2 * i > a}, reports # {}
  PROVE  Max(reports) = Max(Reports(s)) /\ Max(Reports(s)) \in reports
<1> DEFINE l == Max(Reports(s))
           n == Len(s)
<1>1. n \in Nat /\ Reports(s) \in SUBSET (1..n) /\ Reports(s) # {}
  BY ReportsFacts, ReplyParts
<1> HIDE DEF n
<1>2. l \in 1..n /\ l \in Reports(s) /\ \A i \in Reports(s) : i <= l
  BY <1>1, LastReport DEF n
<1> HIDE DEF l
<1>3. l \in reports /\ \A i \in reports : i <= l
  <2>1. PICK i \in reports : TRUE
    OBVIOUS
  <2>2. i \in 1..n /\ i <= l /\ 2 * i > a
    BY <1>1, <1>2, <2>1
  <2> QED
    BY <1>2, <2>2
<1>4. reports \in SUBSET (1..n)
  BY <1>1
<1>5. Max(reports) \in reports /\ \A y \in reports : Max(reports) >= y
  BY <1>1, <1>4, MaxOf
<1>6. Max(reports) \in 1..n /\ Max(reports) <= l /\ Max(reports) >= l
  BY <1>3, <1>4, <1>5
<1>7. Max(reports) = l
  BY <1>2, <1>6
<1> QED
  BY <1>3, <1>7 DEF l

\* _record_usage finds what is reported last, if that is within what was kept.
LEMMA UsageFound ==
  ASSUME reply \in Replies, NEW a \in Nat, a <= Size
  PROVE  LET reports == {i \in Reports(reply) : 2 * i > a}
         IN  RecordUsage(Stretch(a, Size))
               = IF reports = {} THEN ZeroTokens ELSE ReportOf(reply[Max(reports)])
<1> DEFINE units == Stretch(a, Size)
           reports == {i \in Reports(reply) : 2 * i > a}
           m == (a + 3) \div 2
           n == Len(reply)
           found == FoldLeft(ScanBack, ZeroTokens, Reverse(SubSeq(reply, m, n)))
           usages == {i \in DOMAIN reply : 2 * i \in ToSet(units) /\ reply[i].usage # NoTokens}
           timings == {i \in DOMAIN reply : 2 * i \in ToSet(units) /\ reply[i].timings # NoTokens}
           u == IF usages = {} THEN NoTokens ELSE reply[Max(usages)].usage
           w == IF timings = {} THEN NoTokens ELSE reply[Max(timings)].timings
<1>1. /\ n \in Nat /\ DOMAIN reply = 1..n /\ Size = 2 * n /\ Size \in Nat
  BY ReplyParts DEF Size
<1>2. /\ m \in 1..(n + 1) /\ Intact(units) = SubSeq(reply, m, n)
      /\ \A i \in 1..n : (2 * i > a + 1 <=> m <= i)
  BY LastLines
<1>3. RecordUsage(units) = IF found.completion # 0 THEN found ELSE ExtractTokens(u, w, found)
  <2>1. RecordUsage(units) = LET tokens == FoldLeft(ScanBack, ZeroTokens, Reverse(Intact(units)))
                             IN  IF tokens.completion # 0 THEN tokens ELSE TrailingTokens(units, tokens)
    BY Zenon DEF RecordUsage
  <2>2. TrailingTokens(units, found) = ExtractTokens(u, w, found)
    BY Zenon DEF TrailingTokens
  <2> HIDE DEF u, w, units
  <2> QED
    BY <1>2, <2>1, <2>2, Zenon
<1>4. ToSet(units) = (a + 1)..Size
  BY <1>1, StretchFacts
<1>5. \A i \in 1..n : 2 * i \in ToSet(units) <=> 2 * i > a
  BY <1>1, <1>4
<1>6. usages = {i \in reports : reply[i].usage # NoTokens}
      /\ timings = {i \in reports : reply[i].timings # NoTokens}
  <2>1. \A i \in 1..n : reply[i].usage # NoTokens \/ reply[i].timings # NoTokens => i \in Reports(reply)
    BY ReportsFacts
  <2>2. Reports(reply) \subseteq 1..n
    BY ReportsFacts
  <2> HIDE DEF units
  <2>3. usages = {i \in reports : reply[i].usage # NoTokens}
    BY <1>1, <1>5, <2>1, <2>2
  <2>4. timings = {i \in reports : reply[i].timings # NoTokens}
    BY <1>1, <1>5, <2>1, <2>2
  <2> QED
    BY <2>3, <2>4
<1> HIDE DEF units, m, found, n
<1>7. /\ found \in Tokens
      /\ (\A i \in m..n : i \notin Reports(reply)) => found = ZeroTokens
      /\ Reports(reply) # {} =>
           /\ found \in {ZeroTokens, ReportOf(reply[Max(Reports(reply))])}
           /\ /\ m <= Max(Reports(reply)) /\ reply[Max(Reports(reply))].shape = "event"
              /\ ReportOf(reply[Max(Reports(reply))]).completion # 0
              => found = ReportOf(reply[Max(Reports(reply))])
  BY <1>2, ScanFinds DEF found, n
<1>8. CASE reports = {}
  <2>1. \A i \in m..n : i \notin Reports(reply)
    <3>1. \A i \in m..n : i \in 1..n /\ 2 * i > a
      BY <1>1, <1>2
    <3> QED
      BY <1>8, <3>1
  <2>2. found = ZeroTokens /\ usages = {} /\ timings = {}
    BY <1>6, <1>7, <1>8, <2>1
  <2>3. u = NoTokens /\ w = NoTokens
    BY <2>2
  <2> HIDE DEF u, w
  <2>4. ExtractTokens(u, w, found) = ZeroTokens
    BY <2>2, <2>3 DEF ExtractTokens
  <2> QED
    BY <1>3, <1>8, <2>2, <2>4, ZeroFacts DEF units
<1>9. CASE reports # {}
  <2> DEFINE l == Max(Reports(reply))
             v == ReportOf(reply[l])
  <2>1. Reports(reply) # {}
    BY <1>9
  <2>2. /\ l \in 1..n /\ l \in Reports(reply) /\ \A i \in Reports(reply) : i <= l
        /\ v \in Tokens
        /\ reply[l].shape # "event" \/ v.completion = 0 => Reports(reply) = {l}
        /\ ExtractTokens(reply[l].usage, reply[l].timings, ZeroTokens) = v
        /\ ExtractTokens(reply[l].usage, reply[l].timings, v) = v
    BY <2>1, LastReport DEF n
  <2>3. /\ found \in {ZeroTokens, v}
        /\ m <= l /\ reply[l].shape = "event" /\ v.completion # 0 => found = v
    BY <1>7, <2>1
  <2>4. Reports(reply) \in SUBSET (1..n)
    BY ReportsFacts DEF n
  <2>6. Max(reports) = l /\ l \in reports
    <3>1. a \in Int
      OBVIOUS
    <3> QED
      BY <1>9, <3>1, LateReports, Zenon
  <2> HIDE DEF l, v
  <2>5. \A i \in reports : i <= l
    BY <2>2
  <2>7. CASE found.completion # 0
    <3>1. found = v
      BY <2>3, <2>7, ZeroFacts
    <3> QED
      BY <1>3, <1>9, <2>6, <2>7, <3>1 DEF units, v
  <2>8. CASE found.completion = 0
    <3>1. reports = {l}
      <4>1. ASSUME NEW i \in reports, i # l PROVE FALSE
        <5>1. Reports(reply) # {l} /\ i \in Reports(reply) /\ 2 * i > a /\ i \in 1..n
          BY <2>4, <4>1
        <5>2. reply[l].shape = "event" /\ v.completion # 0
          BY <2>2, <5>1
        <5>3. i <= l
          BY <2>5
        <5>4. 2 * l > a + 1
          BY <1>1, <2>2, <4>1, <5>1, <5>3
        <5>5. m <= l
          BY <1>2, <2>2, <5>4
        <5> QED
          BY <2>3, <2>8, <5>2, <5>5
      <4> QED
        BY <2>6, <4>1
    <3> HIDE DEF reports
    <3>2. usages = IF reply[l].usage # NoTokens THEN {l} ELSE {}
      BY <1>6, <3>1
    <3>3. timings = IF reply[l].timings # NoTokens THEN {l} ELSE {}
      BY <1>6, <3>1
    <3>4. Max({l}) = l
      BY <2>6, <3>1
    <3> HIDE DEF usages, timings
    <3>5. u = reply[l].usage
      BY <3>2, <3>4
    <3>6. w = reply[l].timings
      BY <3>3, <3>4
    <3> HIDE DEF u, w
    <3>7. ExtractTokens(u, w, found) = v
      BY <2>2, <2>3, <3>5, <3>6
    <3>8. reports # {}
      BY <1>9
    <3>9. RecordUsage(units) = v
      BY <1>3, <2>8, <3>7
    <3> QED
      BY <2>6, <3>8, <3>9 DEF units, v, reports
  <2>9. found.completion \in Nat
    BY <1>7 DEF Tokens
  <2> QED
    BY <2>7, <2>8
<1> QED
  BY <1>8, <1>9

\* The chat shows what the last event of all that reports usage says.
LEMMA UsageRead ==
  ASSUME NEW s \in Replies, Reports(s) # {},
         s[Max(Reports(s))].usage # NoTokens, s[Max(Reports(s))].shape = "event"
  PROVE  TextUpTo(s)[Len(s)].usage = s[Max(Reports(s))].usage
<1> DEFINE l == Max(Reports(s))
           n == Len(s)
           r == TextUpTo(s)
           S == {k \in l..n : r[k].usage = s[l].usage}
<1>1. /\ n \in Nat /\ l \in 1..n /\ \A i \in Reports(s) : i <= l
      /\ s[l].usage # NoTokens /\ s[l].shape = "event"
  BY LastReport, ReplyParts
<1>2. \A i \in 1..n : i \notin Reports(s) => s[i].usage = NoTokens
  BY ReportsFacts
<1>3. \A k \in 1..n : r[k] = Collect(r[k - 1], s[k])
  BY TextFacts
<1> HIDE DEF l, n, r
<1>4. ASSUME NEW k \in 1..n
      PROVE  r[k].usage = IF s[k].shape = "event" /\ s[k].usage # NoTokens THEN s[k].usage ELSE r[k - 1].usage
  <2>1. r[k] = Collect(r[k - 1], s[k])
    BY <1>3
  <2>2. CASE s[k].shape # "event"
    BY <2>1, <2>2 DEF Collect
  <2>3. CASE s[k].shape = "event"
    <3> DEFINE thinking == r[k - 1].thinking \o s[k].thinking
               content == r[k - 1].content \o s[k].content
               calls == FoldLeft(RecordGathers, r[k - 1].calls, s[k].calls)
               usage == IF s[k].usage # NoTokens THEN s[k].usage ELSE r[k - 1].usage
    <3>1. r[k] = [found |-> TRUE, thinking |-> thinking, content |-> content,
                  calls |-> calls, usage |-> usage]
      BY <2>1, <2>3, Zenon DEF Collect
    <3> HIDE DEF thinking, content, calls, usage
    <3>2. r[k].usage = usage
      BY <3>1
    <3> QED
      BY <2>3, <3>2 DEF usage
  <2> QED
    BY <2>2, <2>3
<1>5. l \in S
  BY <1>1, <1>4
<1>6. ASSUME NEW k \in l..(n - 1), k \in S PROVE k + 1 \in S
  <2>1. k + 1 \in 1..n /\ (k + 1) - 1 = k /\ k + 1 \in l..n
    BY <1>1
  <2>2. k + 1 \notin Reports(s)
    BY <1>1, <2>1
  <2>3. s[k + 1].usage = NoTokens
    BY <1>2, <2>1, <2>2
  <2>4. r[k + 1].usage = r[k].usage
    BY <1>4, <2>1, <2>3
  <2> QED
    BY <1>6, <2>1, <2>4
<1> HIDE DEF S
<1>7. l \in Int /\ n \in Int /\ n \in l..n
  BY <1>1
<1>8. l..n \subseteq S
  BY <1>5, <1>6, <1>7, Climb
<1> QED
  BY <1>7, <1>8 DEF S, l, n, r

-----------------------------------------------------------------------------
(* The invariant of a stream.                                              *)

\* What the proxy counts and what it writes down of a whole reply.
TokensOf(s) ==
  LET reports == {i \in Reports(s) : 2 * i > 2 * Len(s) - TailLimit}
  IN  IF reports = {} THEN ZeroTokens ELSE ReportOf(s[Max(reports)])

UnitsOf(s) == IF 2 * Len(s) <= BodyLimit THEN 2 * Len(s) ELSE BodyLimit

RecordOf(s) ==
  LET text == TextUpTo(s)[UnitsOf(s) \div 2]
  IN  IF text.found
      THEN [form |-> "assembled", thinking |-> text.thinking, content |-> text.content,
            calls |-> ById(text.calls), usage |-> text.usage]
      ELSE [form |-> "raw", units |-> Stretch(0, UnitsOf(s))]

\* What the chat has of the text of its lines.
AnswerOf(text) ==
  [thinking |-> text.thinking, content |-> text.content, calls |-> text.calls, usage |-> text.usage]

\* The chat's answer is what its lines say, and all of them when it is done; what the proxy
\* counts and writes down in the end is what was kept.
StreamInv ==
  /\ reply \in Replies /\ heard \in 0..Len(reply)
  /\ relay \in {"streaming", "ended", "failed", "left"}
  /\ chat \in {"reading", "done", "failed", "left"}
  /\ Kept
  /\ answer = AnswerOf(TextUpTo(reply)[heard])
  /\ chat = "done" => heard = Len(reply)
  /\ relay = "ended" =>
       /\ relayed = Size /\ counted = TokensOf(reply)
       /\ logged.text = RecordOf(reply) /\ (logged.shortened <=> Size > BodyLimit)

LEMMA StreamInitInv == StreamInit => StreamInv
<1> SUFFICES ASSUME StreamInit PROVE StreamInv
  OBVIOUS
<1>1. Len(reply) \in Nat \ {0} /\ Size \in Nat /\ BodyLimit \in Nat /\ TailLimit \in Nat
  BY ReplyParts, StreamAssumption DEF StreamInit, Size
<1>2. Kept
  <2>1. 0 - 0 = 0 /\ 1..0 = {} /\ 0 \in Nat
    OBVIOUS
  <2>2. Stretch(0, 0) = <<>>
    <3>1. Stretch(0, 0) \in Seq(Nat) /\ Len(Stretch(0, 0)) = 0
      <4>1. Stretch(0, 0) \in [1..0 -> Nat]
        BY <2>1 DEF Stretch
      <4> QED
        BY <4>1
    <3> QED
      BY <3>1
  <2>3. Len(tail) = 0 /\ relayed = 0 /\ captured = <<>> /\ tail = <<>>
    BY DEF StreamInit
  <2>4. (IF relayed <= BodyLimit THEN relayed ELSE BodyLimit) = 0 /\ relayed - Len(tail) = 0
    BY <1>1, <2>3
  <2>5. captured = Stretch(0, IF relayed <= BodyLimit THEN relayed ELSE BodyLimit)
    BY <2>2, <2>3, <2>4
  <2>6. tail = Stretch(relayed - Len(tail), relayed)
    BY <2>2, <2>3, <2>4
  <2>7. relayed \in 0..Size /\ Len(tail) \in 0..relayed /\ Len(tail) <= 2 * TailLimit /\ Len(tail) = relayed
    BY <1>1, <2>3
  <2> QED
    BY <2>5, <2>6, <2>7 DEF Kept
<1>3. answer = AnswerOf(TextUpTo(reply)[heard])
  BY TextFacts DEF StreamInit, NoAnswer, NoText, AnswerOf
<1> QED
  BY <1>1, <1>2, <1>3 DEF StreamInit, StreamInv

LEMMA HearKeeps == StreamInv /\ HearLine => StreamInv'
<1> SUFFICES ASSUME StreamInv, HearLine PROVE StreamInv'
  OBVIOUS
<1> DEFINE k == heard + 1
           line == reply[k]
           text == TextUpTo(reply)[heard]
<1>1. Len(reply) \in Nat /\ heard \in Nat /\ k \in 1..Len(reply) /\ k - 1 = heard
  <2>1. Len(reply) \in Nat /\ relayed \in Nat /\ heard \in Nat /\ relayed <= 2 * Len(reply)
    BY ReplyParts DEF StreamInv, Kept, Size
  <2>2. 2 * (heard + 1) <= relayed
    BY DEF HearLine
  <2> QED
    BY <2>1, <2>2
<1>2. reply \in Replies /\ DOMAIN reply = 1..Len(reply) /\ line \in Line /\ text \in TextOf(reply)
  BY <1>1, ReplyParts, TextFacts DEF StreamInv
<1>3. TextUpTo(reply)[k] = Collect(text, line)
  BY <1>1, <1>2, TextFacts
<1>4. chat = "reading" /\ answer = AnswerOf(text)
  BY DEF HearLine, StreamInv
<1>5. answer' = AnswerOf(TextUpTo(reply)[k]) /\ chat' \in {"reading", "done"}
      /\ (chat' = "done" => k = Len(reply))
  <2>1. CASE line.shape = "done"
    <3>1. answer' = answer /\ chat' = "done"
      BY <2>1 DEF HearLine
    <3>2. k = Len(reply)
      <4>1. WellFormed(reply)
        BY <1>2, ReplyParts
      <4> QED
        BY <1>1, <1>2, <2>1, <4>1, Zenon DEF WellFormed
    <3> QED
      BY <1>3, <1>4, <2>1, <3>1, <3>2 DEF Collect
  <2>2. CASE line.shape = "event"
    <3>1. answer' = Hear(line) /\ chat' = chat
      BY <2>2 DEF HearLine
    <3>2. /\ answer.thinking = text.thinking /\ answer.content = text.content
          /\ answer.calls = text.calls /\ answer.usage = text.usage
      BY <1>4 DEF AnswerOf
    <3>3. FoldLeft(ChatGathers, text.calls, line.calls) = FoldLeft(RecordGathers, text.calls, line.calls)
      BY <1>1, <1>2, LineGathers DEF TextOf
    <3> DEFINE chats == FoldLeft(ChatGathers, text.calls, line.calls)
               records == FoldLeft(RecordGathers, text.calls, line.calls)
               usage == IF line.usage # NoTokens THEN line.usage ELSE text.usage
    <3>4. Hear(line) = [thinking |-> text.thinking \o line.thinking, content |-> text.content \o line.content,
                        calls |-> chats, usage |-> usage]
      BY <3>2, Zenon DEF Hear
    <3>5. Collect(text, line)
            = [found |-> TRUE, thinking |-> text.thinking \o line.thinking,
               content |-> text.content \o line.content, calls |-> records, usage |-> usage]
      BY <2>2, Zenon DEF Collect
    <3> HIDE DEF chats, records, usage, text, line
    <3>6. chats = records
      BY <3>3 DEF chats, records
    <3>7. AnswerOf(Collect(text, line)) = Hear(line)
      BY <3>4, <3>5, <3>6 DEF AnswerOf
    <3> QED
      BY <1>3, <1>4, <3>1, <3>7
  <2>3. CASE line.shape \notin {"done", "event"}
    <3>1. answer' = answer /\ chat' = chat
      BY <2>3 DEF HearLine
    <3> QED
      BY <1>3, <1>4, <2>3, <3>1 DEF Collect
  <2> QED
    BY <2>1, <2>2, <2>3
<1>6. /\ UNCHANGED <<reply, relayed, captured, tail, relay, counted, logged>> /\ heard' = k
  BY DEF HearLine
<1>7. Kept'
  BY <1>6 DEF StreamInv, Kept, Size
<1>8. heard' \in 0..Len(reply')
  BY <1>1, <1>6
<1>9. answer' = AnswerOf(TextUpTo(reply')[heard'])
  BY <1>5, <1>6
<1>10. relay' = "ended" =>
         /\ relayed' = Size' /\ counted' = TokensOf(reply')
         /\ logged'.text = RecordOf(reply') /\ (logged'.shortened <=> Size' > BodyLimit)
  BY <1>6 DEF StreamInv, Size
<1> HIDE DEF k
<1> QED
  BY <1>5, <1>6, <1>7, <1>8, <1>9, <1>10 DEF StreamInv

LEMMA StreamEndKeeps == StreamInv /\ StreamEnds => StreamInv'
<1> SUFFICES ASSUME StreamInv, StreamEnds PROVE StreamInv'
  OBVIOUS
<1>1. /\ relayed = Size /\ relay' = "ended" /\ counted' = RecordUsage(LastUnits(tail, TailLimit))
      /\ logged' = Recorded(captured, relayed, counted')
      /\ UNCHANGED <<reply, relayed, captured, tail, chat, heard, answer>>
  BY DEF StreamEnds
<1>2. /\ reply \in Replies /\ Len(reply) \in Nat /\ Size = 2 * Len(reply) /\ Size \in Nat
      /\ BodyLimit \in Nat \ {0} /\ TailLimit \in Nat \ {0}
  BY ReplyParts, StreamAssumption DEF StreamInv, Size
<1>3. counted' = TokensOf(reply)
  <2> DEFINE t == Len(tail)
             few == IF TailLimit <= t THEN TailLimit ELSE t
             a == Size - few
             from == Size - t
             lo == t - few + 1
  <2>1. /\ t \in Nat /\ t <= Size /\ (t = Size \/ t >= TailLimit)
        /\ tail = Stretch(from, Size)
    BY <1>1, <1>2 DEF StreamInv, Kept
  <2>2. Min({TailLimit, t}) = few
    <3>1. TailLimit \in Int /\ t \in Int
      BY <1>2, <2>1
    <3> HIDE DEF t
    <3> QED
      BY <3>1, LesserOf
  <2>3. LastUnits(tail, TailLimit) = SubSeq(tail, lo, t)
    <3>1. LastUnits(tail, TailLimit) = SubSeq(tail, t - Min({TailLimit, t}) + 1, t)
      BY Zenon DEF LastUnits
    <3> HIDE DEF t, few
    <3> QED
      BY <2>2, <3>1
  <2>4. /\ from \in Nat /\ from <= Size /\ lo \in Nat \ {0} /\ lo - 1 <= t /\ t <= Size - from
        /\ from + lo - 1 = a /\ from + t = Size /\ a \in Nat /\ a <= Size
    <3>1. few \in Nat /\ few <= t
      BY <1>2, <2>1
    <3> HIDE DEF few, t
    <3> QED
      BY <1>2, <2>1, <3>1
  <2>5. LastUnits(tail, TailLimit) = Stretch(a, Size)
    <3> DEFINE b == Size
    <3>1. /\ b \in Nat /\ from \in Nat /\ from <= b /\ lo \in Nat \ {0} /\ t \in Nat /\ lo - 1 <= t
          /\ t <= b - from
      BY <1>2, <2>1, <2>4
    <3>2. b = Size
      OBVIOUS
    <3> HIDE DEF b, from, t, lo
    <3>3. SubSeq(Stretch(from, b), lo, t) = Stretch(from + lo - 1, from + t)
      BY <3>1, StretchParts, ZenonT(60)
    <3> QED
      BY <2>1, <2>3, <2>4, <3>2, <3>3
  <2> DEFINE reports == {i \in Reports(reply) : 2 * i > a}
  <2>6. counted' = IF reports = {} THEN ZeroTokens ELSE ReportOf(reply[Max(reports)])
    <3> HIDE DEF a
    <3>1. RecordUsage(Stretch(a, Size)) = IF reports = {} THEN ZeroTokens ELSE ReportOf(reply[Max(reports)])
      BY <1>2, <2>4, UsageFound
    <3> HIDE DEF reports
    <3> QED
      BY <1>1, <2>5, <3>1
  <2>7. reports = {i \in Reports(reply) : 2 * i > 2 * Len(reply) - TailLimit}
    <3>1. \A i \in Reports(reply) : i \in Nat \ {0}
      BY ReportsFacts, <1>2
    <3>2. \A i \in Nat \ {0} : 2 * i > a <=> 2 * i > 2 * Len(reply) - TailLimit
      <4>1. few = TailLimit \/ (few = Size /\ Size <= TailLimit)
        BY <1>2, <2>1
      <4>2. CASE few = TailLimit
        <5>1. a = 2 * Len(reply) - TailLimit
          BY <1>2, <4>2
        <5> HIDE DEF a
        <5> QED
          BY <5>1
      <4>3. CASE few = Size /\ Size <= TailLimit
        <5>1. a = 0 /\ 2 * Len(reply) - TailLimit <= 0 /\ 2 * Len(reply) - TailLimit \in Int
          BY <1>2, <4>3
        <5> HIDE DEF a
        <5> QED
          BY <5>1
      <4> QED
        BY <4>1, <4>2, <4>3
    <3> HIDE DEF a
    <3> QED
      BY <3>1, <3>2
  <2> HIDE DEF reports
  <2> QED
    BY <2>6, <2>7, Zenon DEF TokensOf
<1>4. logged'.text = RecordOf(reply) /\ (logged'.shortened <=> Size > BodyLimit)
  <2> DEFINE c == UnitsOf(reply)
             text == TextUpTo(reply)[c \div 2]
  <2>1. c \in Nat /\ c <= Size /\ captured = Stretch(0, c) /\ (Size > c <=> Size > BodyLimit)
    BY <1>1, <1>2 DEF StreamInv, Kept, UnitsOf
  <2>2. Len(captured) = c
    <3> DEFINE zero == 0
    <3>1. zero \in Nat /\ zero <= c /\ c - zero = c /\ zero = 0
      BY <2>1
    <3> HIDE DEF c, zero
    <3>2. Len(Stretch(zero, c)) = c - zero
      BY <2>1, <3>1, StretchFacts
    <3> QED
      BY <2>1, <3>1, <3>2
  <2>3. logged' = [form |-> "record", text |-> Assemble(captured), tokens |-> counted',
                   shortened |-> Size > Len(captured)]
    BY <1>1 DEF Recorded
  <2>4. logged'.text = Assemble(captured) /\ (logged'.shortened <=> Size > Len(captured))
    <3> DEFINE short == Size > Len(captured)
               what == Assemble(captured)
    <3>1. logged' = [form |-> "record", text |-> what, tokens |-> counted', shortened |-> short]
      BY <2>3
    <3> HIDE DEF short, what
    <3>2. logged'.text = what /\ logged'.shortened = short
      BY <3>1
    <3> QED
      BY <3>2, Zenon DEF short, what
  <2>5. FoldLeft(Collect, NoText, Intact(captured)) = text
    <3> HIDE DEF c
    <3>1. c \div 2 \in 0..Len(reply) /\ Intact(Stretch(0, c)) = SubSeq(reply, 1, c \div 2)
      BY <1>2, <2>1, FirstLines
    <3>2. FoldLeft(Collect, NoText, SubSeq(reply, 1, c \div 2)) = TextUpTo(reply)[c \div 2]
      BY <1>2, <3>1, TextOfPart
    <3>3. Intact(captured) = SubSeq(reply, 1, c \div 2)
      BY <2>1, <3>1
    <3> QED
      BY <3>2, <3>3, Zenon
  <2>6. Assemble(captured) = RecordOf(reply)
    <3>1. Assemble(captured)
            = LET it == FoldLeft(Collect, NoText, Intact(captured))
              IN  IF it.found
                  THEN [form |-> "assembled", thinking |-> it.thinking, content |-> it.content,
                        calls |-> ById(it.calls), usage |-> it.usage]
                  ELSE [form |-> "raw", units |-> captured]
      BY Zenon DEF Assemble
    <3>2. captured = Stretch(0, UnitsOf(reply))
      BY <2>1
    <3> QED
      BY <2>5, <3>1, <3>2, Zenon DEF RecordOf
  <2> QED
    BY <2>1, <2>2, <2>4, <2>6
<1>5. Kept'
  BY <1>1 DEF StreamInv, Kept, Size
<1>6. answer' = AnswerOf(TextUpTo(reply')[heard'])
  BY <1>1 DEF StreamInv
<1>7. relayed' = Size' /\ counted' = TokensOf(reply')
      /\ logged'.text = RecordOf(reply') /\ (logged'.shortened <=> Size' > BodyLimit)
  BY <1>1, <1>3, <1>4 DEF Size
<1> QED
  BY <1>1, <1>5, <1>6, <1>7 DEF StreamInv

LEMMA StreamStep == StreamInv /\ [StreamNext]_streamVars => StreamInv'
<1> SUFFICES ASSUME StreamInv, [StreamNext]_streamVars PROVE StreamInv'
  OBVIOUS
<1>1. CASE UNCHANGED streamVars
  <2>1. UNCHANGED <<reply, relayed, captured, tail, relay, counted, logged, chat, heard, answer>>
    BY <1>1 DEF streamVars
  <2>2. Kept'
    BY <2>1 DEF StreamInv, Kept, Size
  <2> QED
    BY <2>1, <2>2 DEF StreamInv, Size
<1>2. CASE ForwardChunk
  <2>1. UNCHANGED <<reply, relay, counted, logged, chat, heard, answer>> /\ relay = "streaming"
    BY <1>2 DEF ForwardChunk
  <2>2. Kept'
    BY <1>2, ForwardKeeps DEF StreamInv
  <2> QED
    BY <2>1, <2>2 DEF StreamInv
<1>3. CASE HearEnd
  <2>1. UNCHANGED <<reply, relayed, captured, tail, relay, counted, logged, heard, answer>>
    BY <1>3 DEF HearEnd
  <2>2. Kept'
    BY <2>1 DEF StreamInv, Kept, Size
  <2>3. chat' \in {"done", "failed"} /\ (chat' = "done" => heard = Len(reply))
    <3>1. CASE chat' = "failed"
      BY <3>1
    <3>2. CASE relay = "ended" /\ chat' = "done"
      <4>1. relayed = Size /\ Size = 2 * Len(reply) /\ Len(reply) \in Nat /\ heard \in 0..Len(reply)
        BY <3>2, ReplyParts DEF StreamInv, Size
      <4>2. relayed < 2 * (heard + 1)
        BY <1>3 DEF HearEnd
      <4> QED
        BY <3>2, <4>1, <4>2
    <3> QED
      BY <1>3, <3>1, <3>2 DEF HearEnd
  <2> QED
    BY <2>1, <2>2, <2>3 DEF StreamInv, Size
<1>4. CASE StopReading
  <2>1. UNCHANGED <<reply, relayed, captured, tail, relay, counted, logged, heard, answer>> /\ chat' = "left"
    BY <1>4 DEF StopReading
  <2>2. Kept'
    BY <2>1 DEF StreamInv, Kept, Size
  <2> QED
    BY <2>1, <2>2 DEF StreamInv, Size
<1>5. CASE StreamAbandoned
  <2>1. /\ UNCHANGED <<reply, relayed, captured, tail, counted, logged, chat, heard, answer>>
        /\ relay' \in {"failed", "left"}
    BY <1>5 DEF StreamAbandoned
  <2>2. Kept'
    BY <2>1 DEF StreamInv, Kept, Size
  <2> QED
    BY <2>1, <2>2 DEF StreamInv, Size
<1> QED
  BY <1>1, <1>2, <1>3, <1>4, <1>5, HearKeeps, StreamEndKeeps DEF StreamNext

-----------------------------------------------------------------------------
(* What follows from it.                                                   *)

LEMMA StreamFollows == StreamInv => StreamTypeOK
<1> SUFFICES ASSUME StreamInv PROVE StreamTypeOK
  OBVIOUS
<1>1. /\ relayed \in Nat /\ BodyLimit \in Nat /\ TailLimit \in Nat /\ Len(tail) \in Nat
      /\ Len(tail) <= relayed /\ Len(tail) <= 2 * TailLimit
  BY StreamAssumption, ReplyParts DEF StreamInv, Kept, Size
<1> DEFINE c == IF relayed <= BodyLimit THEN relayed ELSE BodyLimit
           from == relayed - Len(tail)
           zero == 0
<1>2. /\ c \in Nat /\ c <= relayed /\ c <= BodyLimit /\ zero \in Nat /\ zero <= c /\ zero = 0
      /\ from \in Nat /\ from <= relayed
  BY <1>1
<1>3. captured = Stretch(zero, c) /\ tail = Stretch(from, relayed)
  BY DEF StreamInv, Kept
<1> HIDE DEF c, from, zero
<1>4. ToSet(captured) = (zero + 1)..c /\ Len(captured) = c - zero
  BY <1>2, <1>3, StretchFacts
<1>5. ToSet(tail) = (from + 1)..relayed
  BY <1>1, <1>2, <1>3, StretchFacts
<1>6. ToSet(captured) \cup ToSet(tail) \subseteq 1..relayed /\ Len(captured) <= BodyLimit
  BY <1>1, <1>2, <1>4, <1>5
<1> QED
  BY <1>1, <1>6 DEF StreamInv, StreamTypeOK, Kept

LEMMA StreamFaithful == StreamInv => RecordIsFaithful
<1> SUFFICES ASSUME StreamInv, relay = "ended" PROVE RecordIsFaithful
  BY DEF RecordIsFaithful
<1> DEFINE n == Len(reply)
           k == UnitsOf(reply) \div 2
           part == TextUpTo(reply)[k]
           full == TextUpTo(reply)[n]
           text == logged.text
           calls == ById(answer.calls)
<1>1. /\ reply \in Replies /\ n \in Nat /\ Size = 2 * n /\ BodyLimit \in Nat
      /\ k \in 0..n /\ n \in k..n /\ n \in 0..n /\ (Size <= BodyLimit => k = n)
  <2>1. reply \in Replies /\ n \in Nat /\ Size = 2 * n /\ BodyLimit \in Nat
    BY ReplyParts, StreamAssumption DEF StreamInv, Size
  <2>2. UnitsOf(reply) = IF 2 * n <= BodyLimit THEN 2 * n ELSE BodyLimit
    BY DEF UnitsOf
  <2> HIDE DEF n
  <2>3. k \in 0..n /\ (2 * n <= BodyLimit => k = n)
    BY <2>1, <2>2
  <2> HIDE DEF k
  <2> QED
    BY <2>1, <2>3
<1>2. text = RecordOf(reply) /\ (logged.shortened <=> Size > BodyLimit)
  BY DEF StreamInv
<1> HIDE DEF n, k
<1>3. part \in TextOf(reply) /\ full \in TextOf(reply) /\ Longer(part, full)
  BY <1>1, TextFacts, TextGrows DEF n
<1>4. chat = "done" => answer = AnswerOf(full)
  BY DEF StreamInv, n
<1> HIDE DEF part, full
<1>5. text = IF part.found
             THEN [form |-> "assembled", thinking |-> part.thinking, content |-> part.content,
                   calls |-> ById(part.calls), usage |-> part.usage]
             ELSE [form |-> "raw", units |-> Stretch(0, UnitsOf(reply))]
  BY <1>2, Zenon DEF RecordOf, part, k
<1>6. AnswerOf(full).thinking = full.thinking /\ AnswerOf(full).content = full.content
      /\ AnswerOf(full).calls = full.calls /\ AnswerOf(full).usage = full.usage
  BY DEF AnswerOf
<1>7. ASSUME chat = "done", answer # NoAnswer, ~logged.shortened
      PROVE  text = [form |-> "assembled", thinking |-> answer.thinking,
                     content |-> answer.content, calls |-> calls, usage |-> answer.usage]
  <2>1. part = full
    <3>1. k = n
      BY <1>1, <1>2, <1>7
    <3> QED
      BY <3>1 DEF part, full
  <2>2. part.found
    <3>1. ASSUME ~part.found PROVE FALSE
      <4>1. full = NoText
        BY <1>3, <2>1, <3>1 DEF TextOf
      <4>2. AnswerOf(NoText) = NoAnswer
        BY DEF AnswerOf, NoText, NoAnswer
      <4> QED
        BY <1>4, <1>7, <4>1, <4>2
    <3> QED
      BY <3>1
  <2> QED
    BY <1>4, <1>5, <1>6, <1>7, <2>1, <2>2, Zenon
<1>8. ASSUME chat = "done", text.form = "assembled"
      PROVE  /\ IsPrefix(text.thinking, answer.thinking) /\ IsPrefix(text.content, answer.content)
             /\ \A i \in DOMAIN text.calls : \E j \in DOMAIN calls :
                  /\ text.calls[i].index = calls[j].index /\ text.calls[i].id \in {0, calls[j].id}
                  /\ IsPrefix(text.calls[i].args, calls[j].args)
  <2>1. part.found
    BY <1>5, <1>8
  <2>2. text.thinking = part.thinking /\ text.content = part.content /\ text.calls = ById(part.calls)
    <3> DEFINE sorted == ById(part.calls)
    <3>1. text = [form |-> "assembled", thinking |-> part.thinking, content |-> part.content,
                  calls |-> sorted, usage |-> part.usage]
      BY <1>5, <2>1
    <3> HIDE DEF text, sorted
    <3>2. text.thinking = part.thinking /\ text.content = part.content /\ text.calls = sorted
      BY <3>1
    <3> QED
      BY <3>2 DEF sorted
  <2>3. answer.thinking = full.thinking /\ answer.content = full.content /\ answer.calls = full.calls
    BY <1>4, <1>6, <1>8
  <2>4. part.calls \in Seq(Call) /\ full.calls \in Seq(Call) /\ Grown(part.calls, full.calls)
    BY <1>3 DEF TextOf, CallsOf, Longer
  <2>5. ASSUME NEW i \in DOMAIN text.calls
        PROVE  \E j \in DOMAIN calls :
                 /\ text.calls[i].index = calls[j].index /\ text.calls[i].id \in {0, calls[j].id}
                 /\ IsPrefix(text.calls[i].args, calls[j].args)
    <3>1. i \in 1..Len(part.calls)
      BY <2>2, <2>4, ByIdFacts
    <3>2. PICK p \in 1..Len(part.calls) : ById(part.calls)[i] = part.calls[p]
      BY <2>4, <3>1, ByIdFacts
    <3>3. /\ full.calls[p].index = part.calls[p].index /\ part.calls[p].id \in {0, full.calls[p].id}
          /\ IsPrefix(part.calls[p].args, full.calls[p].args) /\ p \in 1..Len(full.calls)
      BY <2>4, <3>2 DEF Grown
    <3>4. PICK j \in 1..Len(full.calls) : ById(full.calls)[j] = full.calls[p]
      BY <2>4, <3>3, ByIdFacts
    <3>5. calls = ById(full.calls) /\ DOMAIN ById(full.calls) = 1..Len(full.calls)
      BY <2>3, <2>4, ByIdFacts
    <3>6. j \in DOMAIN calls /\ calls[j] = full.calls[p]
      BY <3>4, <3>5
    <3>7. text.calls[i] = part.calls[p]
      <4> HIDE DEF text
      <4> QED
        BY <2>2, <3>2
    <3> QED
      BY <3>3, <3>6, <3>7
  <2> QED
    BY <1>3, <2>2, <2>3, <2>5 DEF Longer
<1> QED
  BY <1>2, <1>7, <1>8 DEF RecordIsFaithful

LEMMA StreamTokens == StreamInv => TokensAreTheLast
<1> SUFFICES ASSUME StreamInv, relay = "ended" PROVE TokensAreTheLast
  BY DEF TokensAreTheLast
<1> DEFINE n == Len(reply)
           a == 2 * n - TailLimit
           reports == {i \in Reports(reply) : 2 * i > a}
           last == reply[Max(reports)]
<1>1. reply \in Replies /\ n \in Nat /\ Size = 2 * n /\ a \in Int
  BY ReplyParts, StreamAssumption DEF StreamInv, Size
<1>2. counted = IF reports = {} THEN ZeroTokens ELSE ReportOf(last)
  BY DEF StreamInv, TokensOf
<1>3. ASSUME reports # {}, chat = "done", last.usage # NoTokens, last.shape = "event"
      PROVE  answer.usage = counted
  <2>1. Max(reports) = Max(Reports(reply)) /\ Reports(reply) # {}
    <3>1. Max(reports) = Max(Reports(reply))
      <4> HIDE DEF a
      <4> QED
        BY <1>1, <1>3, LateReports, Zenon
    <3> QED
      BY <1>3, <3>1
  <2>2. last = reply[Max(Reports(reply))]
    BY <2>1
  <2>3. TextUpTo(reply)[n].usage = last.usage
    BY <1>1, <1>3, <2>1, <2>2, UsageRead
  <2>4. answer.usage = TextUpTo(reply)[n].usage
    BY <1>3 DEF StreamInv, AnswerOf
  <2>5. counted = last.usage
    BY <1>2, <1>3 DEF ReportOf
  <2> QED
    BY <2>3, <2>4, <2>5
<1>4. reports = {i \in Reports(reply) : 2 * i > Size - TailLimit}
  BY <1>1
<1> HIDE DEF reports
<1> QED
  BY <1>2, <1>3, <1>4, Zenon DEF TokensAreTheLast

\* The record of a reply is what the chat made of it, or the beginning of that, and the tokens
\* counted are those the reply reported last, for any replies, limits and chunks.
THEOREM RepliesAreReadAlike == StreamSpec => [](RecordIsFaithful /\ TokensAreTheLast)
<1>1. StreamInit => StreamInv
  BY StreamInitInv
<1>2. StreamInv /\ [StreamNext]_streamVars => StreamInv'
  BY StreamStep
<1>3. StreamInv => RecordIsFaithful /\ TokensAreTheLast
  BY StreamFaithful, StreamTokens
<1> QED
  BY <1>1, <1>2, <1>3, PTL DEF StreamSpec
=============================================================================
