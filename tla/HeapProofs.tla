---------------------------- MODULE HeapProofs ----------------------------
(***************************************************************************)
(* The heap of internal/queue/heap.go under container/heap, for slices of  *)
(* every length, all keys and ties: heap.Push and heap.Pop keep the heap   *)
(* order, lose and double no entry, and the root has the least key.        *)
(*                                                                         *)
(* Both are loops, so the facts about them are inductions over the rounds. *)
(* They rest on the least element of a set of naturals, in the form of     *)
(* NatSet (a set that holds 0 and with n also n + 1 holds all naturals),   *)
(* which unlike the induction rule has no operator as a parameter.         *)
(***************************************************************************)
EXTENDS Heap, FiniteSetTheorems, NaturalsInduction, TLAPS

\* Leaves are for Zenon unless they name another prover: SMT for arithmetic,
\* sequences and function updates, PTL for temporal steps.
USE Zenon

\* Every set of naturals that is not empty has a least element.
LEMMA LeastNat ==
    ASSUME NEW T, T \subseteq Nat, T # {}
    PROVE  \E x \in T : \A y \in T : x <= y
<1> DEFINE Below == {q \in Nat \X Nat : q[1] < q[2]}
<1>1. OpToRel(<, Nat) = Below
  BY DEF OpToRel
<1>2. IsWellFoundedOn(Below, Nat)
  BY <1>1, NatLessThanWellFounded
<1>3. PICK x \in T : \A y \in T : ~(<<y, x>> \in Below)
  <2> HIDE DEF Below
  <2>1. QED
    BY <1>2, WFMin
<1>4. ASSUME NEW y \in T PROVE x <= y
  <2>1. x \in Nat /\ y \in Nat
    OBVIOUS
  <2>2. ~(<<y, x>> \in Below)
    BY <1>3
  <2>3. QED
    BY SMT, <2>1, <2>2
<1>5. QED
  BY <1>4

\* Induction, for a set.
LEMMA NatSet ==
    ASSUME NEW S, 0 \in S, \A n \in Nat : n \in S => n + 1 \in S
    PROVE  \A n \in Nat : n \in S
<1> SUFFICES ASSUME Nat \ S # {} PROVE FALSE
  OBVIOUS
<1>1. PICK x \in Nat \ S : \A y \in Nat \ S : x <= y
  BY LeastNat
<1>2. x \in Nat /\ x # 0 /\ x - 1 \in Nat /\ ~(x <= x - 1)
  BY SMT, <1>1
<1>3. x - 1 \in S
  BY <1>1, <1>2
<1>4. x - 1 + 1 = x
  BY SMT, <1>2
<1>5. QED
  BY <1>1, <1>2, <1>3, <1>4
---------------------------------------------------------------------------
(***************************************************************************)
(* Rounds is what its recursive definition says.                           *)
(***************************************************************************)

\* g holds the states of the first n rounds.
FirstRounds(loop, s, n, g) ==
    g = [k \in 0 .. n |-> IF k = 0 THEN s ELSE loop[g[k - 1]]]

\* The states of any number of rounds exist, ...
LEMMA RoundsExist ==
    ASSUME NEW loop, NEW s
    PROVE  \A n \in Nat : \E g : FirstRounds(loop, s, n, g)
<1> DEFINE S == {n \in Nat : \E g : FirstRounds(loop, s, n, g)}
<1>1. 0 \in S
  <2> DEFINE g == [k \in 0 .. 0 |-> s]
  <2>1. FirstRounds(loop, s, 0, g)
    BY SMT DEF FirstRounds
  <2>2. QED
    BY <2>1
<1>2. ASSUME NEW n \in Nat, n \in S PROVE n + 1 \in S
  <2>1. PICK g : FirstRounds(loop, s, n, g)
    BY <1>2
  <2> DEFINE f == [k \in 0 .. n + 1 |-> IF k = n + 1 THEN loop[g[n]] ELSE g[k]]
  <2>2. ASSUME NEW k \in 0 .. n + 1
        PROVE  f[k] = IF k = 0 THEN s ELSE loop[f[k - 1]]
    <3>1. CASE k = n + 1
      BY SMT, <3>1
    <3>2. CASE k # n + 1
      <4>1. k \in 0 .. n /\ f[k] = g[k]
        BY SMT, <3>2
      <4>2. g[k] = IF k = 0 THEN s ELSE loop[g[k - 1]]
        BY <2>1, <4>1 DEF FirstRounds
      <4>3. k # 0 => k - 1 \in 0 .. n + 1 /\ k - 1 # n + 1
        BY SMT, <4>1
      <4>4. k # 0 => f[k - 1] = g[k - 1]
        BY <4>3
      <4>5. QED
        BY <4>1, <4>2, <4>4
    <3>3. QED
      BY <3>1, <3>2
  <2>3. FirstRounds(loop, s, n + 1, f)
    <3>1. f = [k \in 0 .. n + 1 |-> f[k]]
      OBVIOUS
    <3> HIDE DEF f
    <3>2. QED
      BY <2>2, <3>1 DEF FirstRounds
  <2>4. QED
    BY SMT, <2>3
<1> HIDE DEF S
<1>3. \A n \in Nat : n \in S
  BY <1>1, <1>2, NatSet
<1>4. QED
  BY <1>3 DEF S

\* ... and agree wherever they are both defined.
LEMMA RoundsAgree ==
    ASSUME NEW loop, NEW s, NEW m \in Nat, NEW n \in Nat, NEW f, NEW g,
           FirstRounds(loop, s, m, f), FirstRounds(loop, s, n, g)
    PROVE  \A k \in Nat : k <= m /\ k <= n => f[k] = g[k]
<1> DEFINE S == {k \in Nat : k <= m /\ k <= n => f[k] = g[k]}
<1>0. /\ \A k \in 0 .. m : f[k] = IF k = 0 THEN s ELSE loop[f[k - 1]]
      /\ \A k \in 0 .. n : g[k] = IF k = 0 THEN s ELSE loop[g[k - 1]]
  BY DEF FirstRounds
<1>1. 0 \in S
  BY SMT, <1>0
<1>2. ASSUME NEW k \in Nat, k \in S PROVE k + 1 \in S
  <2> SUFFICES ASSUME k + 1 <= m, k + 1 <= n PROVE f[k + 1] = g[k + 1]
    BY SMT
  <2>1. f[k] = g[k]
    BY SMT, <1>2
  <2>2. /\ k + 1 \in 0 .. m /\ k + 1 \in 0 .. n
        /\ k + 1 # 0 /\ k + 1 - 1 = k
    BY SMT
  <2>3. f[k + 1] = loop[f[k]] /\ g[k + 1] = loop[g[k]]
    BY SMT, <1>0, <2>2
  <2>4. QED
    BY <2>1, <2>3
<1> HIDE DEF S
<1>3. \A k \in Nat : k \in S
  BY <1>1, <1>2, NatSet
<1>4. QED
  BY <1>3 DEF S

\* Rounds: none leaves the state as it is, and one more is one more step of the loop.
LEMMA RoundsStep ==
    ASSUME NEW loop, NEW s
    PROVE  /\ Rounds(loop, s, 0) = s
           /\ \A n \in Nat : Rounds(loop, s, n + 1) = loop[Rounds(loop, s, n)]
<1> DEFINE G(n) == CHOOSE g : FirstRounds(loop, s, n, g)
           q == [n \in Nat |-> G(n)[n]]
           Eqn(r) == r = [k \in Nat |-> IF k = 0 THEN s ELSE loop[r[k - 1]]]
           R == CHOOSE r : Eqn(r)
<1>1. \A n \in Nat : FirstRounds(loop, s, n, G(n))
  BY RoundsExist
<1> HIDE DEF G
<1>2. ASSUME NEW k \in Nat PROVE q[k] = IF k = 0 THEN s ELSE loop[q[k - 1]]
  <2>1. G(k)[k] = IF k = 0 THEN s ELSE loop[G(k)[k - 1]]
    BY SMT, <1>1 DEF FirstRounds
  <2>2. ASSUME k # 0 PROVE G(k)[k - 1] = G(k - 1)[k - 1]
    <3>1. k - 1 \in Nat /\ k - 1 <= k /\ k - 1 <= k - 1
      BY SMT, <2>2
    <3>2. FirstRounds(loop, s, k, G(k)) /\ FirstRounds(loop, s, k - 1, G(k - 1))
      BY <1>1, <3>1
    <3>3. QED
      BY SMT, <3>1, <3>2, RoundsAgree
  <2>3. k # 0 => k - 1 \in Nat
    BY SMT
  <2>4. QED
    BY <2>1, <2>2, <2>3
<1>3. Eqn(q)
  <2>1. q = [k \in Nat |-> q[k]]
    OBVIOUS
  <2> HIDE DEF q
  <2>2. QED
    BY <1>2, <2>1
<1> HIDE DEF q
<1>4. Eqn(R)
  <2> HIDE DEF Eqn
  <2>1. QED
    BY <1>3
<1>5. \A n : Rounds(loop, s, n) = R[n]
  BY DEF Rounds
<1> HIDE DEF R
<1>6. R[0] = s /\ \A n \in Nat : R[n + 1] = loop[R[n]]
  <2>1. \A k \in Nat : R[k] = IF k = 0 THEN s ELSE loop[R[k - 1]]
    BY <1>4
  <2>2. ASSUME NEW n \in Nat PROVE R[n + 1] = loop[R[n]]
    <3>1. n + 1 \in Nat /\ n + 1 # 0 /\ n + 1 - 1 = n
      BY SMT
    <3>2. QED
      BY SMT, <2>1, <3>1
  <2>3. QED
    BY <2>1, <2>2
<1>7. QED
  BY <1>5, <1>6

\* What a loop keeps from one round to the next it keeps over all of them.
LEMMA RoundsKeep ==
    ASSUME NEW loop, NEW s, NEW I, s \in I, \A t \in I : loop[t] \in I
    PROVE  \A n \in Nat : Rounds(loop, s, n) \in I
<1> DEFINE S == {n \in Nat : Rounds(loop, s, n) \in I}
<1>1. 0 \in S
  BY RoundsStep
<1>2. ASSUME NEW n \in Nat, n \in S PROVE n + 1 \in S
  <2>1. Rounds(loop, s, n) \in I
    BY <1>2
  <2>2. Rounds(loop, s, n + 1) = loop[Rounds(loop, s, n)]
    BY ZenonT(60), RoundsStep
  <2>3. QED
    BY SMT, <2>1, <2>2
<1> HIDE DEF S
<1>3. \A n \in Nat : n \in S
  BY <1>1, <1>2, NatSet
<1>4. QED
  BY <1>3 DEF S
---------------------------------------------------------------------------
(***************************************************************************)
(* The entries: Swap, Append and cutting off the last position.            *)
(***************************************************************************)

\* The positions at which a slice holds job v.
At(h, v) == {k \in DOMAIN h : h[k] = v}

\* They are finitely many, and there is one exactly if the slice holds v.
LEMMA CountType ==
    ASSUME NEW h \in Seq(Jobs), NEW v
    PROVE  /\ IsFiniteSet(At(h, v)) /\ Count(h, v) \in Nat
           /\ Count(h, v) = Cardinality(At(h, v))
           /\ Count(h, v) > 0 <=> v \in Contents(h)
<1>1. DOMAIN h = 1 .. Len(h) /\ Len(h) \in Nat
  BY SMT
<1>2. IsFiniteSet(DOMAIN h)
  BY SMT, <1>1, FS_Interval
<1>3. IsFiniteSet(At(h, v))
  BY <1>2, FS_Subset DEF At
<1>4. Count(h, v) = Cardinality(At(h, v))
  BY DEF Count, At
<1>5. Count(h, v) \in Nat
  BY <1>3, <1>4, FS_CardinalityType
<1>6. Count(h, v) = 0 <=> At(h, v) = {}
  BY <1>3, <1>4, FS_EmptySet
<1>7. At(h, v) = {} <=> v \notin Contents(h)
  BY DEF At, Contents
<1>8. QED
  BY SMT, <1>3, <1>4, <1>5, <1>6, <1>7

\* Heap.Swap exchanges two entries.
LEMMA SwapEntries ==
    ASSUME NEW h \in Seq(Jobs), NEW i \in 1 .. Len(h), NEW j \in 1 .. Len(h)
    PROVE  /\ Swap(h, i, j) \in Seq(Jobs) /\ Len(Swap(h, i, j)) = Len(h)
           /\ Swap(h, i, j)[i] = h[j] /\ Swap(h, i, j)[j] = h[i]
           /\ \A k \in 1 .. Len(h) : k # i /\ k # j => Swap(h, i, j)[k] = h[k]
<1>1. h \in [1 .. Len(h) -> Jobs] /\ Len(h) \in Nat
  BY SMT
<1>2. Swap(h, i, j) \in [1 .. Len(h) -> Jobs]
  BY <1>1 DEF Swap
<1>3. Swap(h, i, j) \in Seq(Jobs) /\ Len(Swap(h, i, j)) = Len(h)
  BY SMT, <1>1, <1>2
<1>4. QED
  BY <1>1, <1>3 DEF Swap

\* It loses and doubles none.
LEMMA SwapCount ==
    ASSUME NEW h \in Seq(Jobs), NEW i \in 1 .. Len(h), NEW j \in 1 .. Len(h), NEW v
    PROVE  Count(Swap(h, i, j), v) = Count(h, v)
<1> DEFINE g == Swap(h, i, j)
<1>1. /\ g \in Seq(Jobs) /\ Len(g) = Len(h) /\ g[i] = h[j] /\ g[j] = h[i]
      /\ \A k \in 1 .. Len(h) : k # i /\ k # j => g[k] = h[k]
  BY ZenonT(60), SwapEntries
<1> HIDE DEF g
<1>2. DOMAIN g = 1 .. Len(h) /\ DOMAIN h = 1 .. Len(h)
  BY SMT, <1>1
<1>3. /\ Count(g, v) = Cardinality(At(g, v))
      /\ Count(h, v) = Cardinality(At(h, v)) /\ IsFiniteSet(At(h, v))
      /\ Cardinality(At(h, v)) \in Nat
  BY <1>1, CountType
<1>4. CASE (h[i] = v) <=> (h[j] = v)
  <2>1. At(g, v) = At(h, v)
    BY <1>1, <1>2, <1>4 DEF At
  <2>2. QED
    BY <1>3, <2>1 DEF g
\* Position a loses v to position b.
<1>5. ASSUME NEW a \in {i, j}, NEW b \in {i, j}, h[a] = v, h[b] # v
      PROVE  Count(g, v) = Count(h, v)
  <2>1. g[a] = h[b] /\ g[b] = h[a] /\ a # b
    BY <1>1, <1>5
  <2>2. At(g, v) = (At(h, v) \ {a}) \cup {b}
    BY <1>1, <1>2, <1>5, <2>1 DEF At
  <2>3. a \in At(h, v) /\ b \notin At(h, v) \ {a}
    BY <1>2, <1>5 DEF At
  <2>4. IsFiniteSet(At(h, v) \ {a})
        /\ Cardinality(At(h, v) \ {a}) = Cardinality(At(h, v)) - 1
    BY <1>3, <2>3, FS_RemoveElement
  <2>5. Cardinality(At(g, v)) = Cardinality(At(h, v)) - 1 + 1
    BY <2>2, <2>3, <2>4, FS_AddElement
  <2>6. QED
    BY SMT, <1>3, <2>5
<1>6. QED
  BY <1>4, <1>5 DEF g

\* Heap.Push appends.
LEMMA AppendCount ==
    ASSUME NEW h \in Seq(Jobs), NEW x \in Jobs, NEW v
    PROVE  Count(Append(h, x), v) = Count(h, v) + (IF v = x THEN 1 ELSE 0)
<1> DEFINE g == Append(h, x)
           n == Len(h)
<1>1. /\ g \in Seq(Jobs) /\ Len(g) = n + 1 /\ g[n + 1] = x /\ n \in Nat
      /\ \A k \in 1 .. n : g[k] = h[k]
  BY SMT
<1>2. DOMAIN g = 1 .. n + 1 /\ DOMAIN h = 1 .. n
  BY SMT
<1> HIDE DEF g, n
<1>3. /\ Count(g, v) = Cardinality(At(g, v))
      /\ Count(h, v) = Cardinality(At(h, v)) /\ IsFiniteSet(At(h, v))
      /\ Cardinality(At(h, v)) \in Nat
  BY <1>1, CountType
<1>4. 1 .. n + 1 = (1 .. n) \cup {n + 1} /\ n + 1 \notin 1 .. n
  BY SMT, <1>1
<1>5. CASE v = x
  <2>1. At(g, v) = At(h, v) \cup {n + 1} /\ n + 1 \notin At(h, v)
    BY <1>1, <1>2, <1>4, <1>5 DEF At
  <2>2. QED
    <3>1. Cardinality(At(h, v) \cup {n + 1}) = Cardinality(At(h, v)) + 1
      BY <1>3, <2>1, FS_AddElement
    <3>2. QED
      BY SMT, <1>3, <1>5, <2>1, <3>1 DEF g
<1>6. CASE v # x
  <2>1. At(g, v) = At(h, v)
    BY <1>1, <1>2, <1>4, <1>6 DEF At
  <2>2. QED
    BY SMT, <1>3, <1>6, <2>1 DEF g
<1>7. QED
  BY <1>5, <1>6

\* Heap.Pop cuts off the last position.
LEMMA CutLast ==
    ASSUME NEW h \in Seq(Jobs), Len(h) > 0, NEW v
    PROVE  LET t == SubSeq(h, 1, Len(h) - 1) IN
           /\ t \in Seq(Jobs) /\ Len(t) = Len(h) - 1
           /\ \A k \in 1 .. Len(h) - 1 : t[k] = h[k]
           /\ Count(t, v) = Count(h, v) - (IF v = h[Len(h)] THEN 1 ELSE 0)
<1> DEFINE t == SubSeq(h, 1, Len(h) - 1)
           n == Len(h)
<1>1. /\ t \in Seq(Jobs) /\ Len(t) = n - 1 /\ n \in Nat /\ n > 0
      /\ \A k \in 1 .. n - 1 : t[k] = h[k]
  <2>1. n \in Nat /\ n > 0
    BY SMT
  <2>2. t \in Seq(Jobs)
    BY SMT, <2>1
  <2>3. Len(t) = n - 1
    <3>1. CASE n = 1
      BY SMT, <2>1, <3>1
    <3>2. CASE n > 1
      BY SMT, <2>1, <3>2
    <3>3. n = 1 \/ n > 1
      BY SMTT(60), <2>1
    <3>4. QED
      BY <3>1, <3>2, <3>3
  <2>4. \A k \in 1 .. n - 1 : t[k] = h[k]
    BY SMT, <2>1
  <2>5. QED
    BY <2>1, <2>2, <2>3, <2>4
<1>2. DOMAIN t = 1 .. n - 1 /\ DOMAIN h = 1 .. n
  BY SMT, <1>1
<1> HIDE DEF t, n
<1>3. /\ Count(t, v) = Cardinality(At(t, v))
      /\ Count(h, v) = Cardinality(At(h, v)) /\ IsFiniteSet(At(h, v))
      /\ Cardinality(At(h, v)) \in Nat
  BY <1>1, CountType
<1>4. 1 .. n = (1 .. n - 1) \cup {n} /\ n \notin 1 .. n - 1
  BY SMT, <1>1
<1>5. CASE v = h[n]
  <2>1. At(t, v) = At(h, v) \ {n} /\ n \in At(h, v)
    BY <1>1, <1>2, <1>4, <1>5 DEF At
  <2>2. Cardinality(At(t, v)) = Cardinality(At(h, v)) - 1
    BY <1>3, <2>1, FS_RemoveElement
  <2>3. QED
    BY <1>1, <1>3, <1>5, <2>2 DEF t, n
<1>6. CASE v # h[n]
  <2>1. At(t, v) = At(h, v)
    BY <1>1, <1>2, <1>4, <1>6 DEF At
  <2>2. QED
    BY SMT, <1>1, <1>3, <1>6, <2>1 DEF t, n
<1>7. QED
  BY <1>5, <1>6

---------------------------------------------------------------------------
(***************************************************************************)
(* Heap order: no entry of the first n has a smaller key than its parent.  *)
(***************************************************************************)
OrderedTo(h, key, n) == \A k \in 2 .. n : key[h[k \div 2]] <= key[h[k]]

Ordered(h, key) == OrderedTo(h, key, Len(h))

\* Parents and children.
LEMMA Parent ==
    ASSUME NEW k \in Nat, k > 1
    PROVE  k \div 2 \in 1 .. k - 1 /\ k \in {2 * (k \div 2), 2 * (k \div 2) + 1}
  BY SMT

\* The children of a position come after it.
LEMMA Child ==
    ASSUME NEW i \in Nat, i > 0
    PROVE  /\ (2 * i) \div 2 = i /\ (2 * i + 1) \div 2 = i /\ i < 2 * i
           /\ \A k \in Nat : k \div 2 = i => k \in {2 * i, 2 * i + 1}
  BY SMT

\* The root of a heap has the least key.
LEMMA RootLeast ==
    ASSUME NEW h \in Seq(Jobs), NEW key \in [Jobs -> Int], Ordered(h, key)
    PROVE  \A k \in 1 .. Len(h) : key[h[1]] <= key[h[k]]
<1> DEFINE T == {k \in 1 .. Len(h) : ~(key[h[1]] <= key[h[k]])}
<1>0. \A k \in 1 .. Len(h) : h[k] \in Jobs /\ key[h[k]] \in Int
  BY SMT
<1> SUFFICES ASSUME T # {} PROVE FALSE
  OBVIOUS
<1>1. PICK k \in T : \A y \in T : k <= y
  <2>1. T \subseteq Nat
    BY SMT
  <2> HIDE DEF T
  <2>2. QED
    BY <2>1, LeastNat
<1>2. k \in 1 .. Len(h) /\ ~(key[h[1]] <= key[h[k]]) /\ Len(h) \in Nat
  BY SMT
<1>3. k # 1
  BY SMT, <1>0, <1>2
<1>4. k \div 2 \in 1 .. Len(h) /\ ~(k <= k \div 2) /\ k \in 2 .. Len(h)
  BY SMT, <1>2, <1>3, Parent
<1>5. key[h[1]] <= key[h[k \div 2]]
  BY <1>1, <1>4
<1>6. key[h[k \div 2]] <= key[h[k]]
  BY <1>4 DEF Ordered, OrderedTo
<1>7. 1 \in 1 .. Len(h)
  BY SMT, <1>2
<1>8. QED
  BY SMT, <1>0, <1>2, <1>4, <1>5, <1>6, <1>7
---------------------------------------------------------------------------
(***************************************************************************)
(* up.  The order is right but between the moving entry and its parent,    *)
(* and the children of the moving entry are not below that parent.         *)
(***************************************************************************)
UpOrder(h, key, i) ==
    /\ \A k \in 2 .. Len(h) : k # i => key[h[k \div 2]] <= key[h[k]]
    /\ \A k \in 2 .. Len(h) : k \div 2 = i /\ i > 1 => key[h[i \div 2]] <= key[h[k]]

\* Keys are compared as integers.
LEMMA IntOrder ==
    \A a, b, c \in Int : (a <= b \/ a < b) /\ b <= c => a <= c
BY SMT

\* A round of up moves the entry to its parent's position and keeps that.
LEMMA UpRound ==
    ASSUME NEW h \in Seq(Jobs), NEW key \in [Jobs -> Int], NEW i \in 2 .. Len(h),
           UpOrder(h, key, i), key[h[i]] < key[h[i \div 2]]
    PROVE  UpOrder(Swap(h, i \div 2, i), key, i \div 2)
<1> DEFINE p == i \div 2
           g == Swap(h, p, i)
<1>1. /\ i \in 1 .. Len(h) /\ p \in 1 .. Len(h) /\ p < i
      /\ p \in Nat /\ Len(h) \in Nat
  BY SMT, Parent
<1>2. /\ g \in Seq(Jobs) /\ Len(g) = Len(h) /\ g[i] = h[p] /\ g[p] = h[i]
      /\ \A k \in 1 .. Len(h) : k # i /\ k # p => g[k] = h[k]
  BY ZenonT(60), <1>1, SwapEntries
<1>3. \A k \in 1 .. Len(h) : h[k] \in Jobs /\ key[h[k]] \in Int
  BY SMT
<1>4. key[h[i]] < key[h[p]] /\ UpOrder(h, key, i)
  OBVIOUS
<1>5. p > 1 => p \div 2 \in 1 .. Len(h) /\ p \div 2 < p
  BY SMT, <1>1, Parent
<1>6. i \div 2 = p
  OBVIOUS
<1> HIDE DEF p, g
<1>7. ASSUME NEW k \in 2 .. Len(h), k # p PROVE key[g[k \div 2]] <= key[g[k]]
  <2>1. k \div 2 \in 1 .. Len(h) /\ k \div 2 < k /\ k \in 1 .. Len(h)
    BY SMTT(60), <1>1, Parent
  <2>2. CASE k = i
    BY SMTT(60), <1>2, <1>3, <1>4, <1>6, <2>1, <2>2
  <2>3. CASE k # i
    <3>1. g[k] = h[k] /\ key[h[k \div 2]] <= key[h[k]]
      BY <1>2, <1>4, <1>7, <2>1, <2>3 DEF UpOrder
    <3>2. CASE k \div 2 = i
      <4>1. key[h[p]] <= key[h[k]]
        BY SMTT(60), <1>1, <1>4, <1>6, <3>2 DEF UpOrder
      <4>2. QED
        BY <1>2, <3>1, <3>2, <4>1
    <3>3. CASE k \div 2 = p
      <4>1. key[h[i]] \in Int /\ key[h[p]] \in Int /\ key[h[k]] \in Int
        BY <1>1, <1>3, <2>1
      <4>2. key[h[i]] <= key[h[k]]
        BY <1>4, <3>1, <3>3, <4>1, IntOrder
      <4>3. QED
        BY <1>2, <3>1, <3>3, <4>2
    <3>4. CASE k \div 2 # i /\ k \div 2 # p
      BY <1>2, <2>1, <3>1, <3>4
    <3>5. QED
      BY <3>2, <3>3, <3>4
  <2>4. QED
    BY <2>2, <2>3
<1>8. ASSUME NEW k \in 2 .. Len(h), k \div 2 = p, p > 1
      PROVE  key[g[p \div 2]] <= key[g[k]]
  <2>1. g[p \div 2] = h[p \div 2] /\ key[h[p \div 2]] <= key[h[p]]
    BY SMTT(60), <1>1, <1>2, <1>4, <1>5, <1>8 DEF UpOrder
  <2>2. CASE k = i
    BY <1>2, <2>1, <2>2
  <2>3. CASE k # i
    <3>1. k \in 1 .. Len(h) /\ k # p
      BY SMT, <1>1, <1>8, Parent
    <3>2. g[k] = h[k] /\ key[h[p]] <= key[h[k]]
      BY <1>2, <1>4, <1>8, <2>3, <3>1 DEF UpOrder
    <3>3. QED
      <4>1. key[h[p \div 2]] \in Int /\ key[h[p]] \in Int /\ key[h[k]] \in Int
        BY <1>1, <1>3, <1>5, <1>8, <3>1
      <4>2. key[h[p \div 2]] <= key[h[k]]
        BY <2>1, <3>2, <4>1, IntOrder
      <4>3. QED
        BY <2>1, <3>2, <4>2
  <2>4. QED
    BY <2>2, <2>3
<1>9. UpOrder(g, key, p)
  BY <1>2, <1>7, <1>8 DEF UpOrder
<1>10. QED
  BY <1>9 DEF p, g

\* Where up stops the heap is ordered.
LEMMA UpStop ==
    ASSUME NEW h \in Seq(Jobs), NEW key \in [Jobs -> Int], NEW i \in 1 .. Len(h),
           UpOrder(h, key, i), ~(i > 1 /\ key[h[i]] < key[h[i \div 2]])
    PROVE  Ordered(h, key)
<1> SUFFICES ASSUME NEW k \in 2 .. Len(h) PROVE key[h[k \div 2]] <= key[h[k]]
  BY DEF Ordered, OrderedTo
<1>1. CASE k # i
  BY <1>1 DEF UpOrder
<1>2. CASE k = i
  <2>1. k \div 2 \in 1 .. Len(h) /\ k \in 1 .. Len(h) /\ i > 1
    BY SMT, <1>2, Parent
  <2>2. key[h[k]] \in Int /\ key[h[k \div 2]] \in Int
    BY SMT, <2>1
  <2>3. QED
    BY SMT, <1>2, <2>1, <2>2
<1>3. QED
  BY <1>1, <1>2

\* The states of up on slice b: the entries of b, in order but at position i.
UpStates(b, key) ==
    {s \in LoopState :
        /\ Len(s.h) = Len(b) /\ s.i \in 1 .. Len(b)
        /\ \A v : Count(s.h, v) = Count(b, v)
        /\ UpOrder(b, key, Len(b)) => UpOrder(s.h, key, s.i)}

\* The condition under which up goes on.
UpGoesOn(s, key) == s.i > 1 /\ key[s.h[s.i]] < key[s.h[s.i \div 2]]

\* Every round of up leads from such a state to such a state; it goes on at a
\* smaller position or has stopped.
LEMMA UpLoop ==
    ASSUME NEW b \in Seq(Jobs), NEW key \in [Jobs -> Int], NEW s \in UpStates(b, key)
    PROVE  /\ up(key)[s] \in UpStates(b, key)
           /\ IF UpGoesOn(s, key) THEN up(key)[s].i < s.i ELSE up(key)[s] = s
<1> DEFINE p == s.i \div 2
           g == Swap(s.h, p, s.i)
<1>1. /\ s \in LoopState /\ s.h \in Seq(Jobs) /\ Len(s.h) = Len(b)
      /\ s.i \in 1 .. Len(s.h) /\ Len(s.h) \in Nat
      /\ \A v : Count(s.h, v) = Count(b, v)
      /\ UpOrder(b, key, Len(b)) => UpOrder(s.h, key, s.i)
  BY SMT DEF UpStates, LoopState
<1>2. up(key)[s] = IF UpGoesOn(s, key) THEN [h |-> g, i |-> p] ELSE s
  BY <1>1 DEF up, UpGoesOn, Less
<1>3. CASE ~UpGoesOn(s, key)
  BY <1>2, <1>3
<1>4. CASE UpGoesOn(s, key)
  <2>1. s.i \in 2 .. Len(s.h) /\ p \in 1 .. Len(s.h) /\ p < s.i /\ p \in Nat
    <3>1. s.i \in Nat /\ s.i > 1 /\ s.i <= Len(s.h) /\ Len(s.h) \in Nat
      BY SMT, <1>1, <1>4 DEF UpGoesOn
    <3>2. p \in 1 .. s.i - 1
      BY <3>1, Parent
    <3> HIDE DEF p, g
    <3>3. QED
      BY SMT, <3>1, <3>2
  <2>2. g \in Seq(Jobs) /\ Len(g) = Len(s.h)
    BY <1>1, <2>1, SwapEntries
  <2>3. \A v : Count(g, v) = Count(b, v)
    BY <1>1, <2>1, SwapCount
  <2>4. ASSUME UpOrder(b, key, Len(b)) PROVE UpOrder(g, key, p)
    <3>1. UpOrder(s.h, key, s.i) /\ key[s.h[s.i]] < key[s.h[s.i \div 2]]
      BY <1>1, <1>4, <2>4 DEF UpGoesOn
    <3>2. QED
      BY <1>1, <2>1, <3>1, UpRound
  <2> DEFINE t == [h |-> g, i |-> p]
  <2>5. t.h = g /\ t.i = p
    OBVIOUS
  <2> HIDE DEF g, p
  <2>6. t \in LoopState
    BY <2>1, <2>2 DEF LoopState
  <2> HIDE DEF t
  <2>7. t \in UpStates(b, key)
    BY <1>1, <2>1, <2>2, <2>3, <2>4, <2>5, <2>6 DEF UpStates
  <2>8. up(key)[s] = t
    BY <1>2, <1>4 DEF t
  <2>9. QED
    BY <1>4, <2>1, <2>5, <2>7, <2>8
<1>5. QED
  BY <1>3, <1>4

\* up stops: every round goes on at a smaller position.
LEMMA UpEnds ==
    ASSUME NEW b \in Seq(Jobs), NEW key \in [Jobs -> Int], NEW s \in UpStates(b, key)
    PROVE  \A n \in Nat : n + 1 >= Len(b) =>
              /\ Rounds(up(key), s, n) \in UpStates(b, key)
              /\ ~UpGoesOn(Rounds(up(key), s, n), key)
<1> DEFINE r(n) == Rounds(up(key), s, n)
           S == {n \in Nat : ~UpGoesOn(r(n), key) \/ r(n).i <= Len(b) - n}
<1>0. Len(b) \in Nat
  BY SMT
<1>1. \A n \in Nat : r(n) \in UpStates(b, key)
  BY UpLoop, RoundsKeep
<1>2. r(0) = s /\ \A n \in Nat : r(n + 1) = up(key)[r(n)]
  BY RoundsStep
<1> HIDE DEF r
<1>3. \A n \in Nat : r(n).i \in 1 .. Len(b)
  BY <1>1 DEF UpStates
<1>4. 0 \in S
  BY SMT, <1>0, <1>3
<1>5. ASSUME NEW n \in Nat, n \in S PROVE n + 1 \in S
  <2>1. r(n) \in UpStates(b, key) /\ r(n + 1) = up(key)[r(n)]
    BY <1>1, <1>2
  <2>2. CASE ~UpGoesOn(r(n), key)
    BY SMTT(60), <2>1, <2>2, UpLoop
  <2>3. CASE UpGoesOn(r(n), key)
    <3>1. r(n + 1).i < r(n).i
      BY <2>1, <2>3, UpLoop
    <3>2. r(n).i <= Len(b) - n
      BY <1>5, <2>3
    <3>3. r(n).i \in Nat /\ r(n + 1).i \in Nat
      BY SMT, <1>3
    <3>4. r(n + 1).i <= Len(b) - (n + 1)
      BY SMT, <1>0, <3>1, <3>2, <3>3
    <3>5. QED
      BY SMT, <3>4
  <2>4. QED
    BY <2>2, <2>3
<1> HIDE DEF S
<1>6. \A n \in Nat : n \in S
  BY <1>4, <1>5, NatSet
<1>7. ASSUME NEW n \in Nat, n + 1 >= Len(b) PROVE ~UpGoesOn(r(n), key)
  <2>1. ~UpGoesOn(r(n), key) \/ r(n).i <= Len(b) - n
    BY <1>6 DEF S
  <2>2. r(n).i <= Len(b) - n => ~(r(n).i > 1)
    BY SMT, <1>0, <1>3, <1>7
  <2>3. QED
    BY <2>1, <2>2 DEF UpGoesOn
<1>8. QED
  BY <1>1, <1>7 DEF r

\* heap.Push adds one entry, loses and doubles none, and keeps the heap order, for
\* a heap of any length, any keys and ties among them.
THEOREM PushIsRight ==
    ASSUME NEW h \in Seq(Jobs), NEW key \in [Jobs -> Int], NEW x \in Jobs
    PROVE  /\ HeapPush(h, key, x) \in Seq(Jobs)
           /\ Len(HeapPush(h, key, x)) = Len(h) + 1
           /\ \A v : Count(HeapPush(h, key, x), v)
                        = Count(h, v) + (IF v = x THEN 1 ELSE 0)
           /\ Ordered(h, key) => Ordered(HeapPush(h, key, x), key)
<1> DEFINE b == Append(h, x)
           s == [h |-> b, i |-> Len(h) + 1]
           t == Rounds(up(key), s, Len(h))
<1>1. /\ b \in Seq(Jobs) /\ Len(b) = Len(h) + 1 /\ Len(h) \in Nat
      /\ \A k \in 1 .. Len(h) : b[k] = h[k]
  BY SMT
<1>2. \A v : Count(b, v) = Count(h, v) + (IF v = x THEN 1 ELSE 0)
  BY AppendCount
<1>3. HeapPush(h, key, x) = t.h
  BY DEF HeapPush
<1>4. s.h = b /\ s.i = Len(b)
  BY <1>1
<1>5. s \in LoopState
  BY SMT, <1>1 DEF LoopState
<1> HIDE DEF b, s
<1>6. s \in UpStates(b, key)
  BY SMT, <1>1, <1>4, <1>5 DEF UpStates
<1>7. t \in UpStates(b, key) /\ ~UpGoesOn(t, key)
  BY SMT, <1>1, <1>6, UpEnds
<1> HIDE DEF t
<1>8. /\ t.h \in Seq(Jobs) /\ Len(t.h) = Len(b) /\ t.i \in 1 .. Len(t.h)
      /\ \A v : Count(t.h, v) = Count(b, v)
  BY <1>7 DEF UpStates, LoopState
<1>9. ASSUME Ordered(h, key) PROVE Ordered(t.h, key)
  <2>1. UpOrder(b, key, Len(b))
    <3>1. ASSUME NEW k \in 2 .. Len(b), k # Len(b) PROVE key[b[k \div 2]] <= key[b[k]]
      <4>1. k \in 2 .. Len(h) /\ k \in 1 .. Len(h) /\ k \div 2 \in 1 .. Len(h)
        BY SMTT(60), <1>1, <3>1, Parent
      <4>2. key[h[k \div 2]] <= key[h[k]]
        BY <1>9, <4>1 DEF Ordered, OrderedTo
      <4>3. QED
        BY <1>1, <4>1, <4>2
    <3>2. \A k \in 2 .. Len(b) : k \div 2 # Len(b)
      BY SMT, <1>1, Parent
    <3>3. QED
      BY <3>1, <3>2 DEF UpOrder
  <2>2. UpOrder(t.h, key, t.i)
    BY <1>7, <2>1 DEF UpStates
  <2>3. QED
    BY <1>7, <1>8, <2>2, UpStop DEF UpGoesOn
<1>10. QED
  BY <1>1, <1>2, <1>3, <1>8, <1>9

---------------------------------------------------------------------------
(***************************************************************************)
(* down.  The order of the first n entries is right but between the moving *)
(* entry and its children, and those are not below its parent.             *)
(***************************************************************************)
DownOrder(h, key, i, n) ==
    /\ \A k \in 2 .. n : k \div 2 # i => key[h[k \div 2]] <= key[h[k]]
    /\ \A k \in 2 .. n : k \div 2 = i /\ i > 1 => key[h[i \div 2]] <= key[h[k]]

\* The child of position i that down compares it with.
LeastChild(h, key, i, n) ==
    IF 2 * i < n /\ key[h[2 * i + 1]] < key[h[2 * i]] THEN 2 * i + 1 ELSE 2 * i

\* It is a child, and no child has a smaller key.
LEMMA LeastChildIsLeast ==
    ASSUME NEW h \in Seq(Jobs), NEW key \in [Jobs -> Int], NEW n \in 0 .. Len(h),
           NEW i \in Nat, i > 0, 2 * i <= n
    PROVE  LET c == LeastChild(h, key, i, n) IN
           /\ c \in 2 .. n /\ c \div 2 = i /\ i < c
           /\ \A k \in 2 .. n : k \div 2 = i => key[h[c]] <= key[h[k]]
<1> DEFINE c == LeastChild(h, key, i, n)
<1>0. Len(h) \in Nat /\ n \in Nat /\ \A k \in 1 .. n : key[h[k]] \in Int
  <2>1. Len(h) \in Nat /\ n \in Nat /\ n <= Len(h)
    BY SMT
  <2>2. \A k \in 1 .. n : k \in 1 .. Len(h)
    BY SMT, <2>1
  <2>3. QED
    BY SMT, <2>1, <2>2
<1>1. c \in 2 .. n /\ c \div 2 = i /\ i < c
  <2>1. c \in {2 * i, 2 * i + 1} /\ (c = 2 * i + 1 => 2 * i < n)
    BY SMT DEF LeastChild
  <2> HIDE DEF c
  <2>2. CASE c = 2 * i
    BY SMT, <1>0, <2>2, Child
  <2>3. CASE c = 2 * i + 1
    BY SMT, <1>0, <2>1, <2>3, Child
  <2>4. QED
    BY <2>1, <2>2, <2>3
<1>2. ASSUME NEW k \in 2 .. n, k \div 2 = i PROVE key[h[c]] <= key[h[k]]
  <2>1. k \in {2 * i, 2 * i + 1}
    BY SMT, <1>2, Child
  <2>2. 2 * i \in 1 .. n /\ k \in 1 .. n
    BY SMT, <1>0
  <2>3. CASE k = 2 * i
    <3>1. k + 1 \in 1 .. n \/ ~(2 * i < n)
      BY SMT, <1>0, <2>3
    <3>2. QED
      BY SMT, <1>0, <2>2, <2>3, <3>1 DEF LeastChild
  <2>4. CASE k = 2 * i + 1
    <3>1. 2 * i < n
      BY SMT, <1>0, <2>4
    <3>2. QED
      BY SMT, <1>0, <2>2, <2>4, <3>1 DEF LeastChild
  <2>5. QED
    BY <2>1, <2>3, <2>4
<1>3. QED
  BY <1>1, <1>2

\* A round of down moves the entry to that child's position and keeps the order.
LEMMA DownRound ==
    ASSUME NEW h \in Seq(Jobs), NEW key \in [Jobs -> Int], NEW n \in 0 .. Len(h),
           NEW i \in Nat, i > 0, NEW c \in 2 .. n, c \div 2 = i,
           \A k \in 2 .. n : k \div 2 = i => key[h[c]] <= key[h[k]],
           key[h[c]] < key[h[i]], DownOrder(h, key, i, n)
    PROVE  DownOrder(Swap(h, i, c), key, c, n)
<1> DEFINE g == Swap(h, i, c)
<1>1. /\ i \in 1 .. Len(h) /\ c \in 1 .. Len(h) /\ i < c
      /\ n \in Nat /\ Len(h) \in Nat /\ c \in Nat /\ n <= Len(h)
  BY SMT, Parent
<1>2. /\ g \in Seq(Jobs) /\ Len(g) = Len(h) /\ g[i] = h[c] /\ g[c] = h[i]
      /\ \A k \in 1 .. Len(h) : k # i /\ k # c => g[k] = h[k]
  BY <1>1, SwapEntries
<1>3. \A k \in 1 .. Len(h) : h[k] \in Jobs /\ key[h[k]] \in Int
  BY SMT
<1> HIDE DEF g
<1>4. ASSUME NEW k \in 2 .. n
      PROVE  /\ k \in 1 .. Len(h) /\ k \div 2 \in 1 .. Len(h)
             /\ k \div 2 < k /\ k \div 2 \in Nat
  BY SMT, <1>1, Parent
<1>5. ASSUME NEW k \in 2 .. n, k \div 2 # c PROVE key[g[k \div 2]] <= key[g[k]]
  <2>1. CASE k \div 2 = i
    <3>1. CASE k = c
      BY SMTT(60), <1>1, <1>2, <1>3, <2>1, <3>1
    <3>2. CASE k # c
      <4>1. k # i
        BY SMT, <1>4, <2>1
      <4>2. g[k] = h[k] /\ key[h[c]] <= key[h[k]]
        BY <1>2, <1>4, <2>1, <3>2, <4>1
      <4>3. QED
        BY <1>2, <2>1, <4>2
    <3>3. QED
      BY <3>1, <3>2
  <2>2. CASE k \div 2 # i
    <3>1. g[k \div 2] = h[k \div 2]
      BY <1>2, <1>4, <1>5, <2>2
    <3>2. CASE k = i
      <4>1. i > 1
        BY SMT, <1>1, <3>2
      <4>2. key[h[k \div 2]] <= key[h[c]]
        BY <3>2, <4>1 DEF DownOrder
      <4>3. QED
        BY <1>2, <3>1, <3>2, <4>2
    <3>3. CASE k # i
      <4>1. k # c
        BY <2>2
      <4>2. g[k] = h[k]
        BY <1>2, <1>4, <3>3, <4>1
      <4>3. key[h[k \div 2]] <= key[h[k]]
        BY <2>2 DEF DownOrder
      <4>4. QED
        BY <3>1, <4>2, <4>3
    <3>4. QED
      BY <3>2, <3>3
  <2>3. QED
    BY <2>1, <2>2
<1>6. ASSUME NEW k \in 2 .. n, k \div 2 = c PROVE key[g[c \div 2]] <= key[g[k]]
  <2>1. k # c /\ k # i /\ c # i
    BY SMT, <1>1, <1>4, <1>6
  <2>2. g[k] = h[k] /\ g[c \div 2] = h[c]
    BY <1>2, <1>4, <2>1
  <2>3. key[h[k \div 2]] <= key[h[k]]
    BY <1>6, <2>1 DEF DownOrder
  <2>4. QED
    BY <1>6, <2>2, <2>3
<1>7. DownOrder(g, key, c, n)
  BY <1>5, <1>6 DEF DownOrder
<1>8. QED
  BY <1>7 DEF g

\* Where down stops the first n entries are ordered.
LEMMA DownStop ==
    ASSUME NEW h \in Seq(Jobs), NEW key \in [Jobs -> Int], NEW n \in 0 .. Len(h),
           NEW i \in 1 .. Len(h), DownOrder(h, key, i, n),
           ~(2 * i <= n /\ key[h[LeastChild(h, key, i, n)]] < key[h[i]])
    PROVE  OrderedTo(h, key, n)
<1> SUFFICES ASSUME NEW k \in 2 .. n PROVE key[h[k \div 2]] <= key[h[k]]
  BY DEF OrderedTo
<1>1. CASE k \div 2 # i
  BY <1>1 DEF DownOrder
<1>2. CASE k \div 2 = i
  <2>1. 2 * i <= n /\ i \in Nat /\ i > 0 /\ n \in Nat /\ n <= Len(h) /\ Len(h) \in Nat
    BY SMT, <1>2, Child
  <2> DEFINE c == LeastChild(h, key, i, n)
  <2>2. c \in 2 .. n /\ key[h[c]] <= key[h[k]]
    BY <1>2, <2>1, LeastChildIsLeast
  <2>3. ~(key[h[c]] < key[h[i]])
    BY <2>1
  <2> HIDE DEF c
  <2>4. c \in 1 .. Len(h) /\ k \in 1 .. Len(h)
    BY SMTT(60), <2>1, <2>2
  <2>5. key[h[c]] \in Int /\ key[h[k]] \in Int /\ key[h[i]] \in Int
    BY SMT, <2>4
  <2>6. QED
    BY SMT, <1>2, <2>2, <2>3, <2>5
<1>3. QED
  BY <1>1, <1>2

\* The states of down on the first n entries of slice b, whose last is set aside.
DownStates(b, key, n) ==
    {s \in LoopState :
        /\ Len(s.h) = Len(b) /\ s.i \in 1 .. Len(b)
        /\ s.h[n + 1] = b[n + 1]
        /\ \A v : Count(s.h, v) = Count(b, v)
        /\ DownOrder(b, key, 1, n) => DownOrder(s.h, key, s.i, n)}

\* The condition under which down goes on.
DownGoesOn(s, key, n) ==
    2 * s.i <= n /\ key[s.h[LeastChild(s.h, key, s.i, n)]] < key[s.h[s.i]]

\* Every round of down leads from such a state to such a state; it goes on at a
\* larger position or has stopped.
LEMMA DownLoop ==
    ASSUME NEW b \in Seq(Jobs), NEW key \in [Jobs -> Int], NEW n \in Nat,
           Len(b) = n + 1, NEW s \in DownStates(b, key, n)
    PROVE  /\ down(key, n)[s] \in DownStates(b, key, n)
           /\ IF DownGoesOn(s, key, n) THEN down(key, n)[s].i > s.i
                                       ELSE down(key, n)[s] = s
<1> DEFINE c == LeastChild(s.h, key, s.i, n)
           g == Swap(s.h, s.i, c)
<1>1. /\ s \in LoopState /\ s.h \in Seq(Jobs) /\ Len(s.h) = n + 1
      /\ s.i \in Nat /\ s.i > 0 /\ s.i \in 1 .. Len(s.h)
      /\ s.h[n + 1] = b[n + 1]
      /\ \A v : Count(s.h, v) = Count(b, v)
      /\ DownOrder(b, key, 1, n) => DownOrder(s.h, key, s.i, n)
  BY SMT DEF DownStates, LoopState
<1>2. down(key, n)[s] = IF DownGoesOn(s, key, n) THEN [h |-> g, i |-> c] ELSE s
  BY <1>1 DEF down, DownGoesOn, Less, LeastChild
<1>3. CASE ~DownGoesOn(s, key, n)
  BY <1>2, <1>3
<1>4. CASE DownGoesOn(s, key, n)
  <2>0. 2 * s.i <= n /\ n \in 0 .. Len(s.h)
    BY SMT, <1>1, <1>4 DEF DownGoesOn
  <2>1. /\ c \in 2 .. n /\ c \div 2 = s.i /\ s.i < c
        /\ \A k \in 2 .. n : k \div 2 = s.i => key[s.h[c]] <= key[s.h[k]]
    BY <1>1, <2>0, LeastChildIsLeast
  <2>2. key[s.h[c]] < key[s.h[s.i]]
    BY <1>4 DEF DownGoesOn
  <2> HIDE DEF c
  <2>3. c \in 1 .. Len(s.h) /\ c \in Nat /\ n + 1 # c /\ n + 1 # s.i
    <3>1. Len(s.h) = n + 1 /\ s.i \in Nat
      BY <1>1
    <3>2. c \in 2 .. n /\ s.i < c
      BY <2>1
    <3>3. QED
      BY SMT, <3>1, <3>2
  <2>4. /\ g \in Seq(Jobs) /\ Len(g) = Len(s.h)
        /\ \A k \in 1 .. Len(s.h) : k # s.i /\ k # c => g[k] = s.h[k]
    BY <1>1, <2>3, SwapEntries
  <2>5. g[n + 1] = b[n + 1]
    <3>1. n + 1 \in 1 .. Len(s.h) /\ s.h[n + 1] = b[n + 1]
      BY SMT, <1>1
    <3> HIDE DEF g
    <3>2. QED
      BY <2>3, <2>4, <3>1
  <2>6. \A v : Count(g, v) = Count(b, v)
    BY <1>1, <2>3, SwapCount
  <2>7. ASSUME DownOrder(b, key, 1, n) PROVE DownOrder(g, key, c, n)
    <3>1. DownOrder(s.h, key, s.i, n)
      BY <1>1, <2>7
    <3>2. QED
      BY <1>1, <2>0, <2>1, <2>2, <3>1, DownRound
  <2> DEFINE t == [h |-> g, i |-> c]
  <2>8. t.h = g /\ t.i = c
    OBVIOUS
  <2> HIDE DEF g
  <2>9. t \in LoopState
    BY <2>3, <2>4 DEF LoopState
  <2> HIDE DEF t
  <2>10. t \in DownStates(b, key, n)
    BY <1>1, <2>3, <2>4, <2>5, <2>6, <2>7, <2>8, <2>9 DEF DownStates
  <2>11. down(key, n)[s] = t
    BY <1>2, <1>4 DEF t
  <2>12. QED
    BY <1>1, <1>4, <2>1, <2>3, <2>8, <2>10, <2>11
<1>5. QED
  BY <1>3, <1>4

\* down stops: every round goes on at a larger position.
LEMMA DownEnds ==
    ASSUME NEW b \in Seq(Jobs), NEW key \in [Jobs -> Int], NEW n \in Nat,
           Len(b) = n + 1, NEW s \in DownStates(b, key, n)
    PROVE  /\ Rounds(down(key, n), s, n + 1) \in DownStates(b, key, n)
           /\ ~DownGoesOn(Rounds(down(key, n), s, n + 1), key, n)
<1> DEFINE r(m) == Rounds(down(key, n), s, m)
           S == {m \in Nat : ~DownGoesOn(r(m), key, n) \/ r(m).i >= m + 1}
<1>1. \A m \in Nat : r(m) \in DownStates(b, key, n)
  BY DownLoop, RoundsKeep
<1>2. r(0) = s /\ \A m \in Nat : r(m + 1) = down(key, n)[r(m)]
  BY RoundsStep
<1> HIDE DEF r
<1>3. \A m \in Nat : r(m).i \in 1 .. n + 1
  BY <1>1 DEF DownStates
<1>4. 0 \in S
  BY SMT, <1>3
<1>5. ASSUME NEW m \in Nat, m \in S PROVE m + 1 \in S
  <2>1. r(m) \in DownStates(b, key, n) /\ r(m + 1) = down(key, n)[r(m)]
    BY <1>1, <1>2
  <2>2. CASE ~DownGoesOn(r(m), key, n)
    BY SMT, <2>1, <2>2, DownLoop
  <2>3. CASE DownGoesOn(r(m), key, n)
    <3>1. r(m + 1).i > r(m).i
      BY <2>1, <2>3, DownLoop
    <3>2. r(m).i >= m + 1
      BY <1>5, <2>3
    <3>3. r(m).i \in Nat /\ r(m + 1).i \in Nat
      BY SMT, <1>3
    <3>4. r(m + 1).i >= m + 1 + 1
      BY SMT, <3>1, <3>2, <3>3
    <3>5. QED
      BY SMT, <3>4
  <2>4. QED
    BY <2>2, <2>3
<1> HIDE DEF S
<1>6. \A m \in Nat : m \in S
  BY <1>4, <1>5, NatSet
<1>7. ~DownGoesOn(r(n + 1), key, n)
  <2>1. ~DownGoesOn(r(n + 1), key, n) \/ r(n + 1).i >= n + 1 + 1
    BY SMT, <1>6 DEF S
  <2>2. r(n + 1).i \in 1 .. n + 1
    BY SMT, <1>3
  <2>3. QED
    BY SMT, <2>1, <2>2
<1>8. QED
  BY SMT, <1>1, <1>7 DEF r

\* heap.Pop removes its root and nothing else, and keeps the heap order, for a heap
\* of any length, any keys and ties among them.
THEOREM PopIsRight ==
    ASSUME NEW h \in Seq(Jobs), NEW key \in [Jobs -> Int], Len(h) > 0
    PROVE  /\ HeapPop(h, key) \in Seq(Jobs)
           /\ Len(HeapPop(h, key)) = Len(h) - 1
           /\ \A v : Count(HeapPop(h, key), v)
                        = Count(h, v) - (IF v = h[1] THEN 1 ELSE 0)
           /\ Ordered(h, key) => Ordered(HeapPop(h, key), key)
<1> DEFINE n == Len(h) - 1
           b == Swap(h, 1, n + 1)
           s == [h |-> b, i |-> 1]
           t == Rounds(down(key, n), s, n + 1)
           g == SubSeq(t.h, 1, n)
<1>1. n \in Nat /\ Len(h) = n + 1 /\ 1 \in 1 .. Len(h) /\ n + 1 \in 1 .. Len(h)
  BY SMT
<1>2. HeapPop(h, key) = g
  BY <1>1 DEF HeapPop
<1> HIDE DEF n
<1>3. /\ b \in Seq(Jobs) /\ Len(b) = n + 1 /\ b[n + 1] = h[1]
      /\ \A k \in 1 .. Len(h) : k # 1 /\ k # n + 1 => b[k] = h[k]
  BY <1>1, SwapEntries
<1>4. \A v : Count(b, v) = Count(h, v)
  BY <1>1, SwapCount
<1>5. s.h = b /\ s.i = 1
  OBVIOUS
<1> HIDE DEF b
<1>6. s \in LoopState
  BY <1>3 DEF LoopState
<1> HIDE DEF s
<1>7. s \in DownStates(b, key, n)
  BY <1>1, <1>3, <1>5, <1>6 DEF DownStates
<1>8. t \in DownStates(b, key, n) /\ ~DownGoesOn(t, key, n)
  BY <1>1, <1>3, <1>7, DownEnds
<1> HIDE DEF t
<1>9. /\ t.h \in Seq(Jobs) /\ Len(t.h) = n + 1 /\ t.i \in 1 .. Len(t.h)
      /\ t.h[n + 1] = h[1]
      /\ \A v : Count(t.h, v) = Count(h, v)
  BY <1>3, <1>4, <1>8 DEF DownStates, LoopState
<1>10. Len(t.h) > 0 /\ Len(t.h) - 1 = n
  BY SMT, <1>1, <1>9
<1>11. /\ g \in Seq(Jobs) /\ Len(g) = n
       /\ \A k \in 1 .. n : g[k] = t.h[k]
       /\ \A v : Count(g, v) = Count(t.h, v) - (IF v = t.h[n + 1] THEN 1 ELSE 0)
  BY SMTT(60), <1>9, <1>10, CutLast
<1> HIDE DEF g
<1>12. ASSUME Ordered(h, key) PROVE Ordered(g, key)
  <2>1. DownOrder(b, key, 1, n)
    <3>1. ASSUME NEW k \in 2 .. n, k \div 2 # 1 PROVE key[b[k \div 2]] <= key[b[k]]
      <4>1. /\ k \in 1 .. Len(h) /\ k # 1 /\ k # n + 1 /\ k \in 2 .. Len(h)
            /\ k \div 2 \in 1 .. Len(h) /\ k \div 2 # n + 1
        BY SMT, <1>1, Parent
      <4>2. key[h[k \div 2]] <= key[h[k]]
        BY <1>12, <4>1 DEF Ordered, OrderedTo
      <4>3. b[k] = h[k] /\ b[k \div 2] = h[k \div 2]
        BY <1>3, <3>1, <4>1
      <4>4. QED
        BY <4>2, <4>3
    <3>2. QED
      BY SMT, <3>1 DEF DownOrder
  <2>2. DownOrder(t.h, key, t.i, n)
    BY <1>8, <2>1 DEF DownStates
  <2>3. n \in 0 .. Len(t.h)
    BY SMT, <1>1, <1>9
  <2>4. OrderedTo(t.h, key, n)
    BY <1>8, <1>9, <2>2, <2>3, DownStop DEF DownGoesOn
  <2>5. ASSUME NEW k \in 2 .. n PROVE key[g[k \div 2]] <= key[g[k]]
    <3>1. k \in 1 .. n /\ k \div 2 \in 1 .. n
      BY SMT, <1>1, Parent
    <3>2. QED
      BY <1>11, <2>4, <3>1 DEF OrderedTo
  <2>6. QED
    BY <1>11, <2>5 DEF Ordered, OrderedTo
<1>13. QED
  BY SMT, <1>1, <1>2, <1>9, <1>11, <1>12

\* What a heap holds after heap.Push and heap.Pop.
LEMMA PushContents ==
    ASSUME NEW h \in Seq(Jobs), NEW key \in [Jobs -> Int], NEW x \in Jobs
    PROVE  Contents(HeapPush(h, key, x)) = Contents(h) \cup {x}
<1> DEFINE g == HeapPush(h, key, x)
<1>1. g \in Seq(Jobs) /\ \A v : Count(g, v) = Count(h, v) + (IF v = x THEN 1 ELSE 0)
  BY PushIsRight
<1> HIDE DEF g
<1>2. ASSUME NEW v PROVE v \in Contents(g) <=> v \in Contents(h) \cup {x}
  <2>1. /\ Count(g, v) > 0 <=> v \in Contents(g)
        /\ Count(h, v) > 0 <=> v \in Contents(h)
        /\ Count(h, v) \in Nat
    BY <1>1, CountType
  <2>2. CASE v = x
    BY SMT, <1>1, <2>1, <2>2
  <2>3. CASE v # x
    BY SMT, <1>1, <2>1, <2>3
  <2>4. QED
    BY <2>2, <2>3
<1>3. QED
  BY <1>2 DEF g

\* Nothing comes in with a Pop.
LEMMA PopContents ==
    ASSUME NEW h \in Seq(Jobs), NEW key \in [Jobs -> Int], Len(h) > 0
    PROVE  Contents(HeapPop(h, key)) \subseteq Contents(h)
<1> DEFINE g == HeapPop(h, key)
<1>1. g \in Seq(Jobs) /\ \A v : Count(g, v) = Count(h, v) - (IF v = h[1] THEN 1 ELSE 0)
  BY PopIsRight
<1> HIDE DEF g
<1>2. ASSUME NEW v \in Contents(g) PROVE v \in Contents(h)
  <2>1. Count(g, v) > 0 /\ (Count(h, v) > 0 <=> v \in Contents(h))
        /\ Count(h, v) \in Nat
    BY <1>1, CountType
  <2>2. QED
    BY SMT, <1>1, <2>1
<1>3. QED
  BY <1>2 DEF g
===========================================================================
