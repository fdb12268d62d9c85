------------------------------- MODULE Heap -------------------------------
(***************************************************************************)
(* The binary heap under both queues (internal/queue/heap.go) as           *)
(* container/heap drives it.  A heap is a sequence of job IDs; the keys    *)
(* are not in it: Less looks them up in the store at every comparison, and *)
(* the job with the smaller key comes first.                               *)
(*                                                                         *)
(* The loops of container/heap are functions from one state of the loop to *)
(* the next, which leave the state alone once the loop has ended.          *)
(***************************************************************************)
EXTENDS Integers, Sequences, FiniteSets

CONSTANT Jobs

Less(key, a, b) == key[a] < key[b]

Swap(h, i, j) == [h EXCEPT ![i] = h[j], ![j] = h[i]]

\* The slice, and the position of the entry that moves.
LoopState == [h : Seq(Jobs), i : Nat]

\* container/heap, with positions from 1: the children of i are 2i and 2i + 1.
up(key) == [s \in LoopState |->
    LET p == s.i \div 2
    IN  IF s.i > 1 /\ Less(key, s.h[s.i], s.h[p])
        THEN [h |-> Swap(s.h, p, s.i), i |-> p] ELSE s]

down(key, n) == [s \in LoopState |->
    LET l == 2 * s.i
        c == IF l < n /\ Less(key, s.h[l + 1], s.h[l]) THEN l + 1 ELSE l
    IN  IF l <= n /\ Less(key, s.h[c], s.h[s.i])
        THEN [h |-> Swap(s.h, s.i, c), i |-> c] ELSE s]

\* The state of a loop after n rounds from state s.
Rounds(loop, s, n) ==
    LET r[k \in Nat] == IF k = 0 THEN s ELSE loop[r[k - 1]] IN r[n]

\* heap.Push and heap.Pop.  Neither loop goes on for more rounds than the slice
\* has entries.  Pop leaves the heap without its root, which is what it returns.
HeapPush(h, key, x) ==
    Rounds(up(key), [h |-> Append(h, x), i |-> Len(h) + 1], Len(h)).h

HeapPop(h, key) ==
    LET n == Len(h)
    IN  SubSeq(Rounds(down(key, n - 1), [h |-> Swap(h, 1, n), i |-> 1], n).h, 1, n - 1)
---------------------------------------------------------------------------
Contents(h) == {h[k] : k \in DOMAIN h}

Count(h, j) == Cardinality({k \in DOMAIN h : h[k] = j})
===========================================================================
