----------------------------- MODULE MCQueues -----------------------------
(***************************************************************************)
(* Instances of Queues for TLC.                                            *)
(***************************************************************************)
EXTENDS Queues

LOCAL INSTANCE SequencesExt

\* Job 3 is above the others.
TwoLevels == [j \in Jobs |-> IF j = 3 THEN 5 ELSE 1]

\* One job fails up to twice after having been recovered.
OneRepeats == [j \in Jobs |-> IF j = 1 THEN 3 ELSE 0]

---------------------------------------------------------------------------
H == INSTANCE Heap WITH Jobs <- 1 .. 6

\* What a heap gives back when it is emptied, by its keys.
RECURSIVE Drain(_, _)
Drain(h, key) ==
    IF h = <<>> THEN <<>> ELSE <<key[h[1]]>> \o Drain(H!HeapPop(h, key), key)

\* The keys k pushed one after the other.
Filled(k) == FoldLeft(LAMBDA h, i : H!HeapPush(h, k, i), <<>>, [i \in DOMAIN k |-> i])

\* For any keys, with ties, up and down make a priority queue of the slice: what
\* is popped is what was pushed, in the order of the keys.
SortsAll(Keys, n) ==
    \A m \in 1 .. n : \A k \in [1 .. m -> Keys] :
        Drain(Filled(k), k) = SortSeq(k, LAMBDA a, b : a < b)

\* The heap of heap.go returns every entry once and in order, for all keys of six
\* entries over three values: checked against sorting the keys.
ASSUME HeapSorts == SortsAll(0 .. 2, 6)
===========================================================================
