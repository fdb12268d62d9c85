-------------------------- MODULE MCJobScheduler --------------------------
(***************************************************************************)
(* Instances of JobScheduler for TLC.                                      *)
(***************************************************************************)
EXTENDS JobScheduler, TLC

CONSTANTS j1, w1

\* Workers subscribed to "*".
AllHandles == [w \in Workers |-> Jobs]

\* w1 is subscribed to every topic but that of j1, the other workers to "*".
TopicHandles == [w \in Workers |-> IF w = w1 THEN Jobs \ {j1} ELSE Jobs]

WorkerSymmetry == Permutations(Workers)
===========================================================================
