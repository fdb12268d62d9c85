--------------------------- MODULE MCSubmission ---------------------------
(***************************************************************************)
(* Instances of Submission for TLC.                                        *)
(***************************************************************************)
EXTENDS Submission

MCIDs == 1 .. 2
===========================================================================
