---------------------------- MODULE MCVoteTally ----------------------------
(* VoteTally over every joint configuration of four ids.                    *)
EXTENDS VoteTally, TLC

\* Ids are interchangeable: nothing in VoteTally distinguishes one.
Symmetry == Permutations(Id)
=============================================================================
