------------------------------ MODULE MCVoting ------------------------------
(* Instances of Voting for TLC.  Symmetry is used for safety only.          *)
EXTENDS VotingProperties, TLC

Symmetry ==
  Permutations(Delegates) \cup Permutations(Topics) \cup Permutations(Entries)
    \cup Permutations(Casts) \cup Permutations(Admins)
=============================================================================
