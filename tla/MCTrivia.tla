------------------------------ MODULE MCTrivia ------------------------------
(* Instances of Trivia for TLC.                                             *)
EXTENDS Trivia, TLC

Symmetry ==
  Permutations(Delegates) \cup Permutations(Questions) \cup Permutations(Options)
    \cup Permutations(Players) \cup Permutations(Admins)
=============================================================================
