-------------------------- MODULE MCMatchLifecycle --------------------------
(* A small instance of MatchLifecycle: users are interchangeable, and so are *)
(* the slots of requests in progress.                                        *)
EXTENDS MatchLifecycle, TLC

Symmetry == Permutations(User) \cup Permutations(Call)
=============================================================================
