------------------------------- MODULE MCPool -------------------------------
(***************************************************************************)
(* Instances of Pool. Goroutines are interchangeable, and so are the       *)
(* databases, and the roles while none is a superuser.                     *)
(***************************************************************************)
EXTENDS Pool, TLC

Interchangeable == Permutations(Procs) \cup Permutations(Databases) \cup Permutations(Roles)
=============================================================================
