----------------------------- MODULE MCManager -----------------------------
EXTENDS Manager, TLC

(* Requests are interchangeable, and so are engine structures.             *)
ManagerSymmetry == Permutations(Callers) \cup Permutations(Engines)
=============================================================================
