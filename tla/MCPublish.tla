----------------------------- MODULE MCPublish -----------------------------
EXTENDS Publish, TLC

(* The operator's requests are interchangeable.                            *)
RequestSymmetry == Permutations(Requests)
=============================================================================
