----------------------------- MODULE MCReconcile -----------------------------
EXTENDS Reconcile, TLC

(* One destination on the rendition, or all of them; all switched on.      *)
OneOrAll ==
  {[d \in Dests |-> [on |-> TRUE, ver |-> 0, bk |-> IF d \in Backups THEN 1 ELSE 0,
                     rend |-> IF shared \/ d = Min(Dests) THEN Min(Rends) ELSE Passthrough]]
   : shared \in BOOLEAN}

(* The relay ports are interchangeable.                                    *)
PortSymmetry == Permutations(Ports)
=============================================================================
