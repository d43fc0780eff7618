------------------------------- MODULE Totals -------------------------------
(* What the owners of a ledger have together, as the number of its parcels:  *)
(* one parcel for every unit of every owner.  A cardinality is a total that  *)
(* can be proved about without an induction over the owners.                 *)
EXTENDS Integers, FiniteSets

Parcels(f) == UNION {{p} \X (1 .. f[p]) : p \in DOMAIN f}
Together(f) == Cardinality(Parcels(f))
=============================================================================
