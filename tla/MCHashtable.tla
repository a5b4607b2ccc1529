---------------------------- MODULE MCHashtable -----------------------------
(* Instances of Hashtable for TLC: two keys share a bucket, one has its own. *)
EXTENDS Hashtable, TLC

CONSTANTS k1, k2, k3, b1, b2

MCHash == (k1 :> b1) @@ (k2 :> b1) @@ (k3 :> b2)

=============================================================================
