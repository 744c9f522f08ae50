--------------------------- MODULE MCCoordinator ----------------------------
(* Small instances of Coordinator. *)
EXTENDS Coordinator, TLC

CONSTANTS n1, n2, n3, c1, c2, fix, patch

\* Two nodes that make the same change, and a third that does not.
TwoAlike == (n1 :> fix) @@ (n2 :> fix)
TwoAlikeOneOther == (n1 :> fix) @@ (n2 :> fix) @@ (n3 :> patch)
=============================================================================
