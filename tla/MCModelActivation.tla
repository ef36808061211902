------------------------- MODULE MCModelActivation -------------------------
(* ModelActivation on small instances.  Liveness is checked with the safety    *)
(* properties, so the downloads are not declared symmetric.                    *)
EXTENDS ModelActivation
=============================================================================
