------------------------- MODULE MCResourceCapture -------------------------
(* Instances of ResourceCapture for TLC. *)
EXTENDS ResourceCapture, TLC

Racing  == {"race"}
Neither == {}
=============================================================================
