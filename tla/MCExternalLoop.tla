--------------------------- MODULE MCExternalLoop ---------------------------
(* Instances of ExternalLoop for TLC. *)
EXTENDS ExternalLoop, TLC
=============================================================================
