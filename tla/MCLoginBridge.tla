--------------------------- MODULE MCLoginBridge ---------------------------
(* Instances of LoginBridge for TLC. *)
EXTENDS LoginBridge, TLC
============================================================================
