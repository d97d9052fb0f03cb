------------------------------ MODULE MCDigest ------------------------------
(* Instances of Digest for TLC. *)
EXTENDS Digest, TLC

CONSTANTS c1, c2, t1, t2

Saved(token, kinds) == [token |-> token, kinds |-> kinds]

\* The clans can share t1; c1 may move to t2 and back, c2 may be switched off.
MovingAndOff == (c1 :> {Saved(t1, Kinds), Saved(t2, {})})
                @@ (c2 :> {Saved(t1, {"daily"}), Saved(None, {})})
=============================================================================
