---------------------------- MODULE ClaimLedger ----------------------------
(***************************************************************************)
(* What a scan owes its clan.  Clicking "Open" claims a chest in the game: *)
(* it is gone from the Gifts tab and can never be read again.  So a chest  *)
(* that has been claimed is recorded, exactly once and for good, and no    *)
(* chest is recorded before it is claimed.                                 *)
(***************************************************************************)
EXTENDS Integers, FiniteSets

CONSTANT Chests  \* what the tabs list

VARIABLES
  claimed,  \* chests opened in the game
  copies    \* how many rows of the database record each chest

vars == <<claimed, copies>>

Init == claimed = {} /\ copies = [c \in Chests |-> 0]

Claim(c) ==
  /\ c \notin claimed
  /\ claimed' = claimed \cup {c}
  /\ UNCHANGED copies

\* Any number of claimed chests are recorded at once.
Record(S) ==
  /\ \A c \in S : c \in claimed /\ copies[c] = 0
  /\ copies' = [c \in Chests |-> IF c \in S THEN 1 ELSE copies[c]]
  /\ UNCHANGED claimed

Next ==
  \/ \E c \in Chests : Claim(c)
  \/ \E S \in SUBSET Chests : Record(S)

\* Nothing claimed stays unrecorded.
Settled == \A c \in Chests : c \in claimed ~> copies[c] = 1

Spec == Init /\ [][Next]_vars /\ Settled
=============================================================================
