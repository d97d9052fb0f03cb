--------------------------- MODULE MCScanSession ---------------------------
(* Instances of ScanSession for TLC: the lists and what may go wrong.      *)
EXTENDS ScanSession

Tiny  == [gifts |-> 2, triumphal |-> 1]
Short == [gifts |-> 3, triumphal |-> 1]
Long  == [gifts |-> 5, triumphal |-> 2]

\* what may go wrong between a claim and its row without losing either
LosslessFaults == {"navigation", "screenshot", "stall", "probe"}

\* a sweep that ends early, in every way, and a finalizer that cannot count
EarlyEndFaults == LosslessFaults \cup {"input", "missed", "kick", "count"}

\* everything that bears on the rows of a session and on its status
RowFaults == {"navigation", "input", "ocr", "database", "kick", "delete",
              "restart"}
===========================================================================
