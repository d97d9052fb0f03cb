----------------------------- MODULE MCRoster -----------------------------
(* Instances of Roster. *)
EXTENDS Roster
CONSTANTS a, aa, b
\* "J A" and "JA": two spellings with one key.
Spaced == [n \in Names |-> IF n = aa THEN a ELSE n]
\* b may be taken for a by distance, and a for b by a confused character, so that each
\* tier decides something.
Close == {<<b, a>>}
Misread == {<<a, b>>}
Edits == [p \in Names \X Names |-> 1]
\* a < aa < b
Listed == [n \in Names |-> IF n = a THEN 1 ELSE IF n = aa THEN 2 ELSE 3]
=============================================================================
