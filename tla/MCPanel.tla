------------------------------ MODULE MCPanel -------------------------------
(* Two button nodes with three buttons; a switch with two clients, of which  *)
(* one is gone; and this switch together with a button node.                 *)
EXTENDS Panel
CONSTANTS b1, b2, sw, d1, gone
MCInputTypes == {[n \in Node |-> IF n = sw THEN "absent" ELSE "button"],
                 [n \in Node |-> IF n = sw THEN "switch" ELSE IF n = b1 THEN "button" ELSE "absent"],
                 [n \in Node |-> IF n = sw THEN "switch" ELSE "absent"]}
MCClientList == <<d1, gone, Skip>>
MCContact == [n \in Node |-> IF n = b2 THEN {1, 2} ELSE {1}]
=============================================================================
