----------------------------- MODULE MCKlaus240 -----------------------------
(* Three lamps on the stairs, and the other outputs one kind at a time. *)
EXTENDS Klaus240
MCLamps == <<1, 2, 3>>
MCOutputs == {0, 1, 2, 3, 9, 13, 17, 18, 25, 30}
MCUsers == {{"18_0", "19_0"}, {"34_0", "25_0"}, {"30_0", "25_0"}, {"51_0", "101_0"}, {"29_0", "37_0"}}
=============================================================================
