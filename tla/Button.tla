------------------------------- MODULE Button -------------------------------
(***************************************************************************)
(* devices/common/button.c: the list of active buttons, from whose         *)
(* repeated telegrams it makes one press and one release.                  *)
(***************************************************************************)
EXTENDS Integers, FiniteSets

CONSTANTS
  BUTTON_MAX_NUM_ACTIVE,
  BUTTON_TIMEOUT            \* in ticks

ASSUME ButtonAssumption == BUTTON_MAX_NUM_ACTIVE \in Nat \ {0} /\ BUTTON_TIMEOUT \in Nat

(* The list is a set of entries, at most one for a button; a key is an address  *)
(* and a button number, age the ticks since timeStamp.                          *)
Entry(key, age) == [key |-> key, age |-> age]
Keys(list) == {e.key : e \in list}
Full(list) == Cardinality(list) >= BUTTON_MAX_NUM_ACTIVE

(* ButtonNew: its result, and what it leaves in the list.  When the list is     *)
(* full the key is new every time and the time stamp is written behind it.      *)
IsNew(list, key) == key \notin Keys(list)

(* Mutant of Noted: the end of the list is not checked. *)
NotedPast(list, key) == {e \in list : e.key # key} \union {Entry(key, 0)}

Noted(list, key) ==
  IF IsNew(list, key) /\ Full(list) THEN list
  ELSE {e \in list : e.key # key} \union {Entry(key, 0)}

(* Mutant of Refreshed: nothing is done about receive errors. *)
RefreshedNot(list) == list

(* ButtonTimeStampRefresh *)
Refreshed(list) == {Entry(e.key, 0) : e \in list}

(* ButtonReleased *)
Overdue(list) == {e.key : e \in {f \in list : f.age > BUTTON_TIMEOUT}}

(* ButtonGetReleaseEvent *)
Released(list, key) == {e \in list : e.key # key}

Aged(list) == {Entry(e.key, e.age + 1) : e \in list}
=============================================================================
