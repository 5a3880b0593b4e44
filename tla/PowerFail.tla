----------------------------- MODULE PowerFail ------------------------------
(***************************************************************************)
(* devices/do31/main.c: outputs are saved in the EEPROM by the power       *)
(* failure interrupt and restored at the next start.  Slots of four bytes  *)
(* are used in turn; bit 7 of a slot's last byte is 0 when it is valid.    *)
(***************************************************************************)
EXTENDS DigOut

CONSTANTS
  NumSlots,                 \* in EEPROM_DO_RESTORE_START .. EEPROM_DO_RESTORE_END
  MaxLosses                 \* bound: losses of power

ASSUME SlotsAssumption == NumSlots \in Nat \ {0} /\ MaxLosses \in Nat

VARIABLES
  digOut, calls,            \* the outputs, and the calls the main loop has begun
  eeprom, valid,            \* by slot: the bits that are 1; the slots with bit 7 clear
  next, slot,               \* spNextPtrToEeprom, ptrToEeprom
  power,                    \* what the supply makes the program do
  buf, byte,                \* the copy to be saved, the next byte to be written
  kept,                     \* outputs that stood when they were last saved, until restored
  losses

vars == <<digOut, calls, eeprom, valid, next, slot, power, buf, byte, kept, losses>>

Slots == 0 .. NumSlots - 1
Powers == {"off", "restore", "erase", "run", "save", "saved"}
Bits(b) == {n \in Outputs : n \div 8 = b}

PowerInit ==
  /\ digOut = DigOutInit /\ calls = <<>>
  /\ eeprom = [s \in Slots |-> Outputs] /\ valid = {}
  /\ next = 0 /\ slot = 0 /\ power = "off" /\ buf = {} /\ byte = 0 /\ kept = {}
  /\ losses = 0

-----------------------------------------------------------------------------
Advanced(s) == (s + 1) % NumSlots

(* Start up to the search in RestoreDigOut *)
Boot ==
  /\ power = "off"
  /\ \/ /\ valid = {}
        /\ next' = 0 /\ power' = "run" /\ kept' = {}
        /\ UNCHANGED slot
     \/ /\ valid # {}
        /\ slot' = CHOOSE s \in valid : \A t \in valid : s <= t
        /\ next' = Advanced(slot') /\ power' = "restore"
        /\ UNCHANGED kept
  /\ UNCHANGED <<digOut, calls, eeprom, valid, buf, byte, losses>>

(* DigOutAll of what was read *)
Restore ==
  /\ power = "restore"
  /\ digOut' = [digOut EXCEPT !.on = eeprom[slot]]
  /\ power' = "erase" /\ byte' = 0
  /\ UNCHANGED <<calls, eeprom, valid, next, slot, buf, kept, losses>>

Erased(i) == i

(* Mutant of Invalid: only the first three bytes are erased. *)
InvalidNot(s) == {}

Invalid(s) == {s}

(* The four writes of 0xff; with the last one the interrupt is enabled.       *)
Erase ==
  /\ power = "erase"
  /\ eeprom' = [eeprom EXCEPT ![slot] = @ \union Bits(Erased(byte))]
  /\ valid' = IF Erased(byte) = 3 THEN valid \ Invalid(slot) ELSE valid
  /\ IF byte < 3 THEN byte' = byte + 1 /\ UNCHANGED <<power, kept>>
                 ELSE byte' = 0 /\ power' = "run" /\ kept' = {}
  /\ UNCHANGED <<digOut, calls, next, slot, buf, losses>>

-----------------------------------------------------------------------------
(* Mutant of Saved: all outputs are already switched off. *)
SavedOff(d) == {}

Saved(d) == StateAllStandard(d)

(* ISR(INT0_vect) up to the first write; it never returns. *)
PowerFailure ==
  /\ power = "run" /\ losses < MaxLosses
  /\ buf' = Saved(digOut)
  /\ digOut' = [digOut EXCEPT !.on = {}]
  /\ power' = "save" /\ byte' = 0
  /\ kept' = {n \in digOut.on : digOut.kind[n] = "NoDelay"}
  /\ UNCHANGED <<calls, eeprom, valid, next, slot, losses>>

Save ==
  /\ power = "save"
  /\ eeprom' = [eeprom EXCEPT ![next] = (@ \ Bits(byte)) \union (buf \intersect Bits(byte))]
  /\ IF byte < 3 THEN byte' = byte + 1 /\ UNCHANGED <<valid, power>>
                 ELSE byte' = 0 /\ valid' = valid \union {next} /\ power' = "saved"
  /\ UNCHANGED <<digOut, calls, next, slot, buf, kept, losses>>

(* The supply is gone, or the watchdog ends the wait of the interrupt: all    *)
(* but the EEPROM is lost.                                                    *)
PowerLoss ==
  /\ power # "off" /\ losses < MaxLosses /\ losses' = losses + 1
  /\ power' = "off"
  /\ digOut' = DigOutInit /\ calls' = <<>>
  /\ next' = 0 /\ slot' = 0 /\ buf' = {} /\ byte' = 0
  /\ kept' = IF power = "save" THEN {} ELSE kept
  /\ UNCHANGED <<eeprom, valid>>

PowerNext == Boot \/ Restore \/ Erase \/ PowerFailure \/ Save \/ PowerLoss

(* The main loop changes outputs and nothing that belongs to the save. *)
MainLoop ==
  /\ power = "run"
  /\ UNCHANGED <<eeprom, valid, next, slot, power, buf, byte, kept, losses>>

(* What it does to the outputs is left open. *)
PowerSpec == PowerInit /\ [][PowerNext \/ (MainLoop /\ digOut'.on \subseteq Outputs)]_vars

-----------------------------------------------------------------------------
(* Two slots are never valid at once, so the one that the search finds first  *)
(* is the newest, and none is while the program runs (RestoreDigOut, INT0).   *)
OneSaved == \A s, t \in valid : s = t /\ power # "run"

(* Outputs that were on without a delay when the supply failed, and were      *)
(* saved completely, are on again when the main loop starts, however often it *)
(* fails meanwhile.  What else comes on are the outputs of the bytes that an  *)
(* interrupted erase has already set to 0xff (RestoreDigOut, INT0).           *)
NothingForgotten ==
  power \notin {"save", "run"} =>
    /\ kept # {} => valid # {}
    /\ \A s \in valid : \E b \in 0 .. 3 : eeprom[s] = kept \union UNION {Bits(i) : i \in 0 .. b - 1}
    /\ power = "erase" => kept \subseteq digOut.on

(* "Das MSB im letzten Byte zeigt mit dem Wert 0 die Gueltigkeit der Daten an" *)
(* (comment of RestoreDigOut): a slot with the bit clear holds what was saved. *)
ValidFlag == power # "save" => \A s \in valid : eeprom[s] = kept
=============================================================================
