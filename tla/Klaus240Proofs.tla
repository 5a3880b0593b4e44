-------------------------- MODULE Klaus240Proofs ----------------------------
(***************************************************************************)
(* The program of klaus240 leaves the save to RestoreDigOut and to the     *)
(* power failure interrupt, so what is proved of them holds for it.  What  *)
(* the handlers promise of the stairs and of the light of the door rests   *)
(* on HouseInv: where the calls of a handler that are still to come lead   *)
(* to, from between any two of them.                                       *)
(***************************************************************************)
EXTENDS Klaus240, TLAPS, FiniteSetTheorems, WellFoundedInduction

-----------------------------------------------------------------------------
(* PowerFail: what the EEPROM holds of the outputs, for any outputs, number of *)
(* slots and losses of power, and whatever the main loop does to the outputs.  *)
PowerTypeOK ==
  /\ digOut.on \subseteq Outputs
  /\ eeprom \in [Slots -> SUBSET Outputs] /\ valid \subseteq Slots
  /\ next \in Slots /\ slot \in Slots /\ power \in Powers
  /\ byte \in 0 .. 3 /\ buf \subseteq Outputs /\ kept \subseteq Outputs

AtMostOne == \A s, t \in valid : s = t

(* Where the valid slot is, in the states of the supply that know it *)
Place ==
  /\ AtMostOne
  /\ power \in {"run", "save"} => valid = {}
  /\ power \in {"restore", "erase"} => valid = {slot}

(* The bytes before b *)
Below(b) == {n \in Outputs : n \div 8 < b}

(* What the slots hold: b bytes are erased, byte of them in this start. *)
Content ==
  /\ power = "run" => kept = {}
  /\ power = "save" => buf = kept /\ eeprom[next] \intersect Below(byte) = buf \intersect Below(byte)
  /\ power \notin {"save", "run"} =>
       /\ kept # {} => valid # {}
       /\ \A s \in valid : \E b \in 0 .. 3 :
            /\ eeprom[s] = kept \union Below(b)
            /\ power = "erase" => byte <= b
  /\ power = "erase" => kept \subseteq digOut.on

SaveInv == PowerTypeOK /\ Place /\ Content

LEMMA SlotZero == 0 \in Slots /\ Slots \subseteq Int /\ \A s \in Slots : Advanced(s) \in Slots
<1>1. NumSlots \in Nat \ {0}
  BY SlotsAssumption DEF SlotsAssumption
<1>2. \A s \in Slots : (s + 1) % NumSlots \in 0 .. NumSlots - 1
  BY <1>1 DEF Slots
<1> QED
  BY <1>1, <1>2 DEF Slots, Advanced

LEMMA BelowNext ==
  /\ Below(0) = {} /\ Below(4) = Outputs
  /\ \A b \in 0 .. 3 : Bits(b) \subseteq Outputs /\ Below(b + 1) = Below(b) \union Bits(b)
  /\ \A b \in 0 .. 4, c \in 0 .. 4 : c <= b => Below(c) \subseteq Below(b)
<1>1. \A n \in Outputs : n \in 0 .. 30
  BY OutputsAssumption DEF OutputsAssumption
<1>2. \A n \in 0 .. 30 : n \div 8 \in 0 .. 3
  OBVIOUS
<1> QED
  BY <1>1, <1>2 DEF Below, Bits

LEMMA BelowUnion == \A b \in 0 .. 3 : Below(b) = UNION {Bits(i) : i \in 0 .. b - 1}
<1>1. \A n \in Outputs : n \div 8 \in 0 .. 3
  <2>1. \A n \in Outputs : n \in 0 .. 30
    BY OutputsAssumption DEF OutputsAssumption
  <2>2. \A n \in 0 .. 30 : n \div 8 \in 0 .. 3
    OBVIOUS
  <2> QED
    BY <2>1, <2>2
<1>2. TAKE b \in 0 .. 3
<1>3. ASSUME NEW n \in Below(b) PROVE \E i \in 0 .. b - 1 : n \in Bits(i)
  <2>1. n \in Outputs /\ n \div 8 < b /\ n \div 8 \in 0 .. 3
    BY <1>1 DEF Below
  <2>2. n \in Bits(n \div 8)
    BY <2>1 DEF Bits
  <2> DEFINE i == n \div 8
  <2>3. i \in 0 .. b - 1 /\ n \in Bits(i)
    <3> HIDE DEF i
    <3>1. i \in 0 .. 3 /\ i < b /\ n \in Bits(i)
      BY <2>1, <2>2 DEF i
    <3> QED
      BY <3>1
  <2> HIDE DEF i
  <2> QED
    BY <2>3
<1>4. \A i \in 0 .. b - 1 : Bits(i) \subseteq Below(b)
  BY DEF Below, Bits
<1> QED
  BY <1>3, <1>4

LEMMA InitSaveInv == PowerInit => SaveInv
  BY SlotZero DEF PowerInit, SaveInv, PowerTypeOK, Place, AtMostOne, Content, DigOutInit, Powers

LEMMA BootStep == SaveInv /\ Boot => SaveInv'
<1> SUFFICES ASSUME SaveInv, Boot PROVE SaveInv'
  OBVIOUS
<1> USE DEF SaveInv, PowerTypeOK, Place, AtMostOne, Content, Powers
<1>1. CASE valid = {} /\ next' = 0 /\ power' = "run" /\ kept' = {} /\ UNCHANGED slot
  BY <1>1, SlotZero DEF Boot
<1>2. CASE /\ valid # {}
           /\ slot' = CHOOSE s \in valid : \A t \in valid : s <= t
           /\ next' = Advanced(slot') /\ power' = "restore" /\ UNCHANGED kept
  <2>1. PICK x \in valid : valid = {x}
    BY <1>2
  <2>2. x \in Int /\ x <= x
    BY <2>1, SlotZero
  <2>3. slot' = x
    BY <1>2, <2>1, <2>2
  <2>4. next' \in Slots
    BY <1>2, <2>1, <2>3, SlotZero
  <2> QED
    BY <1>2, <2>1, <2>3, <2>4 DEF Boot
<1> QED
  BY <1>1, <1>2 DEF Boot

LEMMA RestoreStep == SaveInv /\ Restore => SaveInv'
  BY DEF SaveInv, PowerTypeOK, Place, AtMostOne, Content, Powers, Restore

LEMMA EraseStep == SaveInv /\ Erase => SaveInv'
<1> SUFFICES ASSUME SaveInv, Erase PROVE SaveInv'
  OBVIOUS
<1> USE DEF SaveInv, PowerTypeOK, Place, AtMostOne, Content, Powers
<1>1. valid = {slot} /\ Erased(byte) = byte /\ Bits(byte) \subseteq Outputs
  BY BelowNext DEF Erase, Erased
<1>2. eeprom' \in [Slots -> SUBSET Outputs] /\ eeprom'[slot] = eeprom[slot] \union Bits(byte)
  BY <1>1 DEF Erase
<1>3. CASE byte < 3
  <2>1. PICK b \in 0 .. 3 : eeprom[slot] = kept \union Below(b) /\ byte <= b
    BY <1>1 DEF Erase
  <2>2. valid' = {slot} /\ power' = "erase" /\ byte' = byte + 1 /\ slot' = slot /\ kept' = kept
    BY <1>1, <1>3 DEF Erase
  <2>3. \E c \in 0 .. 3 : eeprom'[slot] = kept \union Below(c) /\ byte' <= c
    <3>1. CASE byte = b
      BY <1>2, <1>3, <2>1, <2>2, <3>1, BelowNext
    <3>2. CASE byte < b
      <4>1. byte + 1 <= b /\ byte + 1 \in 0 .. 4 /\ b \in 0 .. 4
        BY <2>1, <3>2
      <4>2. Bits(byte) \subseteq Below(b)
        BY <4>1, BelowNext
      <4> QED
        BY <1>2, <2>1, <2>2, <4>1, <4>2
    <3> QED
      BY <2>1, <3>1, <3>2
  <2>4. PowerTypeOK'
    BY <1>2, <1>3, <2>2 DEF Erase
  <2>5. Place'
    BY <2>2
  <2>6. Content'
    BY <2>1, <2>2, <2>3 DEF Erase
  <2> QED
    BY <2>4, <2>5, <2>6
<1>4. CASE ~(byte < 3)
  BY <1>1, <1>2, <1>4 DEF Erase, Invalid
<1> QED
  BY <1>3, <1>4

LEMMA PowerFailureStep == SaveInv /\ PowerFailure => SaveInv'
<1> SUFFICES ASSUME SaveInv, PowerFailure PROVE SaveInv'
  OBVIOUS
<1> USE DEF SaveInv, PowerTypeOK, Place, AtMostOne, Content, Powers, PowerFailure
<1>1. buf' = kept' /\ kept' \subseteq Outputs
  BY DEF Saved, StateAllStandard, IsDelayed
<1>2. digOut'.on = {}
  OBVIOUS
<1> QED
  BY <1>1, <1>2, BelowNext

LEMMA SaveStep == SaveInv /\ Save => SaveInv'
<1> SUFFICES ASSUME SaveInv, Save PROVE SaveInv'
  OBVIOUS
<1> USE DEF SaveInv, PowerTypeOK, Place, AtMostOne, Content, Powers
<1> DEFINE written == (eeprom[next] \ Bits(byte)) \union (buf \intersect Bits(byte))
<1>1. eeprom' \in [Slots -> SUBSET Outputs] /\ eeprom'[next] = written
  BY DEF Save
<1>2. written \intersect Below(byte + 1) = buf \intersect Below(byte + 1)
  <2>1. Below(byte + 1) = Below(byte) \union Bits(byte)
    BY BelowNext
  <2> QED
    BY <2>1 DEF Save
<1>3. CASE byte < 3
  BY <1>1, <1>2, <1>3 DEF Save
<1>4. CASE ~(byte < 3)
  <2>1. byte + 1 = 4 /\ written \subseteq Outputs
    BY <1>1, <1>4
  <2>2. written = kept
    BY <1>2, <2>1, BelowNext DEF Save
  <2>3. valid' = {next} /\ power' = "saved" /\ eeprom'[next] = kept \union Below(0)
    BY <1>1, <1>4, <2>2, BelowNext DEF Save
  <2> QED
    BY <1>1, <1>4, <2>3 DEF Save
<1> QED
  BY <1>3, <1>4

LEMMA PowerLossStep == SaveInv /\ PowerLoss => SaveInv'
  BY SlotZero DEF SaveInv, PowerTypeOK, Place, AtMostOne, Content, Powers, PowerLoss, DigOutInit

LEMMA MainLoopStep == SaveInv /\ MainLoop /\ digOut'.on \subseteq Outputs => SaveInv'
  BY DEF SaveInv, PowerTypeOK, Place, AtMostOne, Content, MainLoop

LEMMA StepSaveInv ==
  SaveInv /\ [PowerNext \/ (MainLoop /\ digOut'.on \subseteq Outputs)]_vars => SaveInv'
<1>1. SaveInv /\ UNCHANGED vars => SaveInv'
  BY DEF vars, SaveInv, PowerTypeOK, Place, AtMostOne, Content
<1> QED
  BY <1>1, BootStep, RestoreStep, EraseStep, PowerFailureStep, SaveStep, PowerLossStep, MainLoopStep
     DEF PowerNext

LEMMA SaveInvSuffices == SaveInv => OneSaved /\ NothingForgotten
  BY BelowUnion DEF SaveInv, Place, AtMostOne, Content, OneSaved, NothingForgotten

(* Never are two slots valid, and none is while the program runs, however     *)
(* often and wherever the supply fails (RestoreDigOut, INT0_vect).            *)
THEOREM SavedOnce == PowerSpec => []OneSaved
  BY InitSaveInv, StepSaveInv, SaveInvSuffices, PTL DEF PowerSpec

(* Outputs whose save was completed come on again, whatever the main loop did *)
(* to them and however often the supply fails in RestoreDigOut.               *)
THEOREM SavedIsRestored == PowerSpec => []NothingForgotten
  BY InitSaveInv, StepSaveInv, SaveInvSuffices, PTL DEF PowerSpec

-----------------------------------------------------------------------------
(* The program of klaus240 is such a main loop.                                *)

(* Place depends on what the supply does, and not on the outputs. *)
PlaceInv ==
  /\ valid \subseteq Slots /\ next \in Slots /\ slot \in Slots /\ byte \in 0 .. 3
  /\ Place

LEMMA PlaceInit == Init => PlaceInv
  BY SlotZero DEF Init, PowerInit, PlaceInv, Place, AtMostOne

LEMMA PlaceBoot == PlaceInv /\ Boot => PlaceInv'
<1> SUFFICES ASSUME PlaceInv, Boot PROVE PlaceInv'
  OBVIOUS
<1> USE DEF PlaceInv, Place, AtMostOne
<1>1. CASE valid = {} /\ next' = 0 /\ power' = "run" /\ UNCHANGED slot
  BY <1>1, SlotZero DEF Boot
<1>2. CASE /\ valid # {}
           /\ slot' = CHOOSE s \in valid : \A t \in valid : s <= t
           /\ next' = Advanced(slot') /\ power' = "restore"
  <2>1. PICK x \in valid : valid = {x}
    BY <1>2
  <2>2. x \in Int /\ x <= x
    BY <2>1, SlotZero
  <2>3. slot' = x
    BY <1>2, <2>1, <2>2
  <2>4. next' \in Slots
    BY <1>2, <2>1, <2>3, SlotZero
  <2> QED
    BY <1>2, <2>1, <2>3, <2>4 DEF Boot
<1> QED
  BY <1>1, <1>2 DEF Boot

LEMMA PlaceStep == PlaceInv /\ [PowerNext \/ MainLoop]_vars => PlaceInv'
<1> SUFFICES ASSUME PlaceInv, [PowerNext \/ MainLoop]_vars PROVE PlaceInv'
  OBVIOUS
<1> USE DEF PlaceInv, Place, AtMostOne
<1>1. CASE Restore
  BY <1>1 DEF Restore
<1>2. CASE Erase
  BY <1>2 DEF Erase, Erased, Invalid
<1>3. CASE PowerFailure
  BY <1>3 DEF PowerFailure
<1>4. CASE Save
  BY <1>4 DEF Save
<1>5. CASE PowerLoss
  BY <1>5, SlotZero DEF PowerLoss
<1>6. CASE MainLoop \/ UNCHANGED vars
  BY <1>6 DEF MainLoop, vars
<1> QED
  BY <1>1, <1>2, <1>3, <1>4, <1>5, <1>6, PlaceBoot DEF PowerNext

(* Every step of the house is one of the supply or of its main loop. *)
LEMMA HouseStep == [Next]_allVars => [PowerNext \/ MainLoop]_vars
<1> SUFFICES ASSUME [Next]_allVars PROVE [PowerNext \/ MainLoop]_vars
  OBVIOUS
<1>1. CASE Supplied
  BY <1>1 DEF Supplied, PowerNext
<1>2. CASE Continue \/ Tick
  BY <1>2 DEF Continue, Tick
<1>3. CASE NoTelegram \/ CheckButton \/ DigOutStateCheck \/ ApplicationCheck \/ SetVar
  BY <1>3 DEF NoTelegram, CheckButton, DigOutStateCheck, ApplicationCheck, SetVar, At
<1>4. CASE (\E b \in used : ButtonEvent(b)) \/ (\E b \in pressed : ButtonReleased(b)) \/ SetValue(Door)
  BY <1>4 DEF ButtonEvent, ButtonReleased, SetValue, At
<1>5. CASE UNCHANGED allVars
  BY <1>5 DEF allVars
<1> QED
  BY <1>1, <1>2, <1>3, <1>4, <1>5 DEF Next

(* Whatever is pressed, and wherever the supply fails, at most one slot is    *)
(* valid, and none while the program runs: the search of RestoreDigOut cannot *)
(* find an old state.                                                         *)
THEOREM HouseSavesOnce == Spec => []OneSaved
<1>1. PlaceInv => OneSaved
  BY DEF PlaceInv, Place, AtMostOne, OneSaved
<1> QED
  BY <1>1, PlaceInit, PlaceStep, HouseStep, PTL DEF Spec

-----------------------------------------------------------------------------
(* What is still to be called, without the order. *)
Pending(s) == {s[i] : i \in 1 .. Len(s)}

Ops == Kinds \union {"On", "Off", "Toggle"}
AnyCalls == [op : Ops, n : Outputs, ticks : Nat]
AnyDigOut == [on : SUBSET Outputs, kind : [Outputs -> Kinds], left : [Outputs -> Nat]]

Loops == {"ProcessBus", "CheckButton", "DigOutStateCheck", "ApplicationCheck"}
Modes == {AUTO, OFF, ON}

TypeInv ==
  /\ PlaceInv
  /\ digOut \in AnyDigOut /\ calls \in Seq(AnyCalls)
  /\ eeprom \in [Slots -> SUBSET Outputs]
  /\ power \in Powers /\ buf \in SUBSET Outputs /\ kept \in SUBSET Outputs
  /\ loop \in Loops /\ digoutNum \in Outputs /\ used \in Users /\ pressed \in SUBSET used
  /\ brightness \in 0 .. 1 /\ mode \in Modes /\ modeLightOld \in Modes
  /\ disable \in BOOLEAN /\ doorlightAutoState \in BOOLEAN /\ bellToggle \in BOOLEAN /\ ruled \in BOOLEAN

(* The light of the door: while somebody rules it no delay of it runs, and    *)
(* what is still called leaves it alone, or is the one call that sets it.     *)
Wanted == mode = ON \/ (mode = AUTO /\ doorlightAutoState)

LightInv ==
  /\ doorlightAutoState <=> "101_0" \in pressed
  /\ power \in {"off", "restore", "erase"} => ~ruled /\ calls = <<>>
  /\ loop = "ProcessBus" => mode = modeLightOld
  /\ power = "run" /\ ruled =>
       /\ digOut.kind[Door] = "NoDelay"
       /\ \/ calls \in {<<On(Door)>>, <<Off(Door)>>} /\ (mode = modeLightOld => calls = <<ByMode>>)
          \/ /\ \A c \in Pending(calls) : c.n # Door
             /\ mode = modeLightOld => (Door \in digOut.on <=> Wanted)

(* The stairs. *)
LampSet == {Lamps[i] : i \in 1 .. Len(Lamps)}
AtMostOneLamp(X) == \A m, n \in LampSet \intersect X : m = n
Lit(X) == Supply \in X \/ AtMostOneLamp(X)

(* Between two calls.  The supply that goes off does so after the lamps, with *)
(* the last of them; while it is off none is to come on.                      *)
Going(d) ==
  /\ d.kind[Supply] # "DelayOn"
  /\ d.kind[Supply] = "DelayOff" /\ Supply \in d.on =>
       /\ \A n \in LampSet \intersect d.on : d.kind[n] = "DelayOff" /\ d.left[n] <= d.left[Supply]
       /\ \A m, n \in LampSet \intersect d.on : m = n \/ d.left[m] < d.left[Supply] \/ d.left[n] < d.left[Supply]
       /\ \A n \in LampSet \ d.on : d.kind[n] # "DelayOn"
  /\ Supply \notin d.on => AtMostOneLamp(d.on) /\ \A n \in LampSet : d.kind[n] # "DelayOn"

(* What may be called next, by what was begun. *)
Elsewhere(s) == \A c \in Pending(s) : c.n \notin LampSet /\ c.n # Supply
Cancelling(d, s) ==
  /\ \A c \in Pending(s) : c.op = "NoDelay" /\ c.n \in LampSet
  /\ d.kind[Supply] = "NoDelay"
BeginsCancelling(s) ==
  /\ s # <<>> /\ Head(s) = DelayCancel(Supply)
  /\ \A c \in Pending(Tail(s)) : c.op = "NoDelay" /\ c.n \in LampSet
LampsOnly(d, s) ==
  /\ \A c \in Pending(s) : c.n \in LampSet
  /\ d.kind[Supply] = "NoDelay" /\ Supply \in d.on
BeginsOn(d, s) ==
  /\ s # <<>> /\ Head(s) = On(Supply) /\ d.kind[Supply] = "NoDelay"
  /\ \A c \in Pending(Tail(s)) : c.n \in LampSet
TimesOff(d, T, t) ==
  /\ \A n \in LampSet \intersect d.on : T[n] <= t
  /\ \A m, n \in LampSet \intersect d.on : m = n \/ T[m] < t \/ T[n] < t
GoesOff(d, s, T, t) ==
  /\ s # <<>> /\ s[Len(s)] = Call("DelayOff", Supply, t)
  /\ Supply \in d.on /\ (d.kind[Supply] = "NoDelay" \/ LampSet \intersect d.on = {})
  /\ \A i \in 1 .. Len(s) - 1 :
       s[i] = On(Supply) \/ \E n \in LampSet \intersect d.on : s[i] \in {On(n), Call("DelayOff", n, T[n])}
  /\ \A n \in LampSet \intersect d.on :
       (d.kind[n] = "DelayOff" /\ d.left[n] = T[n]) \/ \E i \in 1 .. Len(s) - 1 : s[i] = Call("DelayOff", n, T[n])
  /\ \A n \in LampSet \ d.on : d.kind[n] # "DelayOn"
GoingOff(d, s) == \E T \in [LampSet -> Nat], t \in Nat : TimesOff(d, T, t) /\ GoesOff(d, s, T, t)
ServesLamp(d, s) == \E n \in LampSet :
  \/ s = <<IF d.kind[n] = "DelayOn" THEN On(n) ELSE Off(n), DelayCancel(n)>> /\ d.kind[n] # "NoDelay"
  \/ s = <<DelayCancel(n)>> /\ n \notin d.on
ServesSupply(d, s) ==
  \/ s = <<Off(Supply), DelayCancel(Supply)>> /\ d.kind[Supply] = "DelayOff" /\ Supply \in d.on /\ d.left[Supply] = 0
  \/ s = <<DelayCancel(Supply)>> /\ Supply \notin d.on

Begun(d, s) ==
  \/ Elsewhere(s) \/ Cancelling(d, s) \/ BeginsCancelling(s) \/ LampsOnly(d, s) \/ BeginsOn(d, s)
  \/ GoingOff(d, s) \/ ServesLamp(d, s) \/ ServesSupply(d, s)

StairInv ==
  /\ power = "run" =>
       /\ Going(digOut) /\ Begun(digOut, calls)
       /\ Supply \in digOut.on \/ digOut.kind[Supply] = "NoDelay" \/ calls = <<DelayCancel(Supply)>>
  /\ power \in {"off", "restore", "erase"} =>
       calls = <<>> /\ Lit(digOut.on) /\ \A n \in Outputs : digOut.kind[n] = "NoDelay"
  /\ \A s \in valid : Lit(eeprom[s])
  /\ power = "save" => Lit(buf) /\ (byte > 0 => Lit(eeprom[next]))
-----------------------------------------------------------------------------
(* What the constants and the outputs are. *)
LEMMA Induct ==
  ASSUME NEW S, 0 \in S, \A n \in Nat : n \in S => n + 1 \in S
  PROVE  \A n \in Nat : n \in S
  <1> DEFINE T == {n \in Nat : n \notin S}
  <1>1. SUFFICES ASSUME T # {} PROVE FALSE
    OBVIOUS
  <1>2. PICK x \in T : \A y \in T : ~ (<<y, x>> \in OpToRel(<, Nat))
    BY <1>1, WFMin, NatLessThanWellFounded
  <1>3. \A y \in T : ~ (y < x)
    BY <1>2 DEF OpToRel
  <1>4. x \in Nat /\ 0 \in S /\ x \notin S
    BY <1>2
  <1>5. x # 0 /\ x - 1 \in Nat /\ x - 1 + 1 = x /\ x - 1 < x
    BY <1>4
  <1>6. x - 1 \in S
    BY <1>3, <1>5
  <1> QED BY <1>4, <1>5, <1>6

LEMMA Least ==
  ASSUME NEW S \in SUBSET Nat, S # {}
  PROVE  \E m \in S : \A n \in S : m <= n
<1>1. PICK x \in S : \A y \in S : ~ (<<y, x>> \in OpToRel(<, Nat))
  <2>1. IsWellFoundedOn(OpToRel(<, Nat), S)
    BY NatLessThanWellFounded, IsWellFoundedOnSubset
  <2> QED BY <2>1, WFMin
<1>2. \A y \in S : ~ (y < x)
  BY <1>1 DEF OpToRel
<1> QED BY <1>2

LEMMA OutputsAre ==
  /\ Outputs \subseteq 0 .. 30 /\ Outputs \subseteq Nat /\ IsFiniteSet(Outputs)
  /\ Supply \in Outputs /\ Bell \in Outputs /\ Door \in Outputs /\ 17 \in Outputs /\ 25 \in Outputs
<1>1. Outputs \subseteq 0 .. 30 /\ Outputs \subseteq Nat
  BY OutputsAssumption DEF OutputsAssumption
<1>2. IsFiniteSet(Outputs)
  <2>1. 0 \in Int /\ 30 \in Int
    OBVIOUS
  <2>2. IsFiniteSet(0 .. 30)
    BY ONLY <2>1, FS_Interval, Zenon
  <2> QED BY <1>1, <2>2, FS_Subset
<1> QED BY <1>1, <1>2, Klaus240Assumption DEF Klaus240Assumption

LEMMA LampsAre ==
  /\ Lamps \in Seq(Outputs) /\ Len(Lamps) \in Nat \ {0}
  /\ \A i \in 1 .. Len(Lamps) : Lamps[i] \in 1 .. 6 /\ Lamps[i] \in Outputs /\ Lamps[i] \in LampSet
  /\ \A i, j \in 1 .. Len(Lamps) : Lamps[i] = Lamps[j] => i = j
  /\ LampSet \subseteq Outputs /\ LampSet \subseteq 1 .. 6 /\ Supply \notin LampSet /\ Door \notin LampSet
<1>1. Lamps \in Seq((1 .. 6) \intersect Outputs) /\ Lamps # <<>>
  BY Klaus240Assumption DEF Klaus240Assumption
<1>2. \A i, j \in DOMAIN Lamps : Lamps[i] = Lamps[j] => i = j
  BY Klaus240Assumption DEF Klaus240Assumption
<1>3. Lamps \in Seq(Outputs) /\ Len(Lamps) \in Nat \ {0} /\ DOMAIN Lamps = 1 .. Len(Lamps)
  BY <1>1
<1>4. \A i \in 1 .. Len(Lamps) : Lamps[i] \in (1 .. 6) \intersect Outputs
  BY <1>1
<1>5. LampSet \subseteq (1 .. 6) \intersect Outputs
  BY <1>4 DEF LampSet
<1>6. Supply \notin LampSet /\ Door \notin LampSet
  BY <1>5 DEF Supply, Door
<1>7. \A i \in 1 .. Len(Lamps) : Lamps[i] \in LampSet
  BY DEF LampSet
<1>8. \A i, j \in 1 .. Len(Lamps) : Lamps[i] = Lamps[j] => i = j
  BY <1>2, <1>3
<1>9. \A i \in 1 .. Len(Lamps) : Lamps[i] \in 1 .. 6 /\ Lamps[i] \in Outputs
  BY <1>4
<1> QED BY <1>3, <1>5, <1>6, <1>7, <1>8, <1>9

LEMMA DelaysAre == DELAY \in Nat /\ DELAY > 0 /\ LONG \in Nat /\ PULSE \in Nat /\ AUTO # OFF /\ AUTO # ON /\ OFF # ON
  BY Klaus240Assumption DEF Klaus240Assumption

LEMMA FollowingIn == ASSUME NEW n \in Int PROVE Following(n) \in Outputs
<1> DEFINE later == {m \in Outputs : m > n}
<1> DEFINE S == IF later # {} THEN later ELSE Outputs
<1>1. S \in SUBSET Nat /\ S # {} /\ S \subseteq Outputs
  BY OutputsAre
<1>2. PICK m \in S : \A l \in S : m <= l
  BY <1>1, Least
<1>3. \E x \in Outputs : IF later # {} THEN x \in later /\ \A l \in later : x <= l
                                      ELSE \A l \in Outputs : x <= l
  BY <1>1, <1>2
<1> QED BY <1>3 DEF Following

(* The handlers that toggle or time outputs leave those of the stairs and of  *)
(* the door alone.                                                            *)
Others == (7 .. 30) \ {Door}

LEMMA OthersAre ==
  /\ \A p \in Toggled \union Timed : p[2] \in Others
  /\ \A p \in Toggled \union Timed : p[1] \in Buttons => p[2] \in Outputs
<1>1. \A p \in Toggled18 \union Toggled24 : p[2] \in Others
  BY DEF Toggled18, Toggled24, Others, Door
<1>2. \A p \in Toggled31 \union Toggled38 : p[2] \in Others
  BY DEF Toggled31, Toggled38, Others, Door
<1>3. \A p \in Timed : p[2] \in Others
  BY DEF Timed, TimedUpstairs, TimedGarage, Others, Door
<1> QED BY <1>1, <1>2, <1>3, WiredAssumption DEF Toggled, WiredAssumption

-----------------------------------------------------------------------------
(* Sequences of calls, and what one of them does. *)
LEMMA PendingNone == Pending(<<>>) = {}
  BY DEF Pending

LEMMA PendingOne == ASSUME NEW c PROVE Pending(<<c>>) = {c}
  BY DEF Pending

LEMMA PendingTwo == ASSUME NEW c, NEW e PROVE Pending(<<c, e>>) = {c, e}
  BY DEF Pending

LEMMA PendingBoth ==
  ASSUME NEW S, NEW s \in Seq(S), NEW t \in Seq(S)
  PROVE  /\ s \o t \in Seq(S) /\ Len(s \o t) = Len(s) + Len(t)
         /\ \A i \in 1 .. Len(s) : (s \o t)[i] = s[i]
         /\ \A k \in 1 .. Len(t) : (s \o t)[Len(s) + k] = t[k]
         /\ Pending(s \o t) = Pending(s) \union Pending(t)
<1>1. /\ s \o t \in Seq(S) /\ Len(s \o t) = Len(s) + Len(t)
      /\ \A i \in 1 .. Len(s) : (s \o t)[i] = s[i]
      /\ \A k \in 1 .. Len(t) : (s \o t)[Len(s) + k] = t[k]
  OBVIOUS
<1>2. Len(s) \in Nat /\ Len(t) \in Nat
  OBVIOUS
<1>3. ASSUME NEW c \in Pending(s \o t) PROVE c \in Pending(s) \union Pending(t)
  <2>1. PICK i \in 1 .. Len(s) + Len(t) : c = (s \o t)[i]
    BY <1>1 DEF Pending
  <2>2. CASE i <= Len(s)
    BY <2>1, <2>2, <1>1, <1>2 DEF Pending
  <2>3. CASE i > Len(s)
    <3>1. i - Len(s) \in 1 .. Len(t) /\ i = Len(s) + (i - Len(s))
      BY <2>3, <1>2
    <3> QED BY <2>1, <3>1, <1>1 DEF Pending
  <2> QED BY <2>2, <2>3, <1>2
<1>4. Pending(s) \subseteq Pending(s \o t)
  BY <1>1, <1>2 DEF Pending
<1>5. ASSUME NEW k \in 1 .. Len(t) PROVE t[k] \in Pending(s \o t)
  <2>1. Len(s) + k \in 1 .. Len(s \o t)
    BY <1>1, <1>2
  <2> QED BY <2>1, <1>1 DEF Pending
<1>6. Pending(t) \subseteq Pending(s \o t)
  BY <1>5 DEF Pending
<1> QED BY <1>1, <1>3, <1>4, <1>6

LEMMA PendingConcat ==
  ASSUME NEW S, NEW s \in Seq(S), NEW t \in Seq(S)
  PROVE  s \o t \in Seq(S) /\ Pending(s \o t) = Pending(s) \union Pending(t)
BY PendingBoth

LEMMA PendingNext ==
  ASSUME NEW S, NEW s \in Seq(S), s # <<>>
  PROVE  /\ Head(s) \in S /\ Tail(s) \in Seq(S) /\ Len(Tail(s)) = Len(s) - 1 /\ Len(s) \in Nat \ {0}
         /\ Head(s) = s[1] /\ \A i \in 1 .. Len(s) - 1 : Tail(s)[i] = s[i + 1]
         /\ Pending(s) = {Head(s)} \union Pending(Tail(s))
<1>1. /\ Head(s) \in S /\ Tail(s) \in Seq(S) /\ Len(Tail(s)) = Len(s) - 1 /\ Len(s) \in Nat \ {0}
      /\ Head(s) = s[1] /\ \A i \in 1 .. Len(s) - 1 : Tail(s)[i] = s[i + 1]
  OBVIOUS
<1>2. ASSUME NEW i \in 1 .. Len(s) PROVE s[i] \in {Head(s)} \union Pending(Tail(s))
  <2>1. CASE i = 1
    BY <2>1, <1>1
  <2>2. CASE i # 1
    <3>1. i - 1 \in 1 .. Len(s) - 1 /\ i = i - 1 + 1
      BY <2>2, <1>1
    <3>2. Tail(s)[i - 1] = s[i]
      BY <3>1, <1>1
    <3> QED BY <3>1, <3>2, <1>1 DEF Pending
  <2> QED BY <2>1, <2>2
<1>3. ASSUME NEW i \in 1 .. Len(Tail(s)) PROVE Tail(s)[i] \in Pending(s)
  <2>1. i + 1 \in 1 .. Len(s) /\ Tail(s)[i] = s[i + 1]
    BY <1>1
  <2> QED BY <2>1 DEF Pending
<1>4. Head(s) \in Pending(s)
  BY <1>1 DEF Pending
<1>5. Pending(s) \subseteq {Head(s)} \union Pending(Tail(s))
  BY <1>2 DEF Pending
<1>6. Pending(Tail(s)) \subseteq Pending(s)
  BY <1>3 DEF Pending
<1> QED BY <1>1, <1>4, <1>5, <1>6

LEMMA CallIs ==
  ASSUME NEW op, NEW n, NEW t
  PROVE  /\ Call(op, n, t).op = op /\ Call(op, n, t).n = n /\ Call(op, n, t).ticks = t
         /\ op \in Ops /\ n \in Outputs /\ t \in Nat => Call(op, n, t) \in AnyCalls
  BY DEF Call, AnyCalls

LEMMA CallsAre ==
  ASSUME NEW n \in Outputs, NEW t \in Nat
  PROVE  /\ On(n) \in AnyCalls /\ Off(n) \in AnyCalls /\ Toggle(n) \in AnyCalls /\ DelayCancel(n) \in AnyCalls
         /\ DelayedOn(n, t) \in AnyCalls /\ Call("DelayOff", n, t) \in AnyCalls
  BY CallIs DEF On, Off, Toggle, DelayCancel, DelayedOn, Ops, Kinds

LEMMA CallsOf ==
  ASSUME NEW n
  PROVE  /\ On(n).n = n /\ Off(n).n = n /\ Toggle(n).n = n /\ DelayCancel(n).n = n
         /\ On(n).op = "On" /\ Off(n).op = "Off" /\ Toggle(n).op = "Toggle" /\ DelayCancel(n).op = "NoDelay"
         /\ \A t : DelayedOn(n, t).n = n /\ DelayedOn(n, t).op = "DelayOn"
         /\ \A t : Call("DelayOff", n, t).n = n /\ Call("DelayOff", n, t).op = "DelayOff"
  BY CallIs DEF On, Off, Toggle, DelayCancel, DelayedOn

LEMMA PerformIs ==
  ASSUME NEW d \in AnyDigOut, NEW c \in AnyCalls
  PROVE  /\ Perform(d, c) \in AnyDigOut
         /\ c.op = "On" => Perform(d, c).on = d.on \union {c.n}
         /\ c.op = "Off" => Perform(d, c).on = d.on \ {c.n}
         /\ c.op \notin Kinds => Perform(d, c).kind = d.kind /\ Perform(d, c).left = d.left
         /\ c.op \in Kinds => /\ Perform(d, c).on = d.on
                              /\ Perform(d, c).kind = [d.kind EXCEPT ![c.n] = c.op]
                              /\ Perform(d, c).left = [d.left EXCEPT ![c.n] = c.ticks]
         /\ \A m \in Outputs : m # c.n =>
              /\ m \in Perform(d, c).on <=> m \in d.on
              /\ Perform(d, c).kind[m] = d.kind[m] /\ Perform(d, c).left[m] = d.left[m]
<1>1. c.op \in Ops /\ c.n \in Outputs /\ c.ticks \in Nat
  BY DEF AnyCalls
<1>2. d.on \subseteq Outputs /\ d.kind \in [Outputs -> Kinds] /\ d.left \in [Outputs -> Nat]
  BY DEF AnyDigOut
<1>3. CASE c.op = "On"
  <2>1. Perform(d, c) = [d EXCEPT !.on = @ \union {c.n}]
    BY <1>3 DEF Perform, Kinds
  <2> QED BY <1>1, <1>2, <1>3, <2>1 DEF AnyDigOut, Kinds
<1>4. CASE c.op = "Off"
  <2>1. Perform(d, c) = [d EXCEPT !.on = @ \ {c.n}]
    BY <1>4 DEF Perform, Kinds
  <2> QED BY <1>1, <1>2, <1>4, <2>1 DEF AnyDigOut, Kinds
<1>5. CASE c.op = "Toggle"
  <2>1. Perform(d, c) = [d EXCEPT !.on = IF c.n \in @ THEN @ \ {c.n} ELSE @ \union {c.n}]
    BY <1>5 DEF Perform, Kinds
  <2> QED BY <1>1, <1>2, <1>5, <2>1 DEF AnyDigOut, Kinds
<1>6. CASE c.op \in Kinds
  <2>1. Perform(d, c) = [d EXCEPT !.kind[c.n] = c.op, !.left[c.n] = c.ticks]
    BY <1>6 DEF Perform, Kinds
  <2>2. DOMAIN d = {"on", "kind", "left"}
    BY DEF AnyDigOut
  <2>3. Perform(d, c) = [on |-> d.on, kind |-> [d.kind EXCEPT ![c.n] = c.op], left |-> [d.left EXCEPT ![c.n] = c.ticks]]
    BY <2>1, <2>2 DEF AnyDigOut
  <2>4. [d.kind EXCEPT ![c.n] = c.op] \in [Outputs -> Kinds] /\ [d.left EXCEPT ![c.n] = c.ticks] \in [Outputs -> Nat]
    BY <1>1, <1>2, <1>6
  <2>5. Perform(d, c) \in AnyDigOut
    BY <1>2, <2>3, <2>4 DEF AnyDigOut
  <2> QED BY <1>1, <1>2, <1>6, <2>3, <2>5 DEF Kinds
<1> QED BY <1>1, <1>3, <1>4, <1>5, <1>6 DEF Ops

LEMMA PerformElse ==
  ASSUME NEW d \in AnyDigOut, NEW c \in AnyCalls, NEW m \in Outputs, m # c.n
  PROVE  /\ m \in Perform(d, c).on <=> m \in d.on
         /\ Perform(d, c).kind[m] = d.kind[m] /\ Perform(d, c).left[m] = d.left[m]
<1>1. \A x \in Outputs : x # c.n =>
         /\ x \in Perform(d, c).on <=> x \in d.on
         /\ Perform(d, c).kind[x] = d.kind[x] /\ Perform(d, c).left[x] = d.left[x]
  BY PerformIs
<1> QED BY <1>1

LEMMA PerformKind ==
  ASSUME NEW d \in AnyDigOut, NEW c \in AnyCalls, c.op \in Kinds
  PROVE  /\ Perform(d, c).on = d.on
         /\ Perform(d, c).kind = [d.kind EXCEPT ![c.n] = c.op]
         /\ Perform(d, c).left = [d.left EXCEPT ![c.n] = c.ticks]
  BY PerformIs

LEMMA PerformCancel ==
  ASSUME NEW d \in AnyDigOut, NEW c \in AnyCalls, c.op = "NoDelay"
  PROVE  Perform(d, c).on = d.on /\ Perform(d, c).kind = [d.kind EXCEPT ![c.n] = "NoDelay"]
<1>1. c.op \in Kinds
  BY DEF Kinds
<1>2. Perform(d, c).on = d.on /\ Perform(d, c).kind = [d.kind EXCEPT ![c.n] = c.op]
  BY <1>1, PerformKind
<1> QED BY <1>2

LEMMA PerformSwitch ==
  ASSUME NEW d \in AnyDigOut, NEW c \in AnyCalls, c.op \in {"On", "Off"}
  PROVE  /\ Perform(d, c).on = IF c.op = "On" THEN d.on \union {c.n} ELSE d.on \ {c.n}
         /\ Perform(d, c).kind = d.kind /\ Perform(d, c).left = d.left
<1>1. c.op \notin Kinds
  BY DEF Kinds
<1>2. c.op # "On" => c.op = "Off"
  OBVIOUS
<1> QED BY <1>1, <1>2, PerformIs

LEMMA ElapsedIs ==
  ASSUME NEW d \in AnyDigOut
  PROVE  /\ Elapsed(d) \in AnyDigOut /\ Elapsed(d).on = d.on /\ Elapsed(d).kind = d.kind
         /\ \A n \in Outputs : Elapsed(d).left[n] = IF d.left[n] > 0 THEN d.left[n] - 1 ELSE 0
<1> DEFINE L == [n \in Outputs |-> IF d.left[n] > 0 THEN d.left[n] - 1 ELSE 0]
<1>1. d.on \subseteq Outputs /\ d.kind \in [Outputs -> Kinds] /\ d.left \in [Outputs -> Nat]
  BY DEF AnyDigOut
<1>2. L \in [Outputs -> Nat]
  BY <1>1
<1>3. Elapsed(d) = [d EXCEPT !.left = L]
  BY DEF Elapsed
<1>4. \A n \in Outputs : L[n] = IF d.left[n] > 0 THEN d.left[n] - 1 ELSE 0
  OBVIOUS
<1> HIDE DEF L
<1> QED BY <1>1, <1>2, <1>3, <1>4 DEF AnyDigOut

LEMMA InitialIs ==
  DigOutInit \in AnyDigOut /\ DigOutInit.on = {} /\ \A n \in Outputs : DigOutInit.kind[n] = "NoDelay"
  BY DEF DigOutInit, AnyDigOut, Kinds

LEMMA DelayedOffIs ==
  ASSUME NEW n \in Outputs, NEW t \in Nat
  PROVE  /\ DelayedOff(n, t) \in Seq(AnyCalls) /\ DelayedOff(n, t) # <<>>
         /\ Pending(DelayedOff(n, t)) = {On(n), Call("DelayOff", n, t)}
         /\ Len(DelayedOff(n, t)) = 2 /\ DelayedOff(n, t)[1] = On(n) /\ DelayedOff(n, t)[2] = Call("DelayOff", n, t)
  BY CallsAre, PendingTwo DEF DelayedOff

-----------------------------------------------------------------------------
(* What a button of the stairs calls. *)
IsNear(near) ==
  /\ near \in Seq(Outputs) /\ Len(near) = Len(Lamps) /\ DOMAIN near = 1 .. Len(near)
  /\ \A i \in 1 .. Len(near) : near[i] \in LampSet
  /\ \A i, j \in 1 .. Len(near) : near[i] = near[j] => i = j
  /\ \A n \in LampSet : \E i \in 1 .. Len(near) : near[i] = n

LEMMA NearIs == IsNear(Lamps) /\ IsNear(Reverse(Lamps))
<1> DEFINE N == Len(Lamps)
<1>1. IsNear(Lamps)
  BY LampsAre DEF IsNear, LampSet
<1> DEFINE R == [i \in 1 .. N |-> Lamps[N - i + 1]]
<1>2. Reverse(Lamps) = R
  BY DEF Reverse
<1>3. N \in Nat /\ \A i \in 1 .. N : N - i + 1 \in 1 .. N /\ N - (N - i + 1) + 1 = i
  BY LampsAre
<1>4. R \in Seq(Outputs) /\ Len(R) = N /\ DOMAIN R = 1 .. N
  BY <1>3, LampsAre
<1>5. \A i \in 1 .. N : R[i] = Lamps[N - i + 1] /\ R[i] \in LampSet
  BY <1>3, LampsAre
<1>6. ASSUME NEW i \in 1 .. N, NEW j \in 1 .. N, R[i] = R[j] PROVE i = j
  <2>1. N - i + 1 = N - j + 1
    BY <1>3, <1>5, <1>6, LampsAre
  <2> QED BY <2>1, <1>3
<1>7. ASSUME NEW n \in LampSet PROVE \E i \in 1 .. N : R[i] = n
  <2>1. PICK i \in 1 .. N : Lamps[i] = n
    BY DEF LampSet
  <2>2. R[N - i + 1] = n
    BY <2>1, <1>3, <1>5
  <2> QED BY <2>2, <1>3
<1> QED BY <1>1, <1>2, <1>4, <1>5, <1>6, <1>7 DEF IsNear

LEMMA FartherIs ==
  ASSUME NEW near, IsNear(near), NEW i \in Nat
  PROVE  /\ IsFiniteSet(Farther(near, i)) /\ Cardinality(Farther(near, i)) \in Nat
         /\ DELAY * Cardinality(Farther(near, i)) \in Nat
<1>1. Farther(near, i) \in SUBSET Outputs
  BY OutputsAre DEF IsNear, Farther
<1>2. IsFiniteSet(Farther(near, i)) /\ Cardinality(Farther(near, i)) \in Nat
  BY <1>1, OutputsAre, FS_Subset, FS_CardinalityType
<1> QED BY <1>2, DelaysAre

(* The farther a lamp, the earlier it goes off. *)
LEMMA FartherIsEarlier ==
  ASSUME NEW near, IsNear(near), NEW i \in 1 .. Len(near), near[i] \in digOut.on
  PROVE  /\ DELAY * Cardinality(Farther(near, i)) <= DELAY * Cardinality(Farther(near, 1))
         /\ i # 1 => DELAY * Cardinality(Farther(near, i)) < DELAY * Cardinality(Farther(near, 1))
<1> DEFINE a == Cardinality(Farther(near, i))
           b == Cardinality(Farther(near, 1))
<1>1. Len(near) \in Nat \ {0} /\ i \in Nat
  BY LampsAre DEF IsNear
<1>2. a \in Nat /\ b \in Nat /\ IsFiniteSet(Farther(near, 1))
  BY <1>1, FartherIs
<1>3. CASE i = 1
  BY <1>3, <1>2, DelaysAre, FartherIs
<1>4. CASE i # 1
  <2>1. Farther(near, i) \subseteq Farther(near, 1)
    BY <1>1 DEF Farther
  <2>2. near[i] \in Farther(near, 1)
    BY <1>1, <1>4 DEF Farther
  <2>3. near[i] \notin Farther(near, i)
    BY <1>1 DEF Farther, IsNear
  <2>4. a <= b /\ a # b
    BY <1>2, <2>1, <2>2, <2>3, FS_Subset
  <2>5. a + 1 <= b
    BY <1>2, <2>4
  <2> HIDE DEF a, b
  <2>6. \E c \in Nat : b = a + 1 + c
    <3>1. b - a - 1 \in Nat
      BY <1>2, <2>5
    <3> QED BY <3>1, <1>2
  <2>7. PICK c \in Nat : b = a + 1 + c
    BY <2>6
  <2>8. DELAY * b = DELAY * a + DELAY + DELAY * c /\ DELAY * c \in Nat /\ DELAY * a \in Nat
    BY <2>7, <1>2, DelaysAre
  <2>9. DELAY * a < DELAY * b
    BY <2>8, DelaysAre
  <2> QED BY <2>8, <2>9, DelaysAre DEF a, b
<1> QED BY <1>3, <1>4

LEMMA CancelledIs ==
  ASSUME NEW near, IsNear(near)
  PROVE  Cancelled(near) \in Seq(AnyCalls) /\ BeginsCancelling(Cancelled(near))
<1> DEFINE R == [i \in DOMAIN near |-> DelayCancel(Lamps[i])]
           c == DelayCancel(Supply)
<1>1. \A i \in 1 .. Len(near) : Lamps[i] \in LampSet /\ Lamps[i] \in Outputs
  BY LampsAre DEF IsNear
<1>2. R = [i \in 1 .. Len(near) |-> DelayCancel(Lamps[i])] /\ Len(near) \in Nat
  BY LampsAre DEF IsNear
<1>3. \A i \in 1 .. Len(near) : DelayCancel(Lamps[i]) \in AnyCalls
  BY <1>1, CallsAre
<1>4. R \in Seq(AnyCalls) /\ Len(R) = Len(near) /\ \A i \in 1 .. Len(near) : R[i] = DelayCancel(Lamps[i])
  BY <1>2, <1>3
<1>5. ASSUME NEW e \in Pending(R) PROVE e.op = "NoDelay" /\ e.n \in LampSet
  <2>1. PICK i \in 1 .. Len(near) : e = DelayCancel(Lamps[i])
    BY <1>4 DEF Pending
  <2> QED BY <2>1, <1>1, CallsOf
<1>6. c \in AnyCalls
  BY CallsAre, OutputsAre
<1> HIDE DEF R, c
<1>7. <<c>> \o R \in Seq(AnyCalls) /\ <<c>> \o R # <<>> /\ Head(<<c>> \o R) = c /\ Tail(<<c>> \o R) = R
  BY <1>4, <1>6
<1>8. Cancelled(near) = <<c>> \o R
  BY DEF Cancelled, R, c
<1> QED BY <1>5, <1>7, <1>8 DEF BeginsCancelling, c

LEMMA SwitchedOnIs ==
  ASSUME NEW near, IsNear(near)
  PROVE  /\ SwitchedOn(near) \in Seq(AnyCalls) /\ SwitchedOn(near) # <<>>
         /\ Head(SwitchedOn(near)) = On(Supply)
         /\ \A c \in Pending(Tail(SwitchedOn(near))) : c.n \in LampSet
<1> DEFINE R == OnInTurn(near)
           c == On(Supply)
           e == On(near[1])
<1>1. Len(near) \in Nat \ {0} /\ \A i \in 1 .. Len(near) : near[i] \in LampSet /\ near[i] \in Outputs
  BY LampsAre DEF IsNear
<1>2. ASSUME NEW i \in 1 .. Len(near) - 1
      PROVE  DelayedOn(near[i + 1], DELAY * i) \in AnyCalls /\ DelayedOn(near[i + 1], DELAY * i).n \in LampSet
  <2>1. i + 1 \in 1 .. Len(near) /\ i \in Nat
    BY <1>1
  <2>2. DELAY * i \in Nat
    BY <2>1, DelaysAre
  <2> QED BY <2>1, <2>2, <1>1, CallsAre, CallsOf
<1>3. Len(near) - 1 \in Nat
  BY <1>1
<1>4. R \in Seq(AnyCalls) /\ Len(R) = Len(near) - 1 /\ \A i \in 1 .. Len(R) : R[i] = DelayedOn(near[i + 1], DELAY * i)
  BY <1>2, <1>3 DEF OnInTurn
<1>5. \A x \in Pending(R) : x.n \in LampSet
  BY <1>2, <1>4 DEF Pending
<1>6. c \in AnyCalls /\ e \in AnyCalls /\ e.n \in LampSet
  <2>1. 1 \in 1 .. Len(near) /\ near[1] \in LampSet /\ near[1] \in Outputs /\ 0 \in Nat
    BY <1>1
  <2>2. c \in AnyCalls /\ e \in AnyCalls
    BY <2>1, CallsAre, OutputsAre
  <2> QED BY <2>1, <2>2, CallsOf
<1>7. SwitchedOn(near) = <<c, e>> \o R
  BY DEF SwitchedOn
<1> HIDE DEF R, c, e
<1>8. /\ <<c, e>> \o R \in Seq(AnyCalls) /\ <<c, e>> \o R # <<>> /\ Head(<<c, e>> \o R) = c
      /\ Tail(<<c, e>> \o R) = <<e>> \o R
  BY <1>4, <1>6
<1>9. Pending(<<e>> \o R) = {e} \union Pending(R)
  <2> DEFINE f == <<e>>
  <2>1. f \in Seq(AnyCalls) /\ R \in Seq(AnyCalls)
    BY <1>4, <1>6
  <2>2. Pending(f) = {e}
    BY PendingOne
  <2> HIDE DEF f
  <2>3. Pending(f \o R) = Pending(f) \union Pending(R)
    BY <2>1, PendingConcat
  <2> QED BY <2>2, <2>3 DEF f
<1> QED BY <1>5, <1>6, <1>7, <1>8, <1>9 DEF c

(* The calls of SwitchedOff after k lamps. *)
IsLast(f, near, m) ==
  f = [k \in 0 .. m |-> IF k = 0 THEN <<>> ELSE f[k - 1] \o OffInTurn(near, Len(near) + 1 - k)]

LEMMA LastExists == ASSUME NEW near PROVE \A m \in Nat : \E f : IsLast(f, near, m)
<1> DEFINE S == {m \in Nat : \E f : IsLast(f, near, m)}
<1>1. 0 \in S
  <2>1. IsLast([k \in 0 .. 0 |-> <<>>], near, 0)
    BY DEF IsLast
  <2> QED BY <2>1
<1>2. ASSUME NEW m \in Nat, m \in S PROVE m + 1 \in S
  <2>1. PICK f : IsLast(f, near, m)
    BY <1>2
  <2> DEFINE g == [k \in 0 .. m + 1 |-> IF k <= m THEN f[k] ELSE f[m] \o OffInTurn(near, Len(near) + 1 - (m + 1))]
  <2>2. ASSUME NEW k \in 0 .. m + 1
        PROVE  g[k] = IF k = 0 THEN <<>> ELSE g[k - 1] \o OffInTurn(near, Len(near) + 1 - k)
    <3>1. CASE k = m + 1
      <4>1. k - 1 = m /\ g[k - 1] = f[m] /\ k # 0 /\ ~ (k <= m)
        BY <3>1
      <4> QED BY <3>1, <4>1
    <3>2. CASE k # m + 1
      <4>1. k <= m /\ k \in 0 .. m /\ g[k] = f[k]
        BY <3>2
      <4>2. k # 0 => k - 1 \in 0 .. m + 1 /\ k - 1 <= m /\ g[k - 1] = f[k - 1]
        BY <4>1
      <4>3. f[k] = IF k = 0 THEN <<>> ELSE f[k - 1] \o OffInTurn(near, Len(near) + 1 - k)
        BY <2>1, <4>1 DEF IsLast
      <4> QED BY <4>1, <4>2, <4>3
    <3> QED BY <3>1, <3>2
  <2>3. DOMAIN g = 0 .. m + 1
    OBVIOUS
  <2>4. g = [k \in 0 .. m + 1 |-> g[k]]
    OBVIOUS
  <2> HIDE DEF g
  <2>5. IsLast(g, near, m + 1)
    BY <2>2, <2>4 DEF IsLast
  <2> QED BY <2>5
<1> HIDE DEF S
<1>3. \A m \in Nat : m \in S
  BY <1>1, <1>2, Induct
<1> QED BY <1>3 DEF S

Turn(near, i) == Call("DelayOff", near[i], DELAY * Cardinality(Farther(near, i)))

LEMMA OffInTurnIs ==
  ASSUME NEW near, IsNear(near), NEW i \in 1 .. Len(near)
  PROVE  /\ OffInTurn(near, i) \in Seq(AnyCalls)
         /\ Pending(OffInTurn(near, i)) = IF near[i] \in digOut.on THEN {On(near[i]), Turn(near, i)} ELSE {}
<1>1. near[i] \in Outputs /\ i \in Nat
  BY LampsAre DEF IsNear
<1>2. DELAY * Cardinality(Farther(near, i)) \in Nat
  BY <1>1, FartherIs
<1>3. CASE near[i] \in digOut.on
  <2>1. OffInTurn(near, i) = DelayedOff(near[i], DELAY * Cardinality(Farther(near, i)))
    BY <1>3 DEF OffInTurn
  <2> QED BY <1>1, <1>2, <1>3, <2>1, DelayedOffIs DEF Turn
<1>4. CASE near[i] \notin digOut.on
  <2>1. OffInTurn(near, i) = <<>>
    BY <1>4 DEF OffInTurn
  <2> QED BY <1>4, <2>1, PendingNone
<1> QED BY <1>3, <1>4

LEMMA LastIs ==
  ASSUME NEW near, IsNear(near), NEW f, IsLast(f, near, Len(near))
  PROVE  /\ f[Len(near)] \in Seq(AnyCalls)
         /\ \A c \in Pending(f[Len(near)]) : \E i \in 1 .. Len(near) :
              near[i] \in digOut.on /\ c \in {On(near[i]), Turn(near, i)}
         /\ \A i \in 1 .. Len(near) : near[i] \in digOut.on => Turn(near, i) \in Pending(f[Len(near)])
<1> DEFINE N == Len(near)
           Good(k) ==
             /\ f[k] \in Seq(AnyCalls)
             /\ \A c \in Pending(f[k]) : \E i \in 1 .. N : near[i] \in digOut.on /\ c \in {On(near[i]), Turn(near, i)}
             /\ \A i \in N + 1 - k .. N : near[i] \in digOut.on => Turn(near, i) \in Pending(f[k])
           S == {k \in Nat : k <= N => Good(k)}
<1>1. N \in Nat \ {0}
  BY LampsAre DEF IsNear
<1>2. 0 \in S
  <2>1. f[0] = <<>>
    BY <1>1 DEF IsLast
  <2>2. N + 1 - 0 .. N = {}
    BY <1>1
  <2>3. <<>> \in Seq(AnyCalls)
    OBVIOUS
  <2>4. Good(0)
    BY <2>1, <2>2, <2>3, PendingNone
  <2> QED BY <2>4
<1>3. ASSUME NEW k \in Nat, k \in S PROVE k + 1 \in S
  <2>1. SUFFICES ASSUME k + 1 <= N PROVE Good(k + 1)
    OBVIOUS
  <2>2. Good(k)
    BY <1>1, <1>3, <2>1
  <2> DEFINE i == N + 1 - (k + 1)
  <2>3. i \in 1 .. N /\ i + 1 = N + 1 - k
    BY <1>1, <2>1
  <2>4. f[k + 1] = f[k] \o OffInTurn(near, i)
    BY <1>1, <2>1 DEF IsLast
  <2> HIDE DEF i
  <2>5. f[k + 1] \in Seq(AnyCalls) /\ Pending(f[k + 1]) = Pending(f[k]) \union Pending(OffInTurn(near, i))
    BY <2>2, <2>3, <2>4, OffInTurnIs, PendingConcat
  <2>6. ASSUME NEW c \in Pending(f[k + 1])
        PROVE  \E j \in 1 .. N : near[j] \in digOut.on /\ c \in {On(near[j]), Turn(near, j)}
    <3>1. CASE c \in Pending(f[k])
      BY <3>1, <2>2
    <3>2. CASE c \in Pending(OffInTurn(near, i))
      BY <3>2, <2>3, OffInTurnIs
    <3> QED BY <2>5, <2>6, <3>1, <3>2
  <2>7. ASSUME NEW j \in i .. N, near[j] \in digOut.on PROVE Turn(near, j) \in Pending(f[k + 1])
    <3>1. CASE j = i
      BY <3>1, <2>3, <2>5, <2>7, OffInTurnIs
    <3>2. CASE j # i
      <4>1. j \in N + 1 - k .. N
        BY <3>2, <2>3, <2>7, <1>1
      <4> QED BY <4>1, <2>2, <2>5, <2>7
    <3> QED BY <3>1, <3>2
  <2>8. i = N + 1 - (k + 1)
    BY DEF i
  <2> QED BY <2>5, <2>6, <2>7, <2>8
<1>4. Good(N)
  <2> HIDE DEF Good
  <2>1. \A k \in Nat : k \in S
    <3> HIDE DEF S
    <3> QED BY <1>2, <1>3, Induct
  <2> QED BY <2>1, <1>1
<1>5. N + 1 - N = 1
  BY <1>1
<1> QED BY <1>4, <1>5

LEMMA SwitchedOffIs ==
  ASSUME NEW near, IsNear(near), digOut \in AnyDigOut, Supply \in digOut.on,
         digOut.kind[Supply] = "NoDelay" \/ LampSet \intersect digOut.on = {},
         \A n \in LampSet : digOut.kind[n] = "NoDelay"
  PROVE  SwitchedOff(near) \in Seq(AnyCalls) /\ GoingOff(digOut, SwitchedOff(near))
<1> DEFINE N == Len(near)
           F == CHOOSE f : IsLast(f, near, N)
           t == DELAY * Cardinality(Farther(near, 1))
           Rank(n) == CHOOSE i \in 1 .. N : near[i] = n
           T == [n \in LampSet |-> DELAY * Cardinality(Farther(near, Rank(n)))]
           s == SwitchedOff(near)
<1>1. N \in Nat \ {0} /\ \A i \in 1 .. N : near[i] \in LampSet
  BY LampsAre DEF IsNear
<1>2. IsLast(F, near, N)
  BY <1>1, LastExists
<1>3. s = F[N] \o DelayedOff(Supply, t)
  BY DEF SwitchedOff, IsLast
<1>4. t \in Nat
  BY FartherIs
<1>5. \A n \in LampSet : Rank(n) \in 1 .. N /\ near[Rank(n)] = n
  BY DEF IsNear
<1>6. \A i \in 1 .. N : Rank(near[i]) = i
  BY <1>1, <1>5 DEF IsNear
<1>7. T \in [LampSet -> Nat]
  <2>1. ASSUME NEW n \in LampSet PROVE DELAY * Cardinality(Farther(near, Rank(n))) \in Nat
    <3>1. Rank(n) \in Nat
      BY <1>1, <1>5
    <3> HIDE DEF Rank
    <3> QED BY <3>1, FartherIs
  <2> QED BY <2>1
<1>8. \A i \in 1 .. N : T[near[i]] = DELAY * Cardinality(Farther(near, i))
  BY <1>1, <1>6
<1>9. \A i \in 1 .. N : Turn(near, i) = Call("DelayOff", near[i], T[near[i]])
  BY <1>8 DEF Turn
<1>10. TimesOff(digOut, T, t)
  <2>1. ASSUME NEW n \in LampSet \intersect digOut.on PROVE T[n] <= t /\ (Rank(n) # 1 => T[n] < t)
    <3>1. Rank(n) \in 1 .. N /\ near[Rank(n)] = n
      BY <1>5
    <3>2. T[n] = DELAY * Cardinality(Farther(near, Rank(n)))
      BY <3>1, <1>8
    <3> HIDE DEF Rank
    <3> QED BY <3>1, <3>2, FartherIsEarlier
  <2>2. ASSUME NEW m \in LampSet \intersect digOut.on, NEW n \in LampSet \intersect digOut.on, m # n
        PROVE  Rank(m) # 1 \/ Rank(n) # 1
    BY <2>2, <1>5
  <2> HIDE DEF Rank, T, t
  <2> QED BY <2>1, <2>2 DEF TimesOff
<1> HIDE DEF F, T, t, Rank
<1>11. /\ F[N] \in Seq(AnyCalls)
       /\ \A c \in Pending(F[N]) : \E i \in 1 .. N : near[i] \in digOut.on /\ c \in {On(near[i]), Turn(near, i)}
       /\ \A i \in 1 .. N : near[i] \in digOut.on => Turn(near, i) \in Pending(F[N])
  BY <1>2, LastIs
<1> DEFINE u == F[N]
           L == Len(u)
<1>12. L \in Nat /\ DelayedOff(Supply, t) \in Seq(AnyCalls)
  <2>1. u \in Seq(AnyCalls)
    BY <1>11
  <2> HIDE DEF u
  <2>2. Len(u) \in Nat
    BY <2>1
  <2> QED BY <2>2, <1>4, DelayedOffIs, OutputsAre
<1>13. /\ s \in Seq(AnyCalls) /\ Len(s) = L + 2 /\ s # <<>>
       /\ \A i \in 1 .. L : s[i] = u[i]
       /\ s[L + 1] = On(Supply) /\ s[L + 2] = Call("DelayOff", Supply, t)
  <2> HIDE DEF s
  <2>1. s = u \o DelayedOff(Supply, t) /\ Len(DelayedOff(Supply, t)) = 2
    BY <1>3, <1>4, DelayedOffIs, OutputsAre
  <2>2. /\ s \in Seq(AnyCalls) /\ Len(s) = L + 2
        /\ \A i \in 1 .. L : s[i] = u[i]
        /\ \A k \in 1 .. 2 : s[L + k] = DelayedOff(Supply, t)[k]
    <3> HIDE DEF u
    <3>1. u \in Seq(AnyCalls)
      BY <1>11 DEF u
    <3> QED BY <3>1, <1>12, <2>1, PendingBoth
  <2>3. DelayedOff(Supply, t)[1] = On(Supply) /\ DelayedOff(Supply, t)[2] = Call("DelayOff", Supply, t)
    BY <1>4, DelayedOffIs, OutputsAre
  <2>4. s[L + 1] = On(Supply) /\ s[L + 2] = Call("DelayOff", Supply, t)
    BY <2>2, <2>3
  <2>5. s # <<>>
    <3>1. Len(s) # 0
      BY <1>12, <2>2
    <3> QED BY <3>1
  <2> QED BY <2>2, <2>4, <2>5
<1> HIDE DEF s, u
<1>14. ASSUME NEW i \in 1 .. Len(s) - 1
       PROVE  s[i] = On(Supply) \/ \E n \in LampSet \intersect digOut.on : s[i] \in {On(n), Call("DelayOff", n, T[n])}
  <2>1. CASE i = L + 1
    BY <2>1, <1>13
  <2>2. CASE i # L + 1
    <3>1. i \in 1 .. L
      BY <2>2, <1>12, <1>13
    <3>2. s[i] \in Pending(u)
      BY <3>1, <1>13 DEF Pending
    <3>3. PICK j \in 1 .. N : near[j] \in digOut.on /\ s[i] \in {On(near[j]), Turn(near, j)}
      BY <3>2, <1>11 DEF u
    <3> QED BY <3>3, <1>1, <1>9
  <2> QED BY <2>1, <2>2
<1>15. ASSUME NEW n \in LampSet \intersect digOut.on
       PROVE  \E i \in 1 .. Len(s) - 1 : s[i] = Call("DelayOff", n, T[n])
  <2>1. PICK j \in 1 .. N : near[j] = n
    BY DEF IsNear
  <2>2. Call("DelayOff", n, T[n]) \in Pending(u)
    BY <2>1, <1>9, <1>11, <1>15 DEF u
  <2>3. PICK i \in 1 .. L : u[i] = Call("DelayOff", n, T[n])
    BY <2>2 DEF Pending
  <2>4. i \in 1 .. Len(s) - 1
    BY <1>12, <1>13
  <2> QED BY <2>3, <2>4, <1>13
<1>16. s[Len(s)] = Call("DelayOff", Supply, t)
  BY <1>13
<1>17. GoesOff(digOut, s, T, t)
  BY <1>13, <1>14, <1>15, <1>16 DEF GoesOff
<1> QED BY <1>4, <1>7, <1>10, <1>13, <1>17 DEF GoingOff, s

-----------------------------------------------------------------------------
(* What the handlers call. *)
Calm(s) == s \in Seq(AnyCalls) /\ Elsewhere(s)
DoorLess(s) == \A c \in Pending(s) : c.n # Door

LEMMA CalmIs ==
  ASSUME NEW n \in Outputs, n \notin 0 .. 6, NEW t \in Nat
  PROVE  /\ Calm(<<On(n)>>) /\ Calm(<<Off(n)>>) /\ Calm(<<Toggle(n)>>) /\ Calm(DelayedOff(n, t))
         /\ n # Door => /\ DoorLess(<<On(n)>>) /\ DoorLess(<<Off(n)>>) /\ DoorLess(<<Toggle(n)>>)
                        /\ DoorLess(DelayedOff(n, t))
<1>1. n \notin LampSet /\ n # Supply
  BY LampsAre DEF Supply
<1>2. /\ <<On(n)>> \in Seq(AnyCalls) /\ <<Off(n)>> \in Seq(AnyCalls) /\ <<Toggle(n)>> \in Seq(AnyCalls)
      /\ DelayedOff(n, t) \in Seq(AnyCalls)
  BY CallsAre, DelayedOffIs
<1>3. /\ Pending(<<On(n)>>) = {On(n)} /\ Pending(<<Off(n)>>) = {Off(n)} /\ Pending(<<Toggle(n)>>) = {Toggle(n)}
      /\ Pending(DelayedOff(n, t)) = {On(n), Call("DelayOff", n, t)}
  BY PendingOne, DelayedOffIs
<1>4. On(n).n = n /\ Off(n).n = n /\ Toggle(n).n = n /\ Call("DelayOff", n, t).n = n
  BY CallsOf
<1> QED BY <1>1, <1>2, <1>3, <1>4 DEF Calm, Elsewhere, DoorLess

LEMMA CalmNone == Calm(<<>>) /\ DoorLess(<<>>)
  BY PendingNone DEF Calm, Elsewhere, DoorLess

LEMMA CalmBoth ==
  ASSUME NEW s, NEW t, Calm(s), Calm(t)
  PROVE  Calm(s \o t) /\ (DoorLess(s) /\ DoorLess(t) => DoorLess(s \o t))
<1>1. s \o t \in Seq(AnyCalls) /\ Pending(s \o t) = Pending(s) \union Pending(t)
  BY PendingConcat DEF Calm
<1> QED BY <1>1 DEF Calm, Elsewhere, DoorLess

LEMMA BellIs == Calm(ToggleLights) /\ DoorLess(ToggleLights)
<1>1. ASSUME NEW n \in {13, 15, 23, 24} PROVE Calm(ToggleWired(n)) /\ DoorLess(ToggleWired(n))
  <2>1. CASE n \in Outputs
    <3>1. n \notin 0 .. 6 /\ n # Door /\ 0 \in Nat
      BY DEF Door
    <3>2. Calm(<<Toggle(n)>>) /\ DoorLess(<<Toggle(n)>>)
      BY <2>1, <3>1, CalmIs
    <3> QED BY <2>1, <3>2 DEF ToggleWired
  <2>2. CASE n \notin Outputs
    BY <2>2, CalmNone DEF ToggleWired
  <2> QED BY <2>1, <2>2
<1> DEFINE s == ToggleWired(13)
           t == ToggleWired(15)
           u == ToggleWired(23)
           v == ToggleWired(24)
<1>2. Calm(s) /\ Calm(t) /\ Calm(u) /\ Calm(v) /\ DoorLess(s) /\ DoorLess(t) /\ DoorLess(u) /\ DoorLess(v)
  BY <1>1
<1>3. ToggleLights = ((s \o t) \o u) \o v
  BY DEF ToggleLights
<1> HIDE DEF s, t, u, v
<1>4. Calm(s \o t) /\ DoorLess(s \o t)
  BY <1>2, CalmBoth
<1>5. Calm((s \o t) \o u) /\ DoorLess((s \o t) \o u)
  BY <1>2, <1>4, CalmBoth
<1>6. Calm(((s \o t) \o u) \o v) /\ DoorLess(((s \o t) \o u) \o v)
  BY <1>2, <1>5, CalmBoth
<1> QED BY <1>3, <1>6

(* A handler begins with nothing else to call. *)
Ready == TypeInv /\ StairInv /\ power = "run" /\ calls = <<>>

LEMMA ReadyIs ==
  ASSUME Ready
  PROVE  /\ digOut \in AnyDigOut /\ Going(digOut)
         /\ Supply \in digOut.on \/ digOut.kind[Supply] = "NoDelay"
         /\ used \in Users /\ used \subseteq Buttons
<1>1. calls # <<DelayCancel(Supply)>>
  BY DEF Ready
<1> QED BY <1>1 DEF Ready, TypeInv, StairInv, Buttons

BegunWell(s) == s \in Seq(AnyCalls) /\ Begun(digOut, s)

LEMMA CalmBegins == ASSUME NEW s, Calm(s) PROVE BegunWell(s)
  BY DEF Calm, BegunWell, Begun

LEMMA StairsBegin ==
  ASSUME Ready, NEW near, IsNear(near), Stairs(near)
  PROVE  BegunWell(calls') /\ DoorLess(calls')
<1>1. CASE \E i \in DOMAIN near : IsDelayed(digOut, near[i])
  <2>1. calls' = Cancelled(near)
    BY <1>1 DEF Stairs
  <2>2. calls' \in Seq(AnyCalls) /\ BeginsCancelling(calls')
    BY <2>1, CancelledIs
  <2>3. calls' # <<>> /\ Head(calls') = DelayCancel(Supply) /\ \A c \in Pending(Tail(calls')) : c.n \in LampSet
    BY <2>2 DEF BeginsCancelling
  <2>4. Pending(calls') = {DelayCancel(Supply)} \union Pending(Tail(calls'))
    BY <2>2, <2>3, PendingNext
  <2>5. DelayCancel(Supply).n # Door
    BY CallsOf DEF Door, Supply
  <2> QED BY <2>2, <2>3, <2>4, <2>5, LampsAre DEF BegunWell, Begun, DoorLess
<1>2. CASE ~ (\E i \in DOMAIN near : IsDelayed(digOut, near[i])) /\ Supply \in digOut.on
  <2>1. calls' = SwitchedOff(near)
    BY <1>2 DEF Stairs
  <2>2. \A n \in LampSet : digOut.kind[n] = "NoDelay"
    BY <1>2 DEF IsNear, IsDelayed
  <2>3. digOut.kind[Supply] = "NoDelay" \/ LampSet \intersect digOut.on = {}
    <3>1. digOut.kind[Supply] \in Kinds /\ digOut.kind[Supply] # "DelayOn"
      BY ReadyIs, OutputsAre DEF AnyDigOut, Going
    <3>2. CASE digOut.kind[Supply] = "DelayOff"
      BY <1>2, <2>2, <3>2, ReadyIs DEF Going
    <3> QED BY <3>1, <3>2 DEF Kinds
  <2>4. calls' \in Seq(AnyCalls) /\ GoingOff(digOut, calls')
    BY <1>2, <2>1, <2>2, <2>3, ReadyIs, SwitchedOffIs
  <2>5. PICK T \in [LampSet -> Nat], t \in Nat : GoesOff(digOut, calls', T, t)
    BY <2>4 DEF GoingOff
  <2>6. ASSUME NEW i \in 1 .. Len(calls') PROVE calls'[i].n # Door
    <3>1. CASE i = Len(calls')
      <4>1. calls'[i] = Call("DelayOff", Supply, t)
        BY <2>5, <3>1 DEF GoesOff
      <4>2. calls'[i].n = Supply
        BY <4>1, CallsOf
      <4> QED BY <4>2 DEF Supply, Door
    <3>2. CASE i # Len(calls')
      <4>1. i \in 1 .. Len(calls') - 1
        BY <2>4, <3>2
      <4>2. calls'[i] = On(Supply) \/ \E n \in LampSet \intersect digOut.on : calls'[i] \in {On(n), Call("DelayOff", n, T[n])}
        BY <2>5, <4>1 DEF GoesOff
      <4>3. CASE calls'[i] = On(Supply)
        BY <4>3, CallsOf DEF Supply, Door
      <4>4. CASE \E n \in LampSet \intersect digOut.on : calls'[i] \in {On(n), Call("DelayOff", n, T[n])}
        <5>1. PICK n \in LampSet : calls'[i] \in {On(n), Call("DelayOff", n, T[n])}
          BY <4>4
        <5>2. calls'[i].n = n
          BY <5>1, CallsOf
        <5> QED BY <5>2, LampsAre
      <4> QED BY <4>2, <4>3, <4>4
    <3> QED BY <3>1, <3>2
  <2> QED BY <2>4, <2>6 DEF BegunWell, Begun, DoorLess, Pending
<1>3. CASE ~ (\E i \in DOMAIN near : IsDelayed(digOut, near[i])) /\ Supply \notin digOut.on
  <2>1. calls' = SwitchedOn(near)
    BY <1>3 DEF Stairs
  <2>2. /\ calls' \in Seq(AnyCalls) /\ calls' # <<>> /\ Head(calls') = On(Supply)
        /\ \A c \in Pending(Tail(calls')) : c.n \in LampSet
    BY <2>1, SwitchedOnIs
  <2>3. BeginsOn(digOut, calls')
    BY <1>3, <2>2, ReadyIs DEF BeginsOn
  <2>4. Pending(calls') = {On(Supply)} \union Pending(Tail(calls'))
    BY <2>2, PendingNext
  <2>5. On(Supply).n # Door
    BY CallsOf DEF Door, Supply
  <2> QED BY <2>2, <2>3, <2>4, <2>5, LampsAre DEF BegunWell, Begun, DoorLess
<1> QED BY <1>1, <1>2, <1>3

LEMMA PressBegins ==
  ASSUME Ready, NEW b \in used, Press(b)
  PROVE  BegunWell(calls') /\ (b \notin {"51_0", "101_0"} => DoorLess(calls'))
<1>1. CASE PressStairs(b)
  BY <1>1, NearIs, StairsBegin DEF PressStairs
<1>2. b \in Buttons /\ 0 \in Nat /\ LONG \in Nat /\ PULSE \in Nat
  BY ReadyIs, DelaysAre
<1>3. \A p \in Toggled \union Timed : p[1] = b => p[2] \in Outputs /\ p[2] \notin 0 .. 6 /\ p[2] # Door
  BY <1>2, OthersAre DEF Others
<1>4. CASE PressToggled(b)
  BY <1>2, <1>3, <1>4, CalmIs, CalmBegins DEF PressToggled
<1>5. CASE PressTimed(b)
  BY <1>2, <1>3, <1>5, CalmIs, CalmBegins DEF PressTimed
<1>6. CASE PressDirect(b)
  <2>1. 17 \in Outputs /\ 17 \notin 0 .. 6 /\ 17 # Door
    BY OutputsAre DEF Door
  <2> QED BY <1>2, <1>6, <2>1, CalmIs, CalmBegins DEF PressDirect
<1>7. CASE PressBell(b)
  <2>1. Bell \in Outputs /\ Bell \notin 0 .. 6 /\ Bell # Door
    BY OutputsAre DEF Door, Bell
  <2>2. Calm(DelayedOff(Bell, PULSE)) /\ DoorLess(DelayedOff(Bell, PULSE))
    BY <1>2, <2>1, CalmIs
  <2> DEFINE s == IF IsDelayed(digOut, Bell) THEN <<>> ELSE DelayedOff(Bell, PULSE)
             t == IF bellToggle THEN <<>> ELSE ToggleLights
  <2>3. Calm(s) /\ DoorLess(s) /\ Calm(t) /\ DoorLess(t)
    BY <2>2, CalmNone, BellIs
  <2>4. calls' = IF disable THEN <<>> ELSE s \o t
    BY <1>7 DEF PressBell
  <2> HIDE DEF s, t
  <2>5. Calm(calls') /\ DoorLess(calls')
    BY <2>3, <2>4, CalmNone, CalmBoth
  <2> QED BY <2>5, CalmBegins
<1>8. CASE PressBrightness(b)
  <2>1. 25 \in Outputs /\ 25 \notin 0 .. 6 /\ 25 # Door
    BY OutputsAre DEF Door
  <2> QED BY <1>2, <1>8, <2>1, CalmIs, CalmNone, CalmBegins DEF PressBrightness
<1>9. Door \in Outputs /\ Door \notin 0 .. 6
  BY OutputsAre DEF Door
<1>10. CASE PressDoor(b)
  BY <1>2, <1>9, <1>10, CalmIs, CalmBegins DEF PressDoor
<1>11. CASE PressMotion(b)
  BY <1>2, <1>9, <1>11, CalmIs, CalmNone, CalmBegins DEF PressMotion, Motion
<1> QED BY <1>1, <1>4, <1>5, <1>6, <1>7, <1>8, <1>10, <1>11 DEF Press

LEMMA ReleaseBegins ==
  ASSUME Ready, NEW b \in used, Release(b)
  PROVE  BegunWell(calls') /\ (b # "101_0" => DoorLess(calls'))
<1>1. 0 \in Nat /\ \A n \in {17, 25, Door} : n \in Outputs /\ n \notin 0 .. 6
  BY OutputsAre DEF Door
<1>2. 17 # Door /\ 25 # Door
  BY DEF Door
<1>3. CASE ReleaseDirect(b)
  BY <1>1, <1>2, <1>3, CalmIs, CalmBegins DEF ReleaseDirect
<1>4. CASE ReleaseBell(b)
  BY <1>4, BellIs, CalmNone, CalmBegins DEF ReleaseBell
<1>5. CASE ReleaseBrightness(b)
  BY <1>1, <1>2, <1>5, CalmIs, CalmNone, CalmBegins DEF ReleaseBrightness
<1>6. CASE ReleaseMotion(b)
  BY <1>1, <1>6, CalmIs, CalmNone, CalmBegins DEF ReleaseMotion, Motion
<1>7. CASE calls' = <<>>
  BY <1>7, CalmNone, CalmBegins
<1> QED BY <1>3, <1>4, <1>5, <1>6, <1>7 DEF Release

LEMMA CheckBegins ==
  ASSUME Ready, NEW n \in Outputs, calls' = StateCheck(digOut, n)
  PROVE  BegunWell(calls') /\ (digOut.kind[Door] = "NoDelay" => DoorLess(calls'))
<1>1. CASE calls' = <<>>
  BY <1>1, CalmNone, CalmBegins
<1>2. CASE calls' # <<>>
  <2> DEFINE c == IF digOut.kind[n] = "DelayOn" THEN On(n) ELSE Off(n)
             e == DelayCancel(n)
  <2>1. calls' = <<c, e>> /\ digOut.kind[n] # "NoDelay" /\ ~ (digOut.left[n] > 0)
    BY <1>2 DEF StateCheck, IsDelayed
  <2>2. c \in AnyCalls /\ e \in AnyCalls /\ c.n = n /\ e.n = n
    <3>1. 0 \in Nat
      OBVIOUS
    <3> QED BY <3>1, CallsAre, CallsOf
  <2>3. calls' \in Seq(AnyCalls) /\ Pending(calls') = {c, e}
    <3> HIDE DEF c, e
    <3> QED BY <2>1, <2>2, PendingTwo
  <2>4. digOut.kind[Door] = "NoDelay" => DoorLess(calls')
    BY <2>1, <2>2, <2>3 DEF DoorLess
  <2>5. CASE n \notin LampSet /\ n # Supply
    <3>1. Elsewhere(calls')
      <4> HIDE DEF c, e
      <4> QED BY <2>2, <2>3, <2>5 DEF Elsewhere
    <3> QED BY <2>3, <2>4, <3>1 DEF BegunWell, Begun
  <2>6. CASE n \in LampSet
    <3>1. ServesLamp(digOut, calls')
      BY <2>1, <2>6 DEF ServesLamp
    <3> QED BY <2>3, <2>4, <3>1 DEF BegunWell, Begun
  <2>7. CASE n = Supply
    <3>1. digOut.kind[Supply] \in Kinds /\ digOut.left[Supply] \in Nat /\ digOut.kind[Supply] # "DelayOn"
      BY OutputsAre, ReadyIs DEF AnyDigOut, Going
    <3>2. digOut.kind[Supply] = "DelayOff" /\ digOut.left[Supply] = 0
      BY <2>1, <2>7, <3>1 DEF Kinds
    <3>3. Supply \in digOut.on
      BY <3>2, ReadyIs
    <3>4. ServesSupply(digOut, calls')
      BY <2>1, <2>7, <3>2, <3>3 DEF ServesSupply
    <3> QED BY <2>3, <2>4, <3>4 DEF BegunWell, Begun
  <2> QED BY <2>4, <2>5, <2>6, <2>7
<1> QED BY <1>1, <1>2

-----------------------------------------------------------------------------
(* One call of what was begun for the stairs. *)
LEMMA UntouchedIs ==
  ASSUME NEW d \in AnyDigOut, NEW c \in AnyCalls, Going(d), c.n \notin LampSet, c.n # Supply
  PROVE  /\ Going(Perform(d, c))
         /\ Supply \in Perform(d, c).on <=> Supply \in d.on
         /\ Perform(d, c).kind[Supply] = d.kind[Supply]
<1>1. \A m \in Outputs : m # c.n =>
        /\ m \in Perform(d, c).on <=> m \in d.on
        /\ Perform(d, c).kind[m] = d.kind[m] /\ Perform(d, c).left[m] = d.left[m]
  BY PerformElse
<1>2. Supply \in Outputs /\ LampSet \subseteq Outputs
  BY OutputsAre, LampsAre
<1>3. \A n \in LampSet \union {Supply} :
        /\ n \in Perform(d, c).on <=> n \in d.on
        /\ Perform(d, c).kind[n] = d.kind[n] /\ Perform(d, c).left[n] = d.left[n]
  BY <1>1, <1>2
<1> QED BY <1>3 DEF Going, AtMostOneLamp

(* The states in which a lamp may be called. *)
LEMMA SupplyKept ==
  ASSUME NEW d \in AnyDigOut, NEW c \in AnyCalls, c.n \in LampSet
  PROVE  /\ Supply \in Perform(d, c).on <=> Supply \in d.on
         /\ Perform(d, c).kind[Supply] = d.kind[Supply] /\ Perform(d, c).left[Supply] = d.left[Supply]
<1>1. Supply \in Outputs /\ Supply # c.n
  BY OutputsAre, LampsAre
<1> QED BY <1>1, PerformElse

LEMMA PoweredGoing ==
  ASSUME NEW d, d.kind[Supply] = "NoDelay", Supply \in d.on PROVE Going(d)
  BY DEF Going

LEMMA CancelLamp ==
  ASSUME NEW d \in AnyDigOut, NEW c \in AnyCalls, Going(d), d.kind[Supply] = "NoDelay",
         c.op = "NoDelay", c.n \in LampSet
  PROVE  Going(Perform(d, c)) /\ Perform(d, c).kind[Supply] = "NoDelay"
<1> DEFINE e == Perform(d, c)
<1>1. e.kind[Supply] = "NoDelay" /\ (Supply \in e.on <=> Supply \in d.on)
  BY SupplyKept
<1>2. e.on = d.on /\ e.kind = [d.kind EXCEPT ![c.n] = "NoDelay"]
  BY PerformCancel
<1>3. d.kind \in [Outputs -> Kinds] /\ LampSet \subseteq Outputs
  BY LampsAre DEF AnyDigOut
<1>4. \A n \in LampSet : d.kind[n] # "DelayOn" => e.kind[n] # "DelayOn"
  BY <1>2, <1>3
<1> HIDE DEF e
<1>5. Going(e)
  BY <1>1, <1>2, <1>4 DEF Going
<1> QED BY <1>1, <1>5 DEF e

LEMMA CancelSupply ==
  ASSUME NEW d \in AnyDigOut, Going(d)
  PROVE  /\ Going(Perform(d, DelayCancel(Supply))) /\ Perform(d, DelayCancel(Supply)).kind[Supply] = "NoDelay"
         /\ Perform(d, DelayCancel(Supply)).on = d.on
<1> DEFINE c == DelayCancel(Supply)
           e == Perform(d, c)
<1>1. c \in AnyCalls /\ c.op = "NoDelay" /\ c.n = Supply
  BY CallsAre, CallsOf, OutputsAre
<1> HIDE DEF c
<1>2. e.on = d.on /\ e.kind = [d.kind EXCEPT ![Supply] = "NoDelay"]
  BY <1>1, PerformCancel
<1>3. d.kind \in [Outputs -> Kinds] /\ Supply \in Outputs /\ LampSet \subseteq Outputs /\ Supply \notin LampSet
  BY OutputsAre, LampsAre DEF AnyDigOut
<1>4. e.kind[Supply] = "NoDelay" /\ \A n \in LampSet : e.kind[n] = d.kind[n]
  BY <1>2, <1>3
<1> HIDE DEF e
<1>5. Going(e)
  BY <1>2, <1>4 DEF Going
<1> QED BY <1>2, <1>4, <1>5 DEF e, c

(* The last conjunct of StairInv while the main loop runs. *)
Shown(d, s) == Supply \in d.on \/ d.kind[Supply] = "NoDelay" \/ s = <<DelayCancel(Supply)>>

Next1(d, s) == Going(Perform(d, Head(s))) /\ Begun(Perform(d, Head(s)), Tail(s)) /\ Shown(Perform(d, Head(s)), Tail(s))

LEMMA AfterElsewhere ==
  ASSUME NEW d \in AnyDigOut, NEW s \in Seq(AnyCalls), s # <<>>, Going(d), Shown(d, s), Elsewhere(s)
  PROVE  Next1(d, s)
<1>1. Head(s) \in AnyCalls /\ Pending(s) = {Head(s)} \union Pending(Tail(s))
  BY PendingNext
<1>2. Head(s).n \notin LampSet /\ Head(s).n # Supply /\ Elsewhere(Tail(s))
  BY <1>1 DEF Elsewhere
<1>3. s # <<DelayCancel(Supply)>>
  <2>1. Head(<<DelayCancel(Supply)>>) = DelayCancel(Supply)
    OBVIOUS
  <2>2. DelayCancel(Supply).n = Supply
    BY CallsOf
  <2> QED BY <1>2, <2>1, <2>2
<1> QED BY <1>1, <1>2, <1>3, UntouchedIs DEF Next1, Begun, Shown

LEMMA AfterCancelling ==
  ASSUME NEW d \in AnyDigOut, NEW s \in Seq(AnyCalls), s # <<>>, Going(d), Cancelling(d, s)
  PROVE  Next1(d, s)
<1>1. Head(s) \in AnyCalls /\ Pending(s) = {Head(s)} \union Pending(Tail(s))
  BY PendingNext
<1>2. Head(s).op = "NoDelay" /\ Head(s).n \in LampSet
  BY <1>1 DEF Cancelling
<1>3. Going(Perform(d, Head(s))) /\ Perform(d, Head(s)).kind[Supply] = "NoDelay"
  BY <1>1, <1>2, CancelLamp DEF Cancelling
<1>4. Cancelling(Perform(d, Head(s)), Tail(s))
  BY <1>1, <1>3 DEF Cancelling
<1> QED BY <1>3, <1>4 DEF Next1, Begun, Shown

LEMMA AfterBeginsCancelling ==
  ASSUME NEW d \in AnyDigOut, NEW s \in Seq(AnyCalls), Going(d), BeginsCancelling(s)
  PROVE  Next1(d, s)
<1>1. Head(s) = DelayCancel(Supply)
  BY DEF BeginsCancelling
<1>2. Going(Perform(d, Head(s))) /\ Perform(d, Head(s)).kind[Supply] = "NoDelay"
  BY <1>1, CancelSupply
<1>3. Cancelling(Perform(d, Head(s)), Tail(s))
  BY <1>2 DEF BeginsCancelling, Cancelling
<1> QED BY <1>2, <1>3 DEF Next1, Begun, Shown

LEMMA AfterLampsOnly ==
  ASSUME NEW d \in AnyDigOut, NEW s \in Seq(AnyCalls), s # <<>>, LampsOnly(d, s)
  PROVE  Next1(d, s)
<1>1. Head(s) \in AnyCalls /\ Pending(s) = {Head(s)} \union Pending(Tail(s))
  BY PendingNext
<1>2. Head(s).n \in LampSet
  BY <1>1 DEF LampsOnly
<1>3. Perform(d, Head(s)).kind[Supply] = "NoDelay" /\ Supply \in Perform(d, Head(s)).on
  BY <1>1, <1>2, SupplyKept DEF LampsOnly
<1>4. LampsOnly(Perform(d, Head(s)), Tail(s))
  BY <1>1, <1>3 DEF LampsOnly
<1> QED BY <1>3, <1>4, PoweredGoing DEF Next1, Begun, Shown

LEMMA AfterBeginsOn ==
  ASSUME NEW d \in AnyDigOut, NEW s \in Seq(AnyCalls), BeginsOn(d, s)
  PROVE  Next1(d, s)
<1>1. Head(s) = On(Supply) /\ On(Supply) \in AnyCalls /\ On(Supply).op = "On" /\ On(Supply).n = Supply
  BY CallsAre, CallsOf, OutputsAre DEF BeginsOn
<1>2. Supply \in Perform(d, Head(s)).on /\ Perform(d, Head(s)).kind[Supply] = "NoDelay"
  BY <1>1, PerformSwitch DEF BeginsOn
<1>3. LampsOnly(Perform(d, Head(s)), Tail(s))
  BY <1>2 DEF BeginsOn, LampsOnly
<1> QED BY <1>2, <1>3, PoweredGoing DEF Next1, Begun, Shown

LEMMA AfterServesSupply ==
  ASSUME NEW d \in AnyDigOut, NEW s \in Seq(AnyCalls), Going(d), ServesSupply(d, s)
  PROVE  Next1(d, s)
<1>1. CASE s = <<Off(Supply), DelayCancel(Supply)>> /\ d.kind[Supply] = "DelayOff" /\ Supply \in d.on /\ d.left[Supply] = 0
  <2> DEFINE c == Off(Supply)
             e == Perform(d, c)
  <2>1. Head(s) = c /\ Tail(s) = <<DelayCancel(Supply)>>
    BY <1>1
  <2>2. c \in AnyCalls /\ c.op = "Off" /\ c.n = Supply
    BY CallsAre, CallsOf, OutputsAre
  <2> HIDE DEF c
  <2>3. e.on = d.on \ {Supply} /\ e.kind = d.kind
    BY <2>2, PerformSwitch
  <2> HIDE DEF e
  <2>4. \A n \in LampSet \intersect d.on : d.kind[n] = "DelayOff" /\ d.left[n] \in Nat
    BY <1>1, LampsAre DEF Going, AnyDigOut
  <2>5. \A m, n \in LampSet \intersect d.on : m = n
    BY <1>1, <2>4 DEF Going
  <2>6. \A n \in LampSet : d.kind[n] # "DelayOn"
    BY <1>1, <2>4 DEF Going
  <2>7. Going(e)
    BY <1>1, <2>3, <2>5, <2>6 DEF Going, AtMostOneLamp
  <2>8. ServesSupply(e, Tail(s))
    BY <2>1, <2>3 DEF ServesSupply
  <2> QED BY <2>1, <2>7, <2>8 DEF Next1, Begun, Shown, e
<1>2. CASE s = <<DelayCancel(Supply)>> /\ Supply \notin d.on
  <2>1. Head(s) = DelayCancel(Supply) /\ Tail(s) = <<>>
    BY <1>2
  <2>2. Going(Perform(d, Head(s))) /\ Perform(d, Head(s)).kind[Supply] = "NoDelay"
    BY <2>1, CancelSupply
  <2>3. Elsewhere(Tail(s))
    BY <2>1, PendingNone DEF Elsewhere
  <2> QED BY <2>2, <2>3 DEF Next1, Begun, Shown
<1> QED BY <1>1, <1>2 DEF ServesSupply

LEMMA AfterServesLamp ==
  ASSUME NEW d \in AnyDigOut, NEW s \in Seq(AnyCalls), Going(d), Shown(d, s), ServesLamp(d, s)
  PROVE  Next1(d, s)
<1>1. PICK n \in LampSet :
        \/ s = <<IF d.kind[n] = "DelayOn" THEN On(n) ELSE Off(n), DelayCancel(n)>> /\ d.kind[n] # "NoDelay"
        \/ s = <<DelayCancel(n)>> /\ n \notin d.on
  BY DEF ServesLamp
<1>2. /\ n \in Outputs /\ n # Supply /\ LampSet \subseteq Outputs
      /\ On(n) \in AnyCalls /\ Off(n) \in AnyCalls /\ DelayCancel(n) \in AnyCalls
  <2>1. n \in Outputs /\ n # Supply /\ LampSet \subseteq Outputs /\ 0 \in Nat
    BY LampsAre
  <2> QED BY <2>1, CallsAre
<1>3. /\ On(n).op = "On" /\ Off(n).op = "Off" /\ DelayCancel(n).op = "NoDelay"
      /\ On(n).n = n /\ Off(n).n = n /\ DelayCancel(n).n = n /\ DelayCancel(Supply).n = Supply
  BY CallsOf
<1>4. d.kind \in [Outputs -> Kinds]
  BY DEF AnyDigOut
<1>5. s # <<DelayCancel(Supply)>>
  <2>1. DelayCancel(n) # DelayCancel(Supply)
    BY <1>2, <1>3
  <2>2. CASE s = <<DelayCancel(n)>>
    BY <2>1, <2>2
  <2>3. CASE s = <<IF d.kind[n] = "DelayOn" THEN On(n) ELSE Off(n), DelayCancel(n)>>
    <3>1. Len(s) = 2
      BY <2>3
    <3>2. Len(<<DelayCancel(Supply)>>) = 1
      OBVIOUS
    <3> QED BY <3>1, <3>2
  <2> QED BY <1>1, <2>2, <2>3
<1>6. Supply \in d.on \/ d.kind[Supply] = "NoDelay"
  BY <1>5 DEF Shown
<1>7. CASE s = <<On(n), DelayCancel(n)>> /\ d.kind[n] = "DelayOn"
  <2>1. Supply \in d.on
    BY <1>7 DEF Going
  <2>2. d.kind[Supply] # "DelayOff"
    BY <1>7, <2>1 DEF Going
  <2>3. d.kind[Supply] = "NoDelay"
    BY <1>4, <2>2, OutputsAre DEF Going, Kinds
  <2>4. Pending(s) = {On(n), DelayCancel(n)}
    BY <1>7, PendingTwo
  <2>5. LampsOnly(d, s)
    BY <1>3, <2>1, <2>3, <2>4 DEF LampsOnly
  <2>6. s # <<>>
    BY <1>7
  <2> QED BY <2>5, <2>6, AfterLampsOnly
<1>8. CASE s = <<Off(n), DelayCancel(n)>> /\ d.kind[n] # "DelayOn"
  <2> DEFINE e == Perform(d, Off(n))
  <2>1. e.on = d.on \ {n} /\ e.kind = d.kind /\ e.left = d.left
    BY <1>2, <1>3, PerformSwitch
  <2>2. Head(s) = Off(n) /\ Tail(s) = <<DelayCancel(n)>>
    BY <1>8
  <2> HIDE DEF e
  <2>3. Supply \in e.on <=> Supply \in d.on
    BY <1>2, <2>1
  <2>4. Supply \notin e.on => AtMostOneLamp(e.on) /\ \A m \in LampSet : e.kind[m] # "DelayOn"
    BY <2>1, <2>3 DEF Going, AtMostOneLamp
  <2>5. ASSUME e.kind[Supply] = "DelayOff", Supply \in e.on
        PROVE  /\ \A m \in LampSet \intersect e.on : e.kind[m] = "DelayOff" /\ e.left[m] <= e.left[Supply]
               /\ \A l, m \in LampSet \intersect e.on : l = m \/ e.left[l] < e.left[Supply] \/ e.left[m] < e.left[Supply]
               /\ \A m \in LampSet \ e.on : e.kind[m] # "DelayOn"
    <3>1. d.kind[Supply] = "DelayOff" /\ Supply \in d.on
      BY <2>1, <2>3, <2>5
    <3> QED BY <1>8, <2>1, <3>1 DEF Going
  <2>6. Going(e)
    BY <2>1, <2>4, <2>5 DEF Going
  <2>7. ServesLamp(e, Tail(s))
    BY <2>1, <2>2 DEF ServesLamp
  <2>8. Shown(e, Tail(s))
    BY <1>6, <2>1, <2>3 DEF Shown
  <2> QED BY <2>2, <2>6, <2>7, <2>8 DEF Next1, Begun, e
<1>9. CASE s = <<DelayCancel(n)>> /\ n \notin d.on
  <2> DEFINE e == Perform(d, DelayCancel(n))
  <2>1. e.on = d.on /\ e.kind = [d.kind EXCEPT ![n] = "NoDelay"]
    BY <1>2, <1>3, PerformCancel
  <2>2. \A m \in Outputs : m # n => e.kind[m] = d.kind[m] /\ e.left[m] = d.left[m]
    BY <1>2, <1>3, PerformElse
  <2>3. e.kind[n] = "NoDelay"
    BY <1>2, <1>4, <2>1
  <2>4. Head(s) = DelayCancel(n) /\ Tail(s) = <<>>
    BY <1>9
  <2> HIDE DEF e
  <2>5. e.kind[Supply] = d.kind[Supply] /\ e.left[Supply] = d.left[Supply]
    BY <1>2, <2>2, OutputsAre
  <2>6. \A m \in LampSet \intersect e.on : e.kind[m] = d.kind[m] /\ e.left[m] = d.left[m]
    BY <1>2, <1>9, <2>1, <2>2
  <2>7. \A m \in LampSet : d.kind[m] # "DelayOn" => e.kind[m] # "DelayOn"
    BY <1>2, <2>2, <2>3
  <2>8. Going(e)
    BY <2>1, <2>5, <2>6, <2>7 DEF Going
  <2>9. Elsewhere(Tail(s)) /\ Shown(e, Tail(s))
    BY <1>6, <2>1, <2>4, <2>5, PendingNone DEF Elsewhere, Shown
  <2> QED BY <2>4, <2>8, <2>9 DEF Next1, Begun, e
<1>10. CASE s = <<IF d.kind[n] = "DelayOn" THEN On(n) ELSE Off(n), DelayCancel(n)>>
  <2>1. CASE d.kind[n] = "DelayOn"
    BY <1>10, <2>1, <1>7
  <2>2. CASE d.kind[n] # "DelayOn"
    BY <1>10, <2>2, <1>8
  <2> QED BY <2>1, <2>2
<1> QED BY <1>1, <1>9, <1>10

LEMMA LastOfGoingOff ==
  ASSUME NEW d \in AnyDigOut, NEW s \in Seq(AnyCalls), Going(d), NEW T \in [LampSet -> Nat], NEW t \in Nat,
         TimesOff(d, T, t), GoesOff(d, s, T, t), Len(s) = 1
  PROVE  Next1(d, s)
<1> DEFINE c == Call("DelayOff", Supply, t)
           e == Perform(d, c)
<1>1. Head(s) = c /\ Tail(s) = <<>>
  <2>1. s = <<c>>
    BY DEF GoesOff
  <2> HIDE DEF c
  <2> QED BY <2>1
<1>2. c \in AnyCalls /\ c.op = "DelayOff" /\ c.n = Supply /\ c.ticks = t
  BY CallsAre, CallsOf, CallIs, OutputsAre
<1> HIDE DEF c
<1>3. c.op \in Kinds
  BY <1>2 DEF Kinds
<1>4. e.on = d.on /\ e.kind = [d.kind EXCEPT ![Supply] = "DelayOff"] /\ e.left = [d.left EXCEPT ![Supply] = t]
  BY <1>2, <1>3, PerformKind
<1>5. d.kind \in [Outputs -> Kinds] /\ d.left \in [Outputs -> Nat] /\ Supply \in Outputs
  BY OutputsAre DEF AnyDigOut
<1>6. e.kind[Supply] = "DelayOff" /\ e.left[Supply] = t
  BY <1>4, <1>5
<1>7. \A n \in LampSet : e.kind[n] = d.kind[n] /\ e.left[n] = d.left[n]
  BY <1>2, PerformElse, LampsAre
<1> HIDE DEF e
<1>8. \A n \in LampSet \intersect d.on : d.kind[n] = "DelayOff" /\ d.left[n] = T[n]
  BY DEF GoesOff
<1>9. Going(e)
  BY <1>4, <1>6, <1>7, <1>8 DEF Going, GoesOff, TimesOff
<1>10. Elsewhere(Tail(s)) /\ Shown(e, Tail(s))
  BY <1>1, <1>4, PendingNone DEF Elsewhere, Shown, GoesOff
<1> QED BY <1>1, <1>9, <1>10 DEF Next1, Begun, e

LEMMA GoesOnOff ==
  ASSUME NEW d \in AnyDigOut, NEW s \in Seq(AnyCalls), Going(d), NEW T \in [LampSet -> Nat], NEW t \in Nat,
         TimesOff(d, T, t), GoesOff(d, s, T, t), Len(s) > 1, NEW e,
         e.on = d.on, e.kind[Supply] = d.kind[Supply],
         \A m \in LampSet :
           \/ e.kind[m] = d.kind[m] /\ e.left[m] = d.left[m] /\ s[1] # Call("DelayOff", m, T[m])
           \/ m \in d.on /\ e.kind[m] = "DelayOff" /\ e.left[m] = T[m]
  PROVE  Going(e) /\ Begun(e, Tail(s)) /\ Shown(e, Tail(s))
<1> DEFINE r == Tail(s)
<1>1. Len(s) \in Nat /\ s # <<>>
  BY DEF GoesOff
<1>2. r \in Seq(AnyCalls) /\ Len(r) = Len(s) - 1 /\ \A i \in 1 .. Len(s) - 1 : r[i] = s[i + 1]
  BY <1>1, PendingNext
<1> HIDE DEF r
<1>3. r # <<>> /\ r[Len(r)] = Call("DelayOff", Supply, t)
  <2>1. Len(r) \in 1 .. Len(s) - 1 /\ Len(r) + 1 = Len(s)
    BY <1>1, <1>2
  <2>2. r[Len(r)] = s[Len(s)]
    BY <2>1, <1>2
  <2>3. s[Len(s)] = Call("DelayOff", Supply, t)
    BY DEF GoesOff
  <2>4. r # <<>>
    BY <2>1
  <2> QED BY <2>2, <2>3, <2>4
<1>4. ASSUME NEW i \in 1 .. Len(r) - 1
      PROVE  r[i] = On(Supply) \/ \E n \in LampSet \intersect e.on : r[i] \in {On(n), Call("DelayOff", n, T[n])}
  <2>1. i + 1 \in 1 .. Len(s) - 1 /\ i \in 1 .. Len(s) - 1
    BY <1>1, <1>2
  <2>2. r[i] = s[i + 1]
    BY <2>1, <1>2
  <2> QED BY <2>1, <2>2 DEF GoesOff
<1>5. ASSUME NEW n \in LampSet \intersect e.on
      PROVE  (e.kind[n] = "DelayOff" /\ e.left[n] = T[n]) \/ \E i \in 1 .. Len(r) - 1 : r[i] = Call("DelayOff", n, T[n])
  <2>1. CASE e.kind[n] = d.kind[n] /\ e.left[n] = d.left[n] /\ s[1] # Call("DelayOff", n, T[n])
    <3>1. CASE d.kind[n] = "DelayOff" /\ d.left[n] = T[n]
      BY <2>1, <3>1
    <3>2. CASE \E i \in 1 .. Len(s) - 1 : s[i] = Call("DelayOff", n, T[n])
      <4>1. PICK i \in 1 .. Len(s) - 1 : s[i] = Call("DelayOff", n, T[n])
        BY <3>2
      <4>2. i # 1
        BY <2>1, <4>1
      <4>3. i - 1 \in 1 .. Len(r) - 1 /\ i - 1 \in 1 .. Len(s) - 1 /\ i - 1 + 1 = i
        BY <4>2, <1>1, <1>2
      <4>4. r[i - 1] = s[i]
        BY <4>3, <1>2
      <4> QED BY <4>1, <4>3, <4>4
    <3> QED BY <3>1, <3>2 DEF GoesOff
  <2>2. CASE e.kind[n] = "DelayOff" /\ e.left[n] = T[n]
    BY <2>2
  <2> QED BY <2>1, <2>2
<1>6. ASSUME NEW n \in LampSet \ e.on PROVE e.kind[n] # "DelayOn"
  BY DEF GoesOff
<1>7. Supply \in e.on /\ (e.kind[Supply] = "NoDelay" \/ LampSet \intersect e.on = {})
  BY DEF GoesOff
<1>8. GoesOff(e, r, T, t) /\ TimesOff(e, T, t)
  BY <1>3, <1>4, <1>5, <1>6, <1>7 DEF GoesOff, TimesOff
<1>9. GoingOff(e, r)
  BY <1>8 DEF GoingOff
<1>10. Going(e)
  <2>1. CASE e.kind[Supply] = "NoDelay"
    BY <1>7, <2>1, PoweredGoing
  <2>2. CASE LampSet \intersect e.on = {}
    BY <1>6, <1>7, <2>2 DEF Going
  <2> QED BY <1>7, <2>1, <2>2
<1> QED BY <1>7, <1>9, <1>10 DEF Begun, Shown, r

LEMMA AfterGoingOff ==
  ASSUME NEW d \in AnyDigOut, NEW s \in Seq(AnyCalls), s # <<>>, Going(d), GoingOff(d, s)
  PROVE  Next1(d, s)
<1>1. PICK T \in [LampSet -> Nat], t \in Nat : TimesOff(d, T, t) /\ GoesOff(d, s, T, t)
  BY DEF GoingOff
<1>2. Len(s) \in Nat \ {0} /\ Head(s) = s[1] /\ Head(s) \in AnyCalls
  BY PendingNext
<1>3. CASE Len(s) = 1
  BY <1>1, <1>3, LastOfGoingOff
<1>4. CASE Len(s) > 1
  <2> DEFINE c == Head(s)
             e == Perform(d, c)
  <2>1. c = On(Supply) \/ \E n \in LampSet \intersect d.on : c \in {On(n), Call("DelayOff", n, T[n])}
    <3>1. 1 \in 1 .. Len(s) - 1
      BY <1>2, <1>4
    <3> QED BY <1>1, <1>2, <3>1 DEF GoesOff
  <2>2. CASE \E n \in d.on : c = On(n)
    <3>1. PICK n \in d.on : c = On(n)
      BY <2>2
    <3>2. c.op = "On" /\ c.n = n
      BY <3>1, CallsOf
    <3> HIDE DEF c
    <3>3. e.on = d.on /\ e.kind = d.kind /\ e.left = d.left
      <4>1. c \in AnyCalls /\ c.op \in {"On", "Off"}
        BY <1>2, <3>2 DEF c
      <4>2. e.on = d.on \union {n} /\ e.kind = d.kind /\ e.left = d.left
        BY <3>2, <4>1, PerformSwitch
      <4> QED BY <3>1, <4>2
    <3>4. ASSUME NEW m \in LampSet PROVE s[1] # Call("DelayOff", m, T[m])
      <4> DEFINE x == Call("DelayOff", m, T[m])
      <4>1. x.op = "DelayOff"
        BY CallIs
      <4>2. s[1].op = "On"
        BY <1>2, <3>2 DEF c
      <4> QED BY <4>1, <4>2
    <3> HIDE DEF e
    <3>5. Going(e) /\ Begun(e, Tail(s)) /\ Shown(e, Tail(s))
      BY <1>1, <1>4, <3>3, <3>4, GoesOnOff
    <3> QED BY <3>5 DEF Next1, e, c
  <2>3. CASE \E n \in LampSet \intersect d.on : c = Call("DelayOff", n, T[n])
    <3>1. PICK n \in LampSet \intersect d.on : c = Call("DelayOff", n, T[n])
      BY <2>3
    <3>2. c.op = "DelayOff" /\ c.n = n /\ c.ticks = T[n] /\ c.op \in Kinds
      BY <3>1, CallIs DEF Kinds
    <3>3. n \in Outputs /\ n # Supply /\ Supply \in Outputs /\ LampSet \subseteq Outputs
      BY LampsAre, OutputsAre
    <3>4. e.on = d.on /\ e.kind = [d.kind EXCEPT ![n] = "DelayOff"] /\ e.left = [d.left EXCEPT ![n] = T[n]]
      <4>1. c \in AnyCalls
        BY <1>2
      <4> HIDE DEF c
      <4>2. /\ e.on = d.on /\ e.kind = [d.kind EXCEPT ![c.n] = c.op] /\ e.left = [d.left EXCEPT ![c.n] = c.ticks]
        BY <3>2, <4>1, PerformKind
      <4> QED BY <3>2, <4>2
    <3>5. d.kind \in [Outputs -> Kinds] /\ d.left \in [Outputs -> Nat]
      BY DEF AnyDigOut
    <3>6. e.kind[n] = "DelayOff" /\ e.left[n] = T[n] /\ e.kind[Supply] = d.kind[Supply]
      BY <3>3, <3>4, <3>5
    <3>7. ASSUME NEW m \in LampSet, m # n
          PROVE  e.kind[m] = d.kind[m] /\ e.left[m] = d.left[m] /\ s[1] # Call("DelayOff", m, T[m])
      <4>1. Call("DelayOff", m, T[m]).n = m
        BY CallIs
      <4>2. s[1].n = n
        BY <1>2, <3>2
      <4> HIDE DEF c
      <4> QED BY <3>3, <3>4, <3>5, <3>7, <4>1, <4>2
    <3> HIDE DEF e, c
    <3>8. \A m \in LampSet :
            \/ e.kind[m] = d.kind[m] /\ e.left[m] = d.left[m] /\ s[1] # Call("DelayOff", m, T[m])
            \/ m \in d.on /\ e.kind[m] = "DelayOff" /\ e.left[m] = T[m]
      BY <3>6, <3>7
    <3>9. Going(e) /\ Begun(e, Tail(s)) /\ Shown(e, Tail(s))
      BY <1>1, <1>4, <3>4, <3>6, <3>8, GoesOnOff
    <3> QED BY <3>9 DEF Next1, e, c
  <2>4. Supply \in d.on
    BY <1>1 DEF GoesOff
  <2> QED BY <2>1, <2>2, <2>3, <2>4
<1>5. Len(s) = 1 \/ Len(s) > 1
  <2>1. \A l \in Nat \ {0} : l = 1 \/ l > 1
    OBVIOUS
  <2> QED BY <1>2, <2>1
<1> QED BY <1>3, <1>4, <1>5

LEMMA AfterCall ==
  ASSUME NEW d \in AnyDigOut, NEW s \in Seq(AnyCalls), s # <<>>, Going(d), Begun(d, s), Shown(d, s)
  PROVE  Next1(d, s)
  BY AfterElsewhere, AfterCancelling, AfterBeginsCancelling, AfterLampsOnly, AfterBeginsOn, AfterGoingOff,
     AfterServesLamp, AfterServesSupply DEF Begun

(* A tick, when what has run out is served. *)
LEMMA TickGoing ==
  ASSUME NEW d \in AnyDigOut, Going(d), Served(d) PROVE Going(Elapsed(d))
<1> DEFINE e == Elapsed(d)
<1>1. e.on = d.on /\ e.kind = d.kind
      /\ \A n \in Outputs : e.left[n] = IF d.left[n] > 0 THEN d.left[n] - 1 ELSE 0
  BY ElapsedIs
<1> HIDE DEF e
<1>2. \A n \in Outputs : d.left[n] \in Nat
  BY DEF AnyDigOut
<1>3. Supply \in Outputs /\ LampSet \subseteq Outputs
  BY OutputsAre, LampsAre
<1>4. \A n \in Outputs : d.kind[n] = "DelayOff" => e.left[n] = d.left[n] - 1
  BY <1>1, <1>2 DEF Served, IsDelayed
<1>5. ASSUME d.kind[Supply] = "DelayOff", Supply \in d.on
      PROVE  /\ \A n \in LampSet \intersect d.on : d.kind[n] = "DelayOff" /\ e.left[n] <= e.left[Supply]
             /\ \A m, n \in LampSet \intersect d.on : m = n \/ e.left[m] < e.left[Supply] \/ e.left[n] < e.left[Supply]
  <2>1. \A n \in LampSet \intersect d.on : d.kind[n] = "DelayOff" /\ d.left[n] <= d.left[Supply]
    BY <1>5 DEF Going
  <2>2. \A n \in LampSet \intersect d.on : e.left[n] = d.left[n] - 1
    BY <2>1, <1>3, <1>4
  <2>3. e.left[Supply] = d.left[Supply] - 1
    BY <1>3, <1>4, <1>5
  <2>4. \A m, n \in LampSet \intersect d.on : m = n \/ d.left[m] < d.left[Supply] \/ d.left[n] < d.left[Supply]
    BY <1>5 DEF Going
  <2> QED BY <1>2, <1>3, <2>1, <2>2, <2>3, <2>4
<1>6. Going(e)
  BY <1>1, <1>5 DEF Going
<1> QED BY <1>6 DEF e

-----------------------------------------------------------------------------
(* The inductive invariant, and the steps that leave the memory alone. *)
HouseInv == TypeInv /\ LightInv /\ StairInv

AppType ==
  /\ brightness \in 0 .. 1 /\ mode \in Modes /\ modeLightOld \in Modes
  /\ disable \in BOOLEAN /\ doorlightAutoState \in BOOLEAN /\ bellToggle \in BOOLEAN /\ ruled \in BOOLEAN

LoopType == loop \in Loops /\ digoutNum \in Outputs /\ used \in Users /\ pressed \in SUBSET used

LEMMA TypeParts ==
  TypeInv <=>
    /\ PlaceInv /\ digOut \in AnyDigOut /\ calls \in Seq(AnyCalls)
    /\ eeprom \in [Slots -> SUBSET Outputs] /\ power \in Powers /\ buf \in SUBSET Outputs /\ kept \in SUBSET Outputs
    /\ LoopType /\ AppType
  BY DEF TypeInv, LoopType, AppType

LEMMA LoopKeepsType ==
  ASSUME TypeInv, [Next]_allVars, MainLoop, digOut' \in AnyDigOut, calls' \in Seq(AnyCalls), LoopType', AppType'
  PROVE  TypeInv'
<1>1. PlaceInv'
  BY HouseStep, PlaceStep DEF TypeInv
<1> QED BY <1>1 DEF TypeInv, LoopType, AppType, MainLoop

LEMMA LoopKeepsStairs ==
  ASSUME TypeInv, StairInv, MainLoop, Going(digOut'), Begun(digOut', calls'), Shown(digOut', calls')
  PROVE  StairInv'
  BY DEF TypeInv, StairInv, MainLoop, Shown

LEMMA StairsBegun ==
  ASSUME Ready, MainLoop, UNCHANGED digOut, BegunWell(calls')
  PROVE  StairInv'
<1>1. Going(digOut) /\ Shown(digOut, calls')
  BY ReadyIs DEF Shown
<1> QED BY <1>1, LoopKeepsStairs DEF Ready, BegunWell

LEMMA AtReady ==
  ASSUME HouseInv, NEW part, At(part)
  PROVE  Ready /\ loop = part /\ MainLoop
  BY DEF At, Ready, HouseInv, MainLoop

LEMMA PressKeepsApp ==
  ASSUME TypeInv, NEW b, Press(b)
  PROVE  AppType'
<1> USE DEF TypeInv, AppType
<1>1. CASE UNCHANGED app
  BY <1>1 DEF app
<1>2. CASE PressBell(b)
  BY <1>2 DEF PressBell
<1>3. CASE PressDoor(b)
  BY <1>3 DEF PressDoor
<1>4. CASE PressMotion(b)
  BY <1>4 DEF PressMotion, Motion
<1> QED BY <1>1, <1>2, <1>3, <1>4 DEF Press, PressStairs, Stairs, PressToggled, PressTimed, PressDirect, Direct, PressBrightness

LEMMA ReleaseKeepsApp ==
  ASSUME TypeInv, NEW b, Release(b)
  PROVE  AppType'
<1> USE DEF TypeInv, AppType
<1>1. CASE UNCHANGED app
  BY <1>1 DEF app
<1>2. CASE ReleaseBell(b)
  BY <1>2 DEF ReleaseBell
<1>3. CASE ReleaseMotion(b)
  BY <1>3 DEF ReleaseMotion, Motion
<1> QED BY <1>1, <1>2, <1>3 DEF Release, ReleaseDirect, Direct, ReleaseBrightness

(* Only the detector and the button of the door say anything of the door. *)
LEMMA PressOfOthers ==
  ASSUME NEW b, Press(b), b # "51_0", b # "101_0"
  PROVE  UNCHANGED <<mode, modeLightOld, doorlightAutoState, ruled>>
<1>1. CASE UNCHANGED app
  BY <1>1 DEF app
<1>2. CASE PressBell(b)
  BY <1>2 DEF PressBell
<1>3. ~ PressDoor(b) /\ ~ PressMotion(b)
  BY DEF PressDoor, PressMotion
<1> QED BY <1>1, <1>2, <1>3 DEF Press, PressStairs, Stairs, PressToggled, PressTimed, PressDirect, Direct, PressBrightness

LEMMA PressOfDoor ==
  ASSUME NEW b, Press(b), b \in {"51_0", "101_0"}
  PROVE  (b = "51_0" /\ PressDoor(b)) \/ (b = "101_0" /\ PressMotion(b))
<1>1. \A p \in Toggled \union Timed : p[1] # "51_0" /\ p[1] # "101_0"
  <2>1. \A p \in Toggled18 \union Toggled24 : p[1] # "51_0" /\ p[1] # "101_0"
    BY DEF Toggled18, Toggled24
  <2>2. \A p \in Toggled31 \union Toggled38 : p[1] # "51_0" /\ p[1] # "101_0"
    BY DEF Toggled31, Toggled38
  <2>3. \A p \in Timed : p[1] # "51_0" /\ p[1] # "101_0"
    BY DEF Timed, TimedUpstairs, TimedGarage
  <2> QED BY <2>1, <2>2, <2>3 DEF Toggled
<1>2. ~ PressToggled(b) /\ ~ PressTimed(b)
  BY <1>1 DEF PressToggled, PressTimed
<1>3. ~ PressStairs(b) /\ ~ PressDirect(b) /\ ~ PressBell(b) /\ ~ PressBrightness(b)
  BY DEF PressStairs, PressDirect, Direct, PressBell, PressBrightness
<1> QED BY <1>2, <1>3 DEF Press, PressDoor, PressMotion

LEMMA ReleaseOfOthers ==
  ASSUME NEW b, Release(b), b # "101_0"
  PROVE  UNCHANGED <<mode, modeLightOld, doorlightAutoState, ruled>>
<1>1. CASE UNCHANGED app
  BY <1>1 DEF app
<1>2. CASE ReleaseBell(b)
  BY <1>2 DEF ReleaseBell
<1>3. ~ ReleaseMotion(b)
  BY DEF ReleaseMotion
<1> QED BY <1>1, <1>2, <1>3 DEF Release, ReleaseDirect, Direct, ReleaseBrightness

LEMMA ReleaseOfMotion == ASSUME Release("101_0") PROVE ReleaseMotion("101_0")
<1>1. ~ ReleaseDirect("101_0") /\ ~ ReleaseBell("101_0") /\ ~ ReleaseBrightness("101_0")
  BY DEF ReleaseDirect, Direct, ReleaseBell, ReleaseBrightness
<1> QED BY <1>1 DEF Release

-----------------------------------------------------------------------------
(* The light of the door. *)
LEMMA DoorCalls ==
  /\ On(Door) # Off(Door) /\ <<On(Door)>> # <<>> /\ <<Off(Door)>> # <<>>
  /\ <<On(Door)>> # <<Off(Door)>>
  /\ ByMode = (IF Wanted THEN On(Door) ELSE Off(Door))
<1>1. On(Door).op # Off(Door).op
  BY CallsOf
<1>2. On(Door) # Off(Door)
  BY <1>1
<1> QED BY <1>2 DEF ByMode, Wanted

LEMMA ReadyLight ==
  ASSUME Ready, LightInv, ruled
  PROVE  digOut.kind[Door] = "NoDelay" /\ (mode = modeLightOld => (Door \in digOut.on <=> Wanted))
  BY DoorCalls DEF Ready, LightInv

(* A handler that has nothing to do with the door *)
LEMMA LightKept ==
  ASSUME Ready, LightInv, UNCHANGED <<digOut, power, mode, modeLightOld, doorlightAutoState, ruled>>,
         "101_0" \in pressed' <=> "101_0" \in pressed,
         loop' = "ProcessBus" => mode = modeLightOld, ruled => DoorLess(calls')
  PROVE  LightInv'
<1>1. power' = "run"
  BY DEF Ready
<1>2. Wanted' <=> Wanted
  BY DEF Wanted
<1> QED BY <1>1, <1>2, ReadyLight DEF LightInv, DoorLess

LEMMA MotionLight ==
  ASSUME Ready, LightInv, UNCHANGED <<digOut, power>>, NEW there \in BOOLEAN,
         Motion(there, IF there THEN On(Door) ELSE Off(Door)),
         "101_0" \in pressed' <=> there, loop' # "ProcessBus"
  PROVE  LightInv'
<1>1. power' = "run" /\ doorlightAutoState' = there /\ UNCHANGED <<mode, modeLightOld>>
  BY DEF Ready, Motion
<1>2. CASE mode = AUTO
  <2>1. mode # ON
    BY <1>2, DelaysAre
  <2>2. calls' = <<IF there THEN On(Door) ELSE Off(Door)>> /\ ruled' = ~IsDelayed(digOut, Door)
    BY <1>2 DEF Motion
  <2>3. ByMode' = (IF there THEN On(Door) ELSE Off(Door))
    BY <1>1, <1>2, <2>1 DEF ByMode
  <2>4. calls' = <<ByMode'>>
    BY <2>2, <2>3
  <2>5. calls' \in {<<On(Door)>>, <<Off(Door)>>}
    BY <2>2
  <2>6. ruled' => digOut'.kind[Door] = "NoDelay"
    BY <2>2 DEF IsDelayed
  <2> QED BY <1>1, <2>4, <2>5, <2>6 DEF LightInv
<1>3. CASE mode # AUTO
  <2>1. calls' = <<>> /\ ruled' = ruled
    BY <1>3 DEF Motion
  <2>2. Wanted' <=> Wanted
    BY <1>1, <1>3 DEF Wanted
  <2>3. \A c \in Pending(calls') : c.n # Door
    BY <2>1, PendingNone
  <2> QED BY <1>1, <2>1, <2>2, <2>3, ReadyLight DEF LightInv
<1> QED BY <1>2, <1>3

LEMMA CallLight ==
  ASSUME TypeInv, LightInv, Continue
  PROVE  LightInv'
<1>1. /\ power = "run" /\ calls # <<>> /\ digOut' = Perform(digOut, Head(calls)) /\ calls' = Tail(calls)
      /\ UNCHANGED <<power, loop, pressed, mode, modeLightOld, doorlightAutoState, ruled>>
  BY DEF Continue, MainLoop, app
<1>2. digOut \in AnyDigOut /\ Head(calls) \in AnyCalls /\ Pending(calls) = {Head(calls)} \union Pending(calls')
  BY <1>1, PendingNext DEF TypeInv
<1>3. Wanted' <=> Wanted
  BY <1>1 DEF Wanted
<1>4. Door \in Outputs
  BY OutputsAre
<1>5. ASSUME ruled, calls \in {<<On(Door)>>, <<Off(Door)>>}, mode = modeLightOld => calls = <<ByMode>>,
             digOut.kind[Door] = "NoDelay"
      PROVE  /\ digOut'.kind[Door] = "NoDelay" /\ \A c \in Pending(calls') : c.n # Door
             /\ mode = modeLightOld => (Door \in digOut'.on <=> Wanted)
  <2> DEFINE c == Head(calls)
  <2>1. calls = <<c>> /\ c \in {On(Door), Off(Door)} /\ calls' = <<>>
    <3>1. CASE calls = <<On(Door)>>
      <4>1. Head(calls) = On(Door) /\ Tail(calls) = <<>>
        BY <3>1
      <4> QED BY <1>1, <3>1, <4>1
    <3>2. CASE calls = <<Off(Door)>>
      <4>1. Head(calls) = Off(Door) /\ Tail(calls) = <<>>
        BY <3>2
      <4> QED BY <1>1, <3>2, <4>1
    <3> QED BY <1>5, <3>1, <3>2
  <2>2. c.op \in {"On", "Off"} /\ c.n = Door /\ (c.op = "On" <=> c = On(Door))
    <3> HIDE DEF c
    <3> QED BY <2>1, CallsOf
  <2>3. /\ digOut'.on = IF c.op = "On" THEN digOut.on \union {Door} ELSE digOut.on \ {Door}
        /\ digOut'.kind = digOut.kind
    BY <1>1, <1>2, <2>2, PerformSwitch
  <2>4. Door \in digOut'.on <=> c = On(Door)
    BY <2>2, <2>3
  <2>5. mode = modeLightOld => c = ByMode
    <3>1. Head(<<ByMode>>) = ByMode
      OBVIOUS
    <3> QED BY <1>5, <3>1
  <2>6. mode = modeLightOld => (Door \in digOut'.on <=> Wanted)
    <3> HIDE DEF c
    <3> QED BY <2>4, <2>5, DoorCalls
  <2> QED BY <1>5, <2>1, <2>3, <2>6, PendingNone
<1>6. ASSUME \A c \in Pending(calls) : c.n # Door, digOut.kind[Door] = "NoDelay"
      PROVE  /\ digOut'.kind[Door] = "NoDelay" /\ \A c \in Pending(calls') : c.n # Door
             /\ Door \in digOut'.on <=> Door \in digOut.on
  BY <1>1, <1>2, <1>4, <1>6, PerformElse
<1> QED BY <1>1, <1>3, <1>5, <1>6 DEF LightInv

-----------------------------------------------------------------------------
(* Each step keeps the invariant. *)
LEMMA HouseInit == Init => HouseInv
<1> SUFFICES ASSUME Init PROVE HouseInv
  OBVIOUS
<1>1. PlaceInv
  BY PlaceInit
<1>2. digOut \in AnyDigOut /\ digOut.on = {} /\ \A n \in Outputs : digOut.kind[n] = "NoDelay"
  BY InitialIs DEF Init, PowerInit
<1>3. Following(31) \in Outputs
  BY FollowingIn
<1>4. calls = <<>> /\ valid = {} /\ buf = {} /\ kept = {} /\ power = "off" /\ eeprom = [s \in Slots |-> Outputs]
  BY DEF Init, PowerInit
<1>5. TypeInv
  <2>1. LoopType /\ AppType
    <3>1. loop \in Loops /\ digoutNum \in Outputs /\ used \in Users /\ pressed \in SUBSET used
      BY <1>3 DEF Init, Loops
    <3>2. brightness \in 0 .. 1 /\ mode \in Modes /\ modeLightOld \in Modes
      BY DEF Init, Modes
    <3>3. disable \in BOOLEAN /\ doorlightAutoState \in BOOLEAN /\ bellToggle \in BOOLEAN /\ ruled \in BOOLEAN
      BY DEF Init
    <3> QED BY <3>1, <3>2, <3>3 DEF LoopType, AppType
  <2>2. eeprom \in [Slots -> SUBSET Outputs] /\ power \in Powers /\ calls \in Seq(AnyCalls)
    BY <1>4 DEF Powers
  <2> QED BY <1>1, <1>2, <1>4, <2>1, <2>2, TypeParts
<1>6. LightInv
  BY <1>4 DEF Init, LightInv
<1>7. StairInv
  BY <1>2, <1>4 DEF StairInv, Lit, AtMostOneLamp
<1> QED BY <1>5, <1>6, <1>7 DEF HouseInv

LEMMA NoTelegramStep == ASSUME HouseInv, [Next]_allVars, NoTelegram PROVE HouseInv'
<1>1. Ready /\ loop = "ProcessBus" /\ MainLoop
  BY AtReady DEF NoTelegram
<1>2. loop' = "CheckButton" /\ UNCHANGED <<digOut, calls, digoutNum, pressed, app, used>>
  BY DEF NoTelegram
<1>3. LoopType' /\ AppType'
  BY <1>2, TypeParts DEF HouseInv, LoopType, AppType, Loops, app
<1>4. TypeInv'
  BY <1>1, <1>2, <1>3, TypeParts, LoopKeepsType DEF HouseInv
<1>5. Calm(calls') /\ DoorLess(calls')
  BY <1>1, <1>2, CalmNone DEF Ready
<1>6. StairInv'
  BY <1>1, <1>2, <1>5, CalmBegins, StairsBegun
<1>7. LightInv'
  BY <1>1, <1>2, <1>5, LightKept DEF HouseInv, MainLoop, app
<1> QED BY <1>4, <1>6, <1>7 DEF HouseInv

LEMMA ButtonEventStep == ASSUME HouseInv, [Next]_allVars, NEW b \in used, ButtonEvent(b) PROVE HouseInv'
<1>1. Ready /\ loop = "ProcessBus" /\ MainLoop
  BY AtReady DEF ButtonEvent
<1>2. /\ loop' = "CheckButton" /\ UNCHANGED <<digOut, digoutNum, used>> /\ Press(b)
      /\ pressed' = pressed \union {b}
  BY DEF ButtonEvent
<1>3. LoopType' /\ AppType'
  BY <1>2, TypeParts, PressKeepsApp DEF HouseInv, LoopType, Loops
<1>4. BegunWell(calls') /\ (b \notin {"51_0", "101_0"} => DoorLess(calls'))
  BY <1>1, <1>2, PressBegins
<1>5. TypeInv'
  BY <1>1, <1>2, <1>3, <1>4, TypeParts, LoopKeepsType DEF HouseInv, BegunWell
<1>6. StairInv'
  BY <1>1, <1>2, <1>4, StairsBegun
<1>7. LightInv /\ UNCHANGED power /\ loop' # "ProcessBus"
  BY <1>1, <1>2 DEF HouseInv, MainLoop
<1>8. CASE b \notin {"51_0", "101_0"}
  <2>1. UNCHANGED <<mode, modeLightOld, doorlightAutoState, ruled>>
    BY <1>2, <1>8, PressOfOthers
  <2>2. "101_0" \in pressed' <=> "101_0" \in pressed
    BY <1>2, <1>8
  <2>3. LightInv'
    BY <1>1, <1>2, <1>4, <1>7, <1>8, <2>1, <2>2, LightKept
  <2> QED BY <1>5, <1>6, <2>3 DEF HouseInv
<1>9. CASE b = "51_0"
  <2>1. PressDoor(b)
    BY <1>2, <1>9, PressOfDoor
  <2>2. ~ ruled' /\ doorlightAutoState' = doorlightAutoState
    BY <2>1 DEF PressDoor
  <2>3. "101_0" \in pressed' <=> "101_0" \in pressed
    BY <1>2, <1>9
  <2>4. power' = "run"
    BY <1>1, <1>7 DEF Ready
  <2>5. LightInv'
    BY <1>7, <2>2, <2>3, <2>4 DEF LightInv
  <2> QED BY <1>5, <1>6, <2>5 DEF HouseInv
<1>10. CASE b = "101_0"
  <2>1. Motion(TRUE, On(Door))
    BY <1>2, <1>10, PressOfDoor DEF PressMotion
  <2>2. "101_0" \in pressed' <=> TRUE
    BY <1>2, <1>10
  <2>3. LightInv'
    BY <1>1, <1>2, <1>7, <2>1, <2>2, MotionLight
  <2> QED BY <1>5, <1>6, <2>3 DEF HouseInv
<1> QED BY <1>8, <1>9, <1>10

LEMMA ButtonReleasedStep == ASSUME HouseInv, [Next]_allVars, NEW b \in pressed, ButtonReleased(b) PROVE HouseInv'
<1>1. Ready /\ loop = "CheckButton" /\ MainLoop
  BY AtReady DEF ButtonReleased
<1>2. /\ UNCHANGED <<digOut, loop, digoutNum, used>> /\ Release(b) /\ pressed' = pressed \ {b}
      /\ b \in used
  BY TypeParts DEF ButtonReleased, HouseInv, LoopType
<1>3. LoopType' /\ AppType'
  BY <1>2, TypeParts, ReleaseKeepsApp DEF HouseInv, LoopType
<1>4. BegunWell(calls') /\ (b # "101_0" => DoorLess(calls'))
  BY <1>1, <1>2, ReleaseBegins
<1>5. TypeInv'
  BY <1>1, <1>2, <1>3, <1>4, TypeParts, LoopKeepsType DEF HouseInv, BegunWell
<1>6. StairInv'
  BY <1>1, <1>2, <1>4, StairsBegun
<1>7. LightInv /\ UNCHANGED power /\ loop' # "ProcessBus"
  BY <1>1, <1>2 DEF HouseInv, MainLoop
<1>8. CASE b # "101_0"
  <2>1. UNCHANGED <<mode, modeLightOld, doorlightAutoState, ruled>>
    BY <1>2, <1>8, ReleaseOfOthers
  <2>2. "101_0" \in pressed' <=> "101_0" \in pressed
    BY <1>2, <1>8
  <2>3. LightInv'
    BY <1>1, <1>2, <1>4, <1>7, <1>8, <2>1, <2>2, LightKept
  <2> QED BY <1>5, <1>6, <2>3 DEF HouseInv
<1>9. CASE b = "101_0"
  <2>1. Motion(FALSE, Off(Door))
    BY <1>2, <1>9, ReleaseOfMotion DEF ReleaseMotion
  <2>2. "101_0" \in pressed' <=> FALSE
    BY <1>2, <1>9
  <2>3. LightInv'
    BY <1>1, <1>2, <1>7, <2>1, <2>2, MotionLight
  <2> QED BY <1>5, <1>6, <2>3 DEF HouseInv
<1> QED BY <1>8, <1>9

LEMMA SetVarStep == ASSUME HouseInv, [Next]_allVars, SetVar PROVE HouseInv'
<1>1. Ready /\ loop = "ProcessBus" /\ MainLoop
  BY AtReady DEF SetVar
<1>2. /\ loop' = "CheckButton"
      /\ UNCHANGED <<digOut, calls, digoutNum, pressed, modeLightOld, doorlightAutoState, bellToggle, ruled, used>>
      /\ mode' \in Modes /\ brightness' \in 0 .. 1 /\ disable' \in BOOLEAN
  BY TypeParts DEF SetVar, HouseInv, AppType, Modes
<1>3. LoopType' /\ AppType'
  BY <1>2, TypeParts DEF HouseInv, LoopType, AppType, Loops
<1>4. TypeInv'
  BY <1>1, <1>2, <1>3, TypeParts, LoopKeepsType DEF HouseInv
<1>5. Calm(calls')
  BY <1>1, <1>2, CalmNone DEF Ready
<1>6. StairInv'
  BY <1>1, <1>2, <1>5, CalmBegins, StairsBegun
<1>7. power' = "run" /\ mode = modeLightOld /\ LightInv
  BY <1>1 DEF Ready, MainLoop, HouseInv, LightInv
<1>8. mode' = modeLightOld' => (Wanted' <=> Wanted)
  BY <1>2, <1>7 DEF Wanted
<1>9. \A c \in Pending(calls') : c.n # Door
  BY <1>1, <1>2, PendingNone DEF Ready
<1>10. LightInv'
  BY <1>1, <1>2, <1>7, <1>8, <1>9, ReadyLight DEF LightInv
<1> QED BY <1>4, <1>6, <1>10 DEF HouseInv

LEMMA SetValueStep == ASSUME HouseInv, [Next]_allVars, SetValue(Door) PROVE HouseInv'
<1>1. Ready /\ loop = "ProcessBus" /\ MainLoop
  BY AtReady DEF SetValue
<1>2. /\ loop' = "CheckButton" /\ ~ ruled'
      /\ calls' \in {Trigger(Door, 2 * PULSE), <<Off(Door)>>, <<On(Door)>>}
      /\ UNCHANGED <<digOut, digoutNum, pressed, brightness, disable, mode, modeLightOld, doorlightAutoState, bellToggle, used>>
  BY DEF SetValue
<1>3. ruled' \in BOOLEAN
  BY DEF SetValue
<1>4. LoopType' /\ AppType'
  BY <1>2, <1>3, TypeParts DEF HouseInv, LoopType, AppType, Loops
<1>5. Calm(calls')
  <2>1. Door \in Outputs /\ Door \notin 0 .. 6 /\ 2 * PULSE \in Nat
    BY OutputsAre, DelaysAre DEF Door
  <2> QED BY <1>2, <2>1, CalmIs DEF Trigger
<1>6. TypeInv'
  BY <1>1, <1>2, <1>4, <1>5, TypeParts, LoopKeepsType DEF HouseInv, Calm
<1>7. StairInv'
  BY <1>1, <1>2, <1>5, CalmBegins, StairsBegun
<1>8. LightInv'
  BY <1>1, <1>2 DEF HouseInv, LightInv, Ready, MainLoop
<1> QED BY <1>6, <1>7, <1>8 DEF HouseInv

LEMMA CheckButtonStep == ASSUME HouseInv, [Next]_allVars, CheckButton PROVE HouseInv'
<1>1. Ready /\ loop = "CheckButton" /\ MainLoop
  BY AtReady DEF CheckButton
<1>2. loop' = "DigOutStateCheck" /\ UNCHANGED <<digOut, calls, digoutNum, pressed, app, used>>
  BY DEF CheckButton
<1>3. LoopType' /\ AppType'
  BY <1>2, TypeParts DEF HouseInv, LoopType, AppType, Loops, app
<1>4. TypeInv'
  BY <1>1, <1>2, <1>3, TypeParts, LoopKeepsType DEF HouseInv
<1>5. Calm(calls') /\ DoorLess(calls')
  BY <1>1, <1>2, CalmNone DEF Ready
<1>6. StairInv'
  BY <1>1, <1>2, <1>5, CalmBegins, StairsBegun
<1>7. LightInv'
  BY <1>1, <1>2, <1>5, LightKept DEF HouseInv, MainLoop, app
<1> QED BY <1>4, <1>6, <1>7 DEF HouseInv

LEMMA DigOutStateCheckStep == ASSUME HouseInv, [Next]_allVars, DigOutStateCheck PROVE HouseInv'
<1>1. Ready /\ loop = "DigOutStateCheck" /\ MainLoop
  BY AtReady DEF DigOutStateCheck
<1>2. /\ loop' = "ApplicationCheck" /\ UNCHANGED <<digOut, pressed, app, used>>
      /\ calls' = StateCheck(digOut, digoutNum) /\ digoutNum' = Following(digoutNum) /\ digoutNum \in Outputs
  BY TypeParts DEF DigOutStateCheck, HouseInv, LoopType
<1>3. digoutNum' \in Outputs
  BY <1>2, FollowingIn, OutputsAre
<1>4. LoopType' /\ AppType'
  BY <1>2, <1>3, TypeParts DEF HouseInv, LoopType, AppType, Loops, app
<1>5. BegunWell(calls') /\ (digOut.kind[Door] = "NoDelay" => DoorLess(calls'))
  BY <1>1, <1>2, CheckBegins
<1>6. TypeInv'
  BY <1>1, <1>2, <1>4, <1>5, TypeParts, LoopKeepsType DEF HouseInv, BegunWell
<1>7. StairInv'
  BY <1>1, <1>2, <1>5, StairsBegun
<1>8. ruled => DoorLess(calls')
  BY <1>1, <1>5, ReadyLight DEF HouseInv
<1>9. LightInv'
  BY <1>1, <1>2, <1>8, LightKept DEF HouseInv, MainLoop, app
<1> QED BY <1>6, <1>7, <1>9 DEF HouseInv

LEMMA ApplicationCheckStep == ASSUME HouseInv, [Next]_allVars, ApplicationCheck PROVE HouseInv'
<1>1. Ready /\ loop = "ApplicationCheck" /\ MainLoop
  BY AtReady DEF ApplicationCheck
<1>2. loop' = "ProcessBus" /\ UNCHANGED <<digOut, digoutNum, pressed, used>>
  BY DEF ApplicationCheck
<1>3. CASE mode = modeLightOld /\ UNCHANGED <<calls, app>>
  <2>1. LoopType' /\ AppType'
    BY <1>2, <1>3, TypeParts DEF HouseInv, LoopType, AppType, Loops, app
  <2>2. TypeInv'
    BY <1>1, <1>2, <1>3, <2>1, TypeParts, LoopKeepsType DEF HouseInv
  <2>3. Calm(calls') /\ DoorLess(calls')
    BY <1>1, <1>3, CalmNone DEF Ready
  <2>4. StairInv'
    BY <1>1, <1>2, <2>3, CalmBegins, StairsBegun
  <2>5. LightInv'
    BY <1>1, <1>2, <1>3, <2>3, LightKept DEF HouseInv, MainLoop, app
  <2> QED BY <2>2, <2>4, <2>5 DEF HouseInv
<1>4. CASE /\ mode # modeLightOld /\ modeLightOld' = mode
           /\ calls' = <<ByMode>> /\ ruled' = ~IsDelayed(digOut, Door)
           /\ UNCHANGED <<brightness, disable, mode, doorlightAutoState, bellToggle>>
  <2>1. LoopType' /\ AppType'
    BY <1>2, <1>4, TypeParts DEF HouseInv, LoopType, AppType, Loops
  <2>2. ByMode \in {On(Door), Off(Door)} /\ ByMode' = ByMode
    BY <1>4 DEF ByMode
  <2>3. Calm(calls') /\ calls' \in {<<On(Door)>>, <<Off(Door)>>}
    <3>1. Door \in Outputs /\ Door \notin 0 .. 6 /\ 0 \in Nat
      BY OutputsAre DEF Door
    <3>2. calls' = <<On(Door)>> \/ calls' = <<Off(Door)>>
      BY <1>4, <2>2
    <3> QED BY <3>1, <3>2, CalmIs
  <2>4. TypeInv'
    BY <1>1, <1>2, <2>1, <2>3, TypeParts, LoopKeepsType DEF HouseInv, Calm
  <2>5. StairInv'
    BY <1>1, <1>2, <2>3, CalmBegins, StairsBegun
  <2>6. ruled' => digOut'.kind[Door] = "NoDelay"
    BY <1>2, <1>4 DEF IsDelayed
  <2>7. power' = "run" /\ calls' = <<ByMode'>> /\ mode' = modeLightOld'
    BY <1>1, <1>4, <2>2 DEF Ready, MainLoop
  <2>8. doorlightAutoState' <=> "101_0" \in pressed'
    BY <1>2, <1>4 DEF HouseInv, LightInv
  <2>9. LightInv'
    BY <2>3, <2>6, <2>7, <2>8 DEF LightInv
  <2> QED BY <2>4, <2>5, <2>9 DEF HouseInv
<1> QED BY <1>3, <1>4 DEF ApplicationCheck

LEMMA ContinueStep == ASSUME HouseInv, [Next]_allVars, Continue PROVE HouseInv'
<1>1. /\ MainLoop /\ power = "run" /\ calls # <<>> /\ digOut' = Perform(digOut, Head(calls)) /\ calls' = Tail(calls)
      /\ UNCHANGED <<loop, digoutNum, pressed, app, used>>
  BY DEF Continue, MainLoop
<1>2. digOut \in AnyDigOut /\ calls \in Seq(AnyCalls)
  BY TypeParts DEF HouseInv
<1>3. Head(calls) \in AnyCalls /\ calls' \in Seq(AnyCalls)
  BY <1>1, <1>2, PendingNext
<1>4. digOut' \in AnyDigOut
  BY <1>1, <1>2, <1>3, PerformIs
<1>5. LoopType' /\ AppType'
  BY <1>1, TypeParts DEF HouseInv, LoopType, AppType, app
<1>6. TypeInv'
  BY <1>1, <1>3, <1>4, <1>5, LoopKeepsType DEF HouseInv
<1>7. Going(digOut) /\ Begun(digOut, calls) /\ Shown(digOut, calls)
  BY <1>1 DEF HouseInv, StairInv, Shown
<1>8. Next1(digOut, calls)
  BY <1>1, <1>2, <1>7, AfterCall
<1>9. StairInv'
  BY <1>1, <1>8, LoopKeepsStairs DEF HouseInv, Next1
<1> QED BY <1>6, <1>9, CallLight DEF HouseInv

LEMMA TickStep == ASSUME HouseInv, [Next]_allVars, Tick PROVE HouseInv'
<1>1. /\ MainLoop /\ power = "run" /\ calls = <<>> /\ calls' = <<>> /\ Served(digOut) /\ digOut' = Elapsed(digOut)
      /\ UNCHANGED <<loop, digoutNum, pressed, app, used>>
  BY DEF Tick, MainLoop
<1>2. digOut \in AnyDigOut /\ calls \in Seq(AnyCalls)
  BY TypeParts DEF HouseInv
<1>3. digOut' \in AnyDigOut /\ digOut'.on = digOut.on /\ digOut'.kind = digOut.kind
  BY <1>1, <1>2, ElapsedIs
<1>4. LoopType' /\ AppType'
  BY <1>1, TypeParts DEF HouseInv, LoopType, AppType, app
<1>5. TypeInv'
  BY <1>1, <1>2, <1>3, <1>4, LoopKeepsType DEF HouseInv
<1>6. Ready
  BY <1>1 DEF HouseInv, Ready
<1>7. Going(digOut') /\ Shown(digOut', calls')
  BY <1>1, <1>2, <1>3, <1>6, ReadyIs, TickGoing DEF Shown
<1>8. Begun(digOut', calls')
  BY <1>1, PendingNone DEF Begun, Elsewhere
<1>9. StairInv'
  BY <1>1, <1>7, <1>8, LoopKeepsStairs DEF HouseInv
<1>10. Wanted' <=> Wanted
  BY <1>1 DEF Wanted, app
<1>11. \A c \in Pending(calls') : c.n # Door
  BY <1>1, PendingNone
<1>12. UNCHANGED <<mode, modeLightOld, doorlightAutoState, ruled, loop, pressed, power>>
  BY <1>1 DEF app, MainLoop
<1>13. LightInv'
  BY <1>1, <1>3, <1>6, <1>10, <1>11, <1>12, ReadyLight DEF HouseInv, LightInv
<1> QED BY <1>5, <1>9, <1>13 DEF HouseInv

-----------------------------------------------------------------------------
(* The steps of the supply. *)
LEMMA SupplyKeepsType ==
  ASSUME TypeInv, [Next]_allVars, digOut' \in AnyDigOut, calls' \in Seq(AnyCalls),
         eeprom' \in [Slots -> SUBSET Outputs], power' \in Powers, buf' \in SUBSET Outputs, kept' \in SUBSET Outputs,
         UNCHANGED <<loop, digoutNum, pressed, app, used>> \/ Forget
  PROVE  TypeInv'
<1>1. PlaceInv'
  BY HouseStep, PlaceStep DEF TypeInv
<1>2. LoopType /\ AppType
  BY TypeParts
<1>3. LoopType' /\ AppType'
  <2>1. CASE UNCHANGED <<loop, digoutNum, pressed, app, used>>
    BY <1>2, <2>1 DEF LoopType, AppType, app
  <2>2. CASE Forget
    <3>1. Following(31) \in Outputs
      BY FollowingIn
    <3> QED BY <1>2, <2>2, <3>1 DEF Forget, LoopType, AppType, Loops, Modes
  <2> QED BY <2>1, <2>2
<1> QED BY <1>1, <1>3 DEF TypeInv, LoopType, AppType

LEMMA BitsAre ==
  /\ \A b \in 0 .. 3 : Bits(b) \subseteq Outputs
  /\ Supply \in Bits(0) /\ LampSet \subseteq Bits(0)
  /\ \A b \in 1 .. 3 : Supply \notin Bits(b) /\ LampSet \intersect Bits(b) = {}
<1>1. \A n \in 0 .. 6 : n \div 8 = 0
  OBVIOUS
<1>2. Supply \in 0 .. 6 /\ LampSet \subseteq 0 .. 6
  BY LampsAre DEF Supply
<1>3. Supply \in Outputs /\ LampSet \subseteq Outputs
  BY OutputsAre, LampsAre
<1>4. \A n \in LampSet \union {Supply} : n \in Outputs /\ n \div 8 = 0
  BY <1>1, <1>2, <1>3
<1>5. \A b \in 1 .. 3 : b # 0
  OBVIOUS
<1>6. \A b : Bits(b) = {n \in Outputs : n \div 8 = b}
  BY DEF Bits
<1> QED BY <1>4, <1>5, <1>6

LEMMA LitOf ==
  ASSUME NEW X, NEW Y, Lit(X), Supply \in X <=> Supply \in Y, LampSet \intersect X = LampSet \intersect Y
  PROVE  Lit(Y)
  BY DEF Lit, AtMostOneLamp

LEMMA LossStep == ASSUME HouseInv, [Next]_allVars, PowerLoss, Forget PROVE HouseInv'
<1>1. /\ power' = "off" /\ digOut' = DigOutInit /\ calls' = <<>> /\ buf' = {} /\ kept' \in {{}, kept}
      /\ UNCHANGED <<eeprom, valid>>
  BY DEF PowerLoss
<1>2. digOut' \in AnyDigOut /\ digOut'.on = {} /\ \A n \in Outputs : digOut'.kind[n] = "NoDelay"
  BY <1>1, InitialIs
<1>3. TypeInv'
  BY <1>1, <1>2, SupplyKeepsType, TypeParts DEF HouseInv, Powers
<1>4. LightInv'
  BY <1>1 DEF LightInv, Forget
<1>5. StairInv'
  BY <1>1, <1>2 DEF HouseInv, StairInv, Lit, AtMostOneLamp
<1> QED BY <1>3, <1>4, <1>5 DEF HouseInv

(* Before the main loop runs nobody rules the light and nothing is called. *)
LEMMA LightUnruled ==
  ASSUME LightInv, power \in {"off", "restore", "erase"}, UNCHANGED <<calls, loop, pressed, app>>
  PROVE  LightInv'
  BY DEF LightInv, app

LEMMA LightDark ==
  ASSUME LightInv, power' \in {"save", "saved"}, UNCHANGED <<loop, pressed, app>>
  PROVE  LightInv'
  BY DEF LightInv, app

LEMMA BootKeeps ==
  ASSUME HouseInv, [Next]_allVars, Boot, UNCHANGED <<loop, digoutNum, pressed, app, used>> PROVE HouseInv'
<1>1. /\ power = "off" /\ UNCHANGED <<digOut, calls, eeprom, valid, buf, byte>>
      /\ power' \in {"run", "restore"} /\ kept' \in {{}, kept}
  BY DEF Boot
<1>2. TypeInv'
  BY <1>1, SupplyKeepsType, TypeParts DEF HouseInv, Powers
<1>3. calls = <<>> /\ Lit(digOut.on) /\ \A n \in Outputs : digOut.kind[n] = "NoDelay"
  BY <1>1 DEF HouseInv, StairInv
<1>4. Going(digOut') /\ Begun(digOut', calls') /\ digOut'.kind[Supply] = "NoDelay"
  BY <1>1, <1>3, OutputsAre, LampsAre, PendingNone DEF Going, Begun, Elsewhere, Lit
<1>5. \A s \in valid : Lit(eeprom[s])
  BY DEF HouseInv, StairInv
<1>6. StairInv'
  BY <1>1, <1>3, <1>4, <1>5 DEF StairInv
<1>7. LightInv'
  BY <1>1, LightUnruled DEF HouseInv
<1> QED BY <1>2, <1>6, <1>7 DEF HouseInv

LEMMA RestoreKeeps ==
  ASSUME HouseInv, [Next]_allVars, Restore, UNCHANGED <<loop, digoutNum, pressed, app, used>> PROVE HouseInv'
<1>1. /\ power = "restore" /\ power' = "erase" /\ digOut' = [digOut EXCEPT !.on = eeprom[slot]]
      /\ UNCHANGED <<calls, eeprom, valid, next, slot, buf, kept>>
  BY DEF Restore
<1>2. valid = {slot} /\ slot \in Slots
  BY <1>1 DEF HouseInv, TypeInv, PlaceInv, Place
<1>3. /\ digOut \in AnyDigOut /\ eeprom[slot] \in SUBSET Outputs /\ calls \in Seq(AnyCalls)
      /\ eeprom \in [Slots -> SUBSET Outputs] /\ buf \in SUBSET Outputs /\ kept \in SUBSET Outputs
  BY <1>2, TypeParts DEF HouseInv
<1>4. digOut' \in AnyDigOut /\ digOut'.on = eeprom[slot] /\ digOut'.kind = digOut.kind
  BY <1>1, <1>3 DEF AnyDigOut
<1>5. TypeInv'
  BY <1>1, <1>3, <1>4, SupplyKeepsType DEF HouseInv, Powers
<1>6. calls = <<>> /\ (\A n \in Outputs : digOut.kind[n] = "NoDelay") /\ \A s \in valid : Lit(eeprom[s])
  BY <1>1 DEF HouseInv, StairInv
<1>7. StairInv'
  BY <1>1, <1>2, <1>4, <1>6 DEF StairInv
<1>8. LightInv'
  BY <1>1, LightUnruled DEF HouseInv
<1> QED BY <1>5, <1>7, <1>8 DEF HouseInv

LEMMA EraseKeeps ==
  ASSUME HouseInv, [Next]_allVars, Erase, UNCHANGED <<loop, digoutNum, pressed, app, used>> PROVE HouseInv'
<1>1. /\ power = "erase" /\ power' \in {"erase", "run"} /\ UNCHANGED <<digOut, calls, next, slot, buf>>
      /\ eeprom' = [eeprom EXCEPT ![slot] = @ \union Bits(byte)]
      /\ valid' \subseteq valid /\ kept' \in {{}, kept}
  BY DEF Erase, Erased
<1>2. valid = {slot} /\ slot \in Slots /\ byte \in 0 .. 3
  BY <1>1 DEF HouseInv, TypeInv, PlaceInv, Place
<1>3. /\ eeprom \in [Slots -> SUBSET Outputs] /\ digOut \in AnyDigOut /\ calls \in Seq(AnyCalls)
      /\ buf \in SUBSET Outputs /\ kept \in SUBSET Outputs
  BY TypeParts DEF HouseInv
<1>4. eeprom' \in [Slots -> SUBSET Outputs] /\ eeprom'[slot] = eeprom[slot] \union Bits(byte)
  BY <1>1, <1>2, <1>3, BitsAre
<1>5. TypeInv'
  BY <1>1, <1>3, <1>4, SupplyKeepsType DEF HouseInv, Powers
<1>6. /\ calls = <<>> /\ Lit(digOut.on) /\ (\A n \in Outputs : digOut.kind[n] = "NoDelay")
      /\ Lit(eeprom[slot])
  BY <1>1, <1>2 DEF HouseInv, StairInv
<1>7. Lit(eeprom'[slot])
  <2>1. CASE byte = 0
    BY <1>4, <2>1, BitsAre DEF Lit
  <2>2. CASE byte # 0
    <3>1. byte \in 1 .. 3
      BY <1>2, <2>2
    <3>2. Supply \notin Bits(byte) /\ LampSet \intersect Bits(byte) = {}
      BY <3>1, BitsAre
    <3>3. Supply \in eeprom'[slot] <=> Supply \in eeprom[slot]
      BY <1>4, <3>2
    <3>4. LampSet \intersect eeprom'[slot] = LampSet \intersect eeprom[slot]
      BY <1>4, <3>2
    <3> QED BY <1>6, <3>3, <3>4, LitOf
  <2> QED BY <2>1, <2>2
<1>8. Going(digOut') /\ Begun(digOut', calls') /\ digOut'.kind[Supply] = "NoDelay"
  BY <1>1, <1>6, OutputsAre, LampsAre, PendingNone DEF Going, Begun, Elsewhere, Lit
<1>9. StairInv'
  BY <1>1, <1>2, <1>6, <1>7, <1>8 DEF StairInv
<1>10. LightInv'
  BY <1>1, LightUnruled DEF HouseInv
<1> QED BY <1>5, <1>9, <1>10 DEF HouseInv

LEMMA FailureKeeps ==
  ASSUME HouseInv, [Next]_allVars, PowerFailure, UNCHANGED <<loop, digoutNum, pressed, app, used>> PROVE HouseInv'
<1>1. /\ power = "run" /\ power' = "save" /\ byte' = 0 /\ buf' = Saved(digOut)
      /\ digOut' = [digOut EXCEPT !.on = {}] /\ kept' \subseteq digOut.on
      /\ UNCHANGED <<calls, eeprom, valid, next, slot>>
  BY DEF PowerFailure
<1>2. digOut \in AnyDigOut /\ digOut.on \subseteq Outputs /\ calls \in Seq(AnyCalls) /\ eeprom \in [Slots -> SUBSET Outputs]
  BY TypeParts DEF HouseInv, AnyDigOut
<1>3. buf' = {n \in digOut.on : digOut.kind[n] = "NoDelay"}
  BY <1>1 DEF Saved, StateAllStandard, IsDelayed
<1>4. digOut' \in AnyDigOut
  BY <1>1, <1>2 DEF AnyDigOut
<1>5. TypeInv'
  BY <1>1, <1>2, <1>3, <1>4, SupplyKeepsType DEF HouseInv, Powers
<1>6. Going(digOut) /\ \A s \in valid : Lit(eeprom[s])
  BY <1>1 DEF HouseInv, StairInv
<1>7. Lit(buf')
  <2>1. CASE Supply \notin digOut.on
    BY <1>3, <1>6, <2>1 DEF Going, Lit, AtMostOneLamp
  <2>2. CASE Supply \in digOut.on /\ digOut.kind[Supply] = "NoDelay"
    BY <1>3, <2>2 DEF Lit
  <2>3. CASE Supply \in digOut.on /\ digOut.kind[Supply] = "DelayOff"
    BY <1>3, <1>6, <2>3 DEF Going, Lit, AtMostOneLamp
  <2>4. digOut.kind[Supply] \in {"NoDelay", "DelayOff"}
    BY <1>2, <1>6, OutputsAre DEF AnyDigOut, Going, Kinds
  <2> QED BY <2>1, <2>2, <2>3, <2>4
<1>8. StairInv'
  BY <1>1, <1>6, <1>7 DEF StairInv
<1>9. LightInv'
  BY <1>1, LightDark DEF HouseInv
<1> QED BY <1>5, <1>8, <1>9 DEF HouseInv

LEMMA SaveKeeps ==
  ASSUME HouseInv, [Next]_allVars, Save, UNCHANGED <<loop, digoutNum, pressed, app, used>> PROVE HouseInv'
<1>1. /\ power = "save" /\ UNCHANGED <<digOut, calls, next, slot, buf, kept>>
      /\ eeprom' = [eeprom EXCEPT ![next] = (@ \ Bits(byte)) \union (buf \intersect Bits(byte))]
      /\ \/ byte < 3 /\ byte' = byte + 1 /\ UNCHANGED <<valid, power>>
         \/ byte >= 3 /\ power' = "saved" /\ valid' = valid \union {next}
  <2>1. byte \in 0 .. 3
    BY DEF HouseInv, TypeInv, PlaceInv
  <2> QED BY <2>1 DEF Save
<1>2. next \in Slots /\ byte \in 0 .. 3 /\ valid = {}
  BY <1>1 DEF HouseInv, TypeInv, PlaceInv, Place
<1>3. /\ eeprom \in [Slots -> SUBSET Outputs] /\ digOut \in AnyDigOut /\ calls \in Seq(AnyCalls)
      /\ buf \in SUBSET Outputs /\ kept \in SUBSET Outputs
  BY TypeParts DEF HouseInv
<1>4. /\ eeprom' \in [Slots -> SUBSET Outputs]
      /\ eeprom'[next] = (eeprom[next] \ Bits(byte)) \union (buf \intersect Bits(byte))
  BY <1>1, <1>2, <1>3, BitsAre
<1>5. power' \in {"save", "saved"}
  BY <1>1
<1>6. TypeInv'
  BY <1>1, <1>3, <1>4, <1>5, SupplyKeepsType DEF HouseInv, Powers
<1>7. Lit(buf) /\ (byte > 0 => Lit(eeprom[next]))
  BY <1>1 DEF HouseInv, StairInv
<1>8. Lit(eeprom'[next])
  <2>1. CASE byte = 0
    <3>1. Supply \in eeprom'[next] <=> Supply \in buf
      BY <1>4, <2>1, BitsAre
    <3>2. LampSet \intersect eeprom'[next] = LampSet \intersect buf
      BY <1>4, <2>1, BitsAre
    <3> QED BY <1>7, <3>1, <3>2, LitOf
  <2>2. CASE byte # 0
    <3>1. byte \in 1 .. 3 /\ byte > 0
      BY <1>2, <2>2
    <3>2. Supply \notin Bits(byte) /\ LampSet \intersect Bits(byte) = {}
      BY <3>1, BitsAre
    <3>3. Supply \in eeprom'[next] <=> Supply \in eeprom[next]
      BY <1>4, <3>2
    <3>4. LampSet \intersect eeprom'[next] = LampSet \intersect eeprom[next]
      BY <1>4, <3>2
    <3> QED BY <1>7, <3>1, <3>3, <3>4, LitOf
  <2> QED BY <2>1, <2>2
<1>9. valid' \subseteq {next}
  BY <1>1, <1>2
<1>10. StairInv'
  BY <1>1, <1>5, <1>7, <1>8, <1>9 DEF StairInv
<1>11. LightInv'
  BY <1>1, <1>5, LightDark DEF HouseInv
<1> QED BY <1>6, <1>10, <1>11 DEF HouseInv

LEMMA HouseKept == HouseInv /\ [Next]_allVars => HouseInv'
<1> SUFFICES ASSUME HouseInv, [Next]_allVars PROVE HouseInv'
  OBVIOUS
<1>1. CASE UNCHANGED allVars
  <2> USE <1>1 DEF allVars, vars, app
  <2>1. TypeInv'
    BY DEF HouseInv, TypeInv, PlaceInv, Place, AtMostOne, Slots, Loops, Modes
  <2>2. LightInv'
    BY DEF HouseInv, LightInv, Wanted, ByMode
  <2>3. StairInv'
    BY DEF HouseInv, StairInv
  <2> QED BY <2>1, <2>2, <2>3 DEF HouseInv
<1>2. CASE Supplied
  BY <1>2, LossStep, BootKeeps, RestoreKeeps, EraseKeeps, FailureKeeps, SaveKeeps DEF Supplied
<1>3. CASE Next /\ ~ Supplied
  BY <1>3, NoTelegramStep, ButtonEventStep, SetVarStep, SetValueStep, ButtonReleasedStep, CheckButtonStep,
     DigOutStateCheckStep, ApplicationCheckStep, ContinueStep, TickStep DEF Next
<1> QED BY <1>1, <1>2, <1>3

LEMMA AlwaysHouse == Spec => []HouseInv
  BY HouseInit, HouseKept, PTL DEF Spec

(* Outputs, calls and what is saved of them are of their types, whatever is   *)
(* pressed and set and wherever the supply fails.                             *)
THEOREM HouseTypes == Spec => []TypeOK
<1>1. HouseInv => TypeOK
  <2> SUFFICES ASSUME HouseInv PROVE TypeOK
    OBVIOUS
  <2>1. digOut.on \subseteq Outputs /\ digOut.kind \in [Outputs -> Kinds] /\ digOut.left \in [Outputs -> Nat]
    BY TypeParts DEF HouseInv, AnyDigOut
  <2>2. \A i \in DOMAIN calls : calls[i].n \in Outputs /\ calls[i].op \in Kinds \union {"On", "Off", "Toggle"}
    <3>1. calls \in Seq(AnyCalls)
      BY TypeParts DEF HouseInv
    <3>2. \A i \in DOMAIN calls : calls[i] \in AnyCalls
      BY <3>1
    <3> QED BY <3>2 DEF AnyCalls, Ops
  <2>3. LoopType /\ AppType /\ PlaceInv
    BY TypeParts DEF HouseInv
  <2>4. eeprom \in [Slots -> SUBSET Outputs] /\ power \in Powers /\ buf \subseteq Outputs /\ kept \subseteq Outputs
    BY TypeParts DEF HouseInv
  <2> QED BY <2>1, <2>2, <2>3, <2>4 DEF TypeOK, LoopType, AppType, PlaceInv, Loops, Modes
<1> QED BY <1>1, AlwaysHouse, PTL

(* Whoever was the last to act on the light of the door, no delay, other      *)
(* handler or failure of the supply leaves it in another state (busvar 2,     *)
(* ApplicationPressed101_0, ApplicationCheck).                                *)
THEOREM LastRules == Spec => []DoorLight
<1>1. HouseInv => DoorLight
  <2> SUFFICES ASSUME HouseInv, Idle, ruled, mode = modeLightOld
               PROVE  Door \in digOut.on <=> (mode = ON \/ (mode = AUTO /\ "101_0" \in pressed))
    BY DEF DoorLight
  <2>1. Ready
    BY DEF HouseInv, Ready, Idle
  <2>2. Door \in digOut.on <=> Wanted
    BY <2>1, ReadyLight DEF HouseInv
  <2>3. doorlightAutoState <=> "101_0" \in pressed
    BY DEF HouseInv, LightInv
  <2> QED BY <2>2, <2>3 DEF Wanted
<1> QED BY <1>1, AlwaysHouse, PTL

(* However the stairs are pressed from both ends, and wherever the supply of  *)
(* the house fails and what was saved comes on again, the supply of the lamps *)
(* is not off under two of them (ApplicationPressed18_0, StiegeOben).         *)
THEOREM LampsSupplied == Spec => []Powered
<1>1. HouseInv => Powered
  <2> SUFFICES ASSUME HouseInv, Idle, Supply \notin digOut.on
               PROVE  Cardinality({i \in DOMAIN Lamps : Lamps[i] \in digOut.on}) <= 1
    BY DEF Powered
  <2> DEFINE X == {i \in DOMAIN Lamps : Lamps[i] \in digOut.on}
  <2>1. AtMostOneLamp(digOut.on)
    BY DEF HouseInv, StairInv, Idle, Going
  <2>2. DOMAIN Lamps = 1 .. Len(Lamps)
    BY LampsAre
  <2>3. \A i, j \in X : i = j
    BY <2>1, <2>2, LampsAre DEF AtMostOneLamp
  <2>4. CASE X = {}
    BY <2>4, FS_EmptySet
  <2>5. CASE X # {}
    <3>1. PICK x \in X : TRUE
      BY <2>5
    <3>2. X = {x}
      BY <2>3, <3>1
    <3>3. Cardinality({x}) = 1
      BY FS_Singleton
    <3> QED BY <3>2, <3>3
  <2> QED BY <2>4, <2>5
<1> QED BY <1>1, AlwaysHouse, PTL

(* Outputs whose save was completed come on again in the house as well.       *)
THEOREM HouseForgetsNothing == Spec => []NothingForgotten
<1>1. Init => SaveInv
  BY InitSaveInv DEF Init
<1>2. HouseInv' /\ SaveInv /\ [Next]_allVars => SaveInv'
  <2> SUFFICES ASSUME HouseInv', SaveInv, [Next]_allVars PROVE SaveInv'
    OBVIOUS
  <2>1. digOut'.on \subseteq Outputs
    BY TypeParts DEF HouseInv, TypeInv, AnyDigOut
  <2> QED BY <2>1, HouseStep, StepSaveInv
<1> QED BY <1>1, <1>2, AlwaysHouse, SaveInvSuffices, PTL DEF Spec
=============================================================================
