------------------------------ MODULE Klaus240 ------------------------------
(***************************************************************************)
(* projects/klaus240/application.c on a DO31: what buttons, motion         *)
(* detector, bell and bus variables do with the outputs, in the main loop  *)
(* of devices/do31/main.c and under its power failures.                    *)
(***************************************************************************)
EXTENDS PowerFail, SequencesExt

CONSTANTS
  Lamps,            \* of the stairs, from below (1 .. 6)
  DELAY,            \* between two of them, in ticks
  LONG, PULSE,      \* the delays of minutes, and the pulses of 250 ms and 1 s
  Users             \* sets of buttons, by what one run of the system uses


VARIABLES
  loop,                     \* the part of the main loop that is next
  digoutNum,                \* sDigoutNum
  pressed,                  \* buttons in the list of active ones
  brightness, disable, mode, \* bus variables 0 (persistent), 1 and 2
  modeLightOld, doorlightAutoState, bellToggle,
  used,                     \* the buttons somebody uses
  ruled                     \* the mode was the last to set the door light, and no delay runs

app == <<brightness, disable, mode, modeLightOld, doorlightAutoState, bellToggle, ruled>>
allVars == <<vars, loop, digoutNum, pressed, app, used>>

Supply == 0                 \* Netzteil Stiege
Bell == 18
Door == 30
CONSTANTS AUTO, OFF, ON     \* MODE_LIGHT_...

ASSUME Klaus240Assumption ==
  /\ Lamps \in Seq((1 .. 6) \intersect Outputs) /\ Lamps # <<>>
  /\ \A i, j \in DOMAIN Lamps : Lamps[i] = Lamps[j] => i = j
  /\ DELAY \in Nat \ {0} /\ LONG \in Nat /\ PULSE \in Nat
  /\ AUTO # OFF /\ AUTO # ON /\ OFF # ON
  /\ {Supply, Bell, Door, 17, 25} \subseteq Outputs

Buttons == UNION Users

(* Handlers that toggle one output, on the three floors. *)
Toggled18 == {<<"18_1", 14>>, <<"19_1", 11>>, <<"20_1", 11>>, <<"21_0", 8>>, <<"23_1", 12>>}
Toggled24 == {<<"24_1", 19>>, <<"25_0", 13>>, <<"25_1", 15>>, <<"26_1", 15>>, <<"27_0", 16>>, <<"28_1", 16>>}
Toggled31 == {<<"31_0", 19>>, <<"33_0", 19>>, <<"33_1", 20>>}
Toggled38 == {<<"38_0", 22>>, <<"39_0", 21>>, <<"40_0", 24>>, <<"41_0", 26>>, <<"42_0", 23>>,
              <<"43_0", 22>>, <<"43_1", 25>>}
Toggled == Toggled18 \union Toggled24 \union Toggled31 \union Toggled38

(* Handlers that switch on for a time, and off when pressed again. *)
TimedUpstairs == {<<"22_0", 7>>, <<"23_0", 10>>}
TimedGarage == {<<"34_0", 9>>, <<"35_0", 9>>}
Timed == TimedUpstairs \union TimedGarage

(* What a button toggles or switches on for a time is wired. *)
ASSUME WiredAssumption ==
  \A p \in Toggled \union Timed : p[1] \in Buttons => p[2] \in Outputs

-----------------------------------------------------------------------------
(* The lamps of the stairs, nearest first: they go on one after the other     *)
(* from the nearest and off from the farthest, the supply with the last one.  *)
Farther(near, i) == {near[j] : j \in i + 1 .. Len(near)} \intersect digOut.on

(* Mutant of Cancelled: the supply's delay goes on. *)
CancelledLamps(near) == [i \in DOMAIN near |-> DelayCancel(near[i])]

Cancelled(near) == <<DelayCancel(Supply)>> \o [i \in DOMAIN near |-> DelayCancel(Lamps[i])]

OffInTurn(near, i) ==
  IF near[i] \in digOut.on THEN DelayedOff(near[i], DELAY * Cardinality(Farther(near, i))) ELSE <<>>

SwitchedOff(near) ==
  LET last[k \in 0 .. Len(near)] == IF k = 0 THEN <<>> ELSE last[k - 1] \o OffInTurn(near, Len(near) + 1 - k)
  IN  last[Len(near)] \o DelayedOff(Supply, DELAY * Cardinality(Farther(near, 1)))

OnInTurn(near) == [i \in 1 .. Len(near) - 1 |-> DelayedOn(near[i + 1], DELAY * i)]

SwitchedOn(near) == <<On(Supply), On(near[1])>> \o OnInTurn(near)

Stairs(near) ==
  /\ calls' = CASE \E i \in DOMAIN near : IsDelayed(digOut, near[i]) -> Cancelled(near)
                [] OTHER -> IF Supply \in digOut.on THEN SwitchedOff(near) ELSE SwitchedOn(near)
  /\ UNCHANGED app

(* ApplicationPressed18_0, and StiegeOben for 19_0 and 20_0 *)
PressStairs(b) ==
  \/ b = "18_0" /\ Stairs(Lamps)
  \/ b \in {"19_0", "20_0"} /\ Stairs(Reverse(Lamps))

PressToggled(b) ==
  /\ \E p \in Toggled : p[1] = b /\ calls' = <<Toggle(p[2])>>
  /\ UNCHANGED app

PressTimed(b) ==
  /\ \E p \in Timed : p[1] = b /\ calls' = IF p[2] \in digOut.on THEN <<Off(p[2])>> ELSE DelayedOff(p[2], LONG)
  /\ UNCHANGED app

Direct(b) == b = "29_0" /\ UNCHANGED app

PressDirect(b) == Direct(b) /\ calls' = <<On(17)>>
ReleaseDirect(b) == Direct(b) /\ calls' = <<Off(17)>>

(* ApplicationPressed30_0 and ApplicationReleased30_0 *)
ToggleWired(n) == IF n \in Outputs THEN <<Toggle(n)>> ELSE <<>>
ToggleLights == ToggleWired(13) \o ToggleWired(15) \o ToggleWired(23) \o ToggleWired(24)

PressBell(b) ==
  /\ b = "30_0"
  /\ calls' = IF disable THEN <<>>
              ELSE (IF IsDelayed(digOut, Bell) THEN <<>> ELSE DelayedOff(Bell, PULSE))
                   \o (IF bellToggle THEN <<>> ELSE ToggleLights)
  /\ bellToggle' = (bellToggle \/ ~disable)
  /\ UNCHANGED <<brightness, disable, mode, modeLightOld, doorlightAutoState, ruled>>

ReleaseBell(b) ==
  /\ b = "30_0"
  /\ calls' = IF ~disable /\ bellToggle THEN ToggleLights ELSE <<>>
  /\ bellToggle' = (bellToggle /\ disable)
  /\ UNCHANGED <<brightness, disable, mode, modeLightOld, doorlightAutoState, ruled>>

(* ApplicationPressed37_0 and ApplicationReleased37_0 *)
PressBrightness(b) ==
  /\ b = "37_0"
  /\ calls' = IF brightness = 1 THEN <<Off(25)>> ELSE <<>>
  /\ UNCHANGED app
ReleaseBrightness(b) ==
  /\ b = "37_0"
  /\ calls' = IF brightness = 1 THEN <<On(25)>> ELSE <<>>
  /\ UNCHANGED app

PressDoor(b) ==
  /\ b = "51_0"
  /\ calls' = IF Door \in digOut.on THEN <<Off(Door)>> ELSE DelayedOff(Door, LONG)
  /\ ruled' = FALSE
  /\ UNCHANGED <<brightness, disable, mode, modeLightOld, doorlightAutoState, bellToggle>>

(* Mutant of Motion: a motion in another mode is not noted. *)
MotionOnly(there, call) ==
  /\ calls' = IF mode = AUTO THEN <<call>> ELSE <<>>
  /\ doorlightAutoState' = IF mode = AUTO THEN there ELSE doorlightAutoState
  /\ ruled' = IF mode = AUTO THEN ~IsDelayed(digOut, Door) ELSE ruled
  /\ UNCHANGED <<brightness, disable, mode, modeLightOld, bellToggle>>

(* ApplicationPressed101_0 and ApplicationReleased101_0 *)
Motion(there, call) ==
  /\ calls' = IF mode = AUTO THEN <<call>> ELSE <<>>
  /\ doorlightAutoState' = there
  /\ ruled' = IF mode = AUTO THEN ~IsDelayed(digOut, Door) ELSE ruled
  /\ UNCHANGED <<brightness, disable, mode, modeLightOld, bellToggle>>

PressMotion(b) == b = "101_0" /\ Motion(TRUE, On(Door))
ReleaseMotion(b) == b = "101_0" /\ Motion(FALSE, Off(Door))

Press(b) ==
  \/ PressStairs(b) \/ PressToggled(b) \/ PressTimed(b) \/ PressDirect(b) \/ PressBell(b)
  \/ PressBrightness(b) \/ PressDoor(b) \/ PressMotion(b)

Release(b) ==
  \/ ReleaseDirect(b) \/ ReleaseBell(b) \/ ReleaseBrightness(b) \/ ReleaseMotion(b)
  \/ b \notin {"29_0", "30_0", "37_0", "101_0"} /\ calls' = <<>> /\ UNCHANGED app

-----------------------------------------------------------------------------
(* The main loop goes on when what it has begun is done. *)
At(part) == MainLoop /\ loop = part /\ calls = <<>>

(* ProcessBus without a telegram *)
NoTelegram ==
  /\ At("ProcessBus") /\ loop' = "CheckButton"
  /\ UNCHANGED <<digOut, calls, digoutNum, pressed, app, used>>

(* ButtonEvent and SwitchEvent: the first telegram of a button *)
ButtonEvent(b) ==
  /\ At("ProcessBus") /\ b \in used \ pressed
  /\ Press(b)
  /\ pressed' = pressed \union {b} /\ loop' = "CheckButton"
  /\ UNCHANGED <<digOut, digoutNum, used>>

(* eBusDevReqSetVar for the three variables *)
SetVar ==
  /\ At("ProcessBus") /\ loop' = "CheckButton"
  /\ \/ \E b \in {"51_0", "101_0"} \intersect used : mode' \in {AUTO, OFF, ON} /\ UNCHANGED <<brightness, disable>>
     \/ "30_0" \in used /\ disable' \in BOOLEAN /\ UNCHANGED <<brightness, mode>>
     \/ "37_0" \in used /\ brightness' \in 0 .. 1 /\ UNCHANGED <<disable, mode>>
  /\ UNCHANGED <<digOut, calls, digoutNum, pressed, modeLightOld, doorlightAutoState, bellToggle, ruled, used>>

(* eBusDevReqSetValue with one output, which is not of a shutter *)
SetValue(n) ==
  /\ At("ProcessBus") /\ loop' = "CheckButton"
  /\ calls' \in {Trigger(n, 2 * PULSE), <<Off(n)>>, <<On(n)>>}
  /\ ruled' = (ruled /\ n # Door)
  /\ UNCHANGED <<digOut, digoutNum, pressed, brightness, disable, mode, modeLightOld, doorlightAutoState, bellToggle, used>>

(* CheckButton: releases, as many as there are *)
ButtonReleased(b) ==
  /\ At("CheckButton") /\ b \in pressed
  /\ Release(b)
  /\ pressed' = pressed \ {b}
  /\ UNCHANGED <<digOut, loop, digoutNum, used>>

CheckButton ==
  /\ At("CheckButton") /\ loop' = "DigOutStateCheck"
  /\ UNCHANGED <<digOut, calls, digoutNum, pressed, app, used>>

(* Mutant of Following: no return to the first output. *)
FollowingNot(n) == n + 1

Following(n) == LET later == {m \in Outputs : m > n} IN
  CHOOSE m \in Outputs : IF later # {} THEN m \in later /\ \A l \in later : m <= l
                                       ELSE \A l \in Outputs : m <= l

DigOutStateCheck ==
  /\ At("DigOutStateCheck") /\ loop' = "ApplicationCheck"
  /\ calls' = StateCheck(digOut, digoutNum)
  /\ digoutNum' = Following(digoutNum)
  /\ UNCHANGED <<digOut, pressed, app, used>>

ByMode == IF mode = ON \/ (mode = AUTO /\ doorlightAutoState) THEN On(Door) ELSE Off(Door)

ApplicationCheck ==
  /\ At("ApplicationCheck") /\ loop' = "ProcessBus"
  /\ \/ mode = modeLightOld /\ UNCHANGED <<calls, app>>
     \/ /\ mode # modeLightOld
        /\ modeLightOld' = mode
        /\ calls' = <<ByMode>> /\ ruled' = ~IsDelayed(digOut, Door)
        /\ UNCHANGED <<brightness, disable, mode, doorlightAutoState, bellToggle>>
  /\ UNCHANGED <<digOut, digoutNum, pressed, used>>

(* One call of what the main loop has begun *)
Continue ==
  /\ MainLoop /\ calls # <<>>
  /\ digOut' = Perform(digOut, Head(calls)) /\ calls' = Tail(calls)
  /\ UNCHANGED <<loop, digoutNum, pressed, app, used>>

Tick ==
  /\ MainLoop /\ calls = <<>> /\ Served(digOut)
  /\ \E n \in Outputs : IsDelayed(digOut, n)
  /\ digOut' = Elapsed(digOut)
  /\ UNCHANGED <<calls, loop, digoutNum, pressed, app, used>>

(* Only the persistent variable survives a loss of power. *)
Forget ==
  /\ loop' = "ProcessBus" /\ digoutNum' = Following(31) /\ pressed' = {}
  /\ disable' = FALSE /\ mode' = AUTO /\ modeLightOld' = AUTO
  /\ doorlightAutoState' = FALSE /\ bellToggle' = FALSE /\ ruled' = FALSE
  /\ UNCHANGED <<brightness, used>>

Init ==
  /\ PowerInit
  /\ loop = "ProcessBus" /\ digoutNum = Following(31) /\ pressed = {}
  /\ brightness = 0 /\ disable = FALSE /\ mode = AUTO /\ modeLightOld = AUTO
  /\ doorlightAutoState = FALSE /\ bellToggle = FALSE /\ ruled = FALSE
  /\ used \in Users

Supplied ==
  \/ PowerLoss /\ Forget
  \/ /\ Boot \/ Restore \/ Erase \/ PowerFailure \/ Save
     /\ UNCHANGED <<loop, digoutNum, pressed, app, used>>

Next ==
  \/ NoTelegram \/ (\E b \in used : ButtonEvent(b)) \/ SetVar \/ ("51_0" \in used /\ SetValue(Door))
  \/ (\E b \in pressed : ButtonReleased(b)) \/ CheckButton \/ DigOutStateCheck \/ ApplicationCheck
  \/ Continue \/ Tick \/ Supplied

Spec == Init /\ [][Next]_allVars

-----------------------------------------------------------------------------
TypeOK ==
  /\ digOut.on \subseteq Outputs /\ digOut.kind \in [Outputs -> Kinds] /\ digOut.left \in [Outputs -> Nat]
  /\ \A i \in DOMAIN calls : calls[i].n \in Outputs /\ calls[i].op \in Kinds \union {"On", "Off", "Toggle"}
  /\ eeprom \in [Slots -> SUBSET Outputs] /\ valid \subseteq Slots
  /\ next \in Slots /\ slot \in Slots /\ power \in Powers
  /\ buf \subseteq Outputs /\ byte \in 0 .. 3 /\ kept \subseteq Outputs
  /\ loop \in {"ProcessBus", "CheckButton", "DigOutStateCheck", "ApplicationCheck"}
  /\ digoutNum \in Outputs /\ pressed \subseteq used /\ used \in Users
  /\ brightness \in 0 .. 1 /\ mode \in {AUTO, OFF, ON} /\ modeLightOld \in {AUTO, OFF, ON}
  /\ {disable, doorlightAutoState, bellToggle, ruled} \subseteq BOOLEAN

Idle == power = "run" /\ calls = <<>>

(* When the mode or the motion detector was the last to set the door light,   *)
(* and no delay of it was running, the light is what the comment on busvar 2  *)
(* says: on in EIN, off in AUS, the state of the detector in AUTO.            *)
DoorLight ==
  Idle /\ ruled /\ mode = modeLightOld =>
    (Door \in digOut.on <=> (mode = ON \/ (mode = AUTO /\ "101_0" \in pressed)))

(* The supply of the stairs is off before the lamps for one lamp at most, the *)
(* one whose turn to go off with it was missed (Pressed18_0, StiegeOben).     *)
Powered ==
  Idle /\ Supply \notin digOut.on => Cardinality({i \in DOMAIN Lamps : Lamps[i] \in digOut.on}) <= 1
=============================================================================
