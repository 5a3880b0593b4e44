------------------------------- MODULE Shader -------------------------------
(***************************************************************************)
(* devices/common/shader.c: one shutter with its two relays.  ShaderCheck  *)
(* serves the shutters in turn; they share nothing, so one is modelled.    *)
(* Positions are in steps of 1 / Full, which is one percent in the code.   *)
(***************************************************************************)
EXTENDS Integers

CONSTANTS
  Full,            \* SHADER_OPEN_COMPLETELY
  Positions,       \* that are asked for
  openDuration, closeDuration,   \* in ticks of 10 ms, as ShaderSetConfig accepts them
  Height,          \* of the shutter, a multiple of both durations and of Full
  SHADER_DELAY_RELAY, SHADER_DELAY_DIRCHANGE,
  Word,            \* 2^16, the range of the 10 ms timer
  MaxGap,          \* bound: ticks between two calls of ShaderCheck
  MaxMoves         \* bound: moves up to which the position is followed

ASSUME ShaderAssumption ==
  /\ Full \in Nat \ {0} /\ Positions \subseteq 0 .. Full
  /\ Height \in Nat \ {0} /\ Word \in Nat \ {0}
  /\ openDuration \in 1 .. Word - 1 /\ closeDuration \in 1 .. Word - 1
  /\ Height % openDuration = 0 /\ Height % closeDuration = 0 /\ Height % Full = 0
  /\ SHADER_DELAY_RELAY \in Nat /\ SHADER_DELAY_DIRCHANGE \in Nat
  /\ SHADER_DELAY_DIRCHANGE >= SHADER_DELAY_RELAY
  /\ MaxGap \in Nat \ {0} /\ MaxMoves \in Nat

VARIABLES
  state, cmd, setPosition, actualPosition, startingPosition,
  actionPeriod,        \* the 16 bit difference of the time and actionTimestamp
  onSwitch, dirSwitch, \* the relays for power and direction
  height,              \* where the shutter really is
  gap,                 \* ticks since ShaderCheck was called
  onAge, dirAge,       \* ticks since a relay switched, up to SHADER_DELAY_RELAY
  moves,               \* moves since the shutter was at an end for certain
  asked,               \* a position was asked for last, and no stop
  rested               \* ShaderCheck has run without a command since the last one

relays == <<onSwitch, dirSwitch>>
observed == <<onAge, dirAge, moves>>
vars == <<state, cmd, setPosition, actualPosition, startingPosition, actionPeriod, relays,
          height, gap, observed, asked, rested>>

States == {"Stopped", "Exit", "OpenInit", "Opening", "CloseInit", "Closing",
           "DirectionChangeOpenInit", "DirectionChangeCloseInit"}
Relay == {"on", "off"}
Commands == {"None", "Stop", "SetPosition"}

AtMost(n, max) == IF n < max THEN n ELSE max
AtLeast(n, min) == IF n > min THEN n ELSE min

-----------------------------------------------------------------------------
(* After ShaderSetConfig; nobody knows where the shutter is. *)
Init ==
  /\ state = "Stopped" /\ cmd = "None"
  /\ setPosition = Full \div 2 /\ actualPosition = Full \div 2 /\ startingPosition = Full \div 2
  /\ actionPeriod = 0
  /\ onSwitch = "off" /\ dirSwitch = "off"
  /\ height \in {0, Height} /\ gap = 0
  /\ onAge = SHADER_DELAY_RELAY /\ dirAge = SHADER_DELAY_RELAY
  /\ moves = MaxMoves + 1 /\ asked = FALSE /\ rested = TRUE

(* Telegrams are much slower than the main loop: two commands either come    *)
(* before ShaderCheck has seen the first, or it also runs in between.        *)
Telegram == (cmd # "None" \/ rested) /\ rested' = FALSE

(* ShaderSetPosition, also for open and close *)
ShaderSetPosition(position) ==
  /\ Telegram
  /\ cmd' = "SetPosition" /\ setPosition' = position /\ asked' = TRUE
  /\ UNCHANGED <<state, actualPosition, startingPosition, actionPeriod, relays, height, gap, observed>>

(* ShaderSetAction(eShaderStop) *)
ShaderStop ==
  /\ Telegram
  /\ cmd' = "Stop" /\ asked' = FALSE
  /\ UNCHANGED <<state, setPosition, actualPosition, startingPosition, actionPeriod, relays,
                 height, gap, observed>>

-----------------------------------------------------------------------------
(* Switching of relays in ShaderCheck; the ages are those of the relays. *)
DigOut(on, dir) ==
  /\ onSwitch' = on /\ onAge' = IF on = onSwitch THEN onAge ELSE 0
  /\ dirSwitch' = dir /\ dirAge' = IF dir = dirSwitch THEN dirAge ELSE 0

(* To another state, with GET_TIME_10MS16(actionTimestamp). *)
Enter(next) == state' = next /\ actionPeriod' = 0

Stay == UNCHANGED <<state, actionPeriod, relays, onAge, dirAge>>

Consumed == cmd' = "None"

(* Mutant of Kept: a command that cannot be served yet is forgotten. *)
KeptNot == cmd' = "None"

Kept == UNCHANGED cmd

Stopped ==
  /\ state = "Stopped"
  /\ \/ /\ cmd = "SetPosition" /\ setPosition < actualPosition
        /\ Enter("CloseInit") /\ DigOut(onSwitch, "off")
     \/ /\ cmd = "SetPosition" /\ setPosition > actualPosition
        /\ Enter("OpenInit") /\ DigOut(onSwitch, "on")
     \/ /\ cmd = "SetPosition" /\ setPosition = actualPosition
        /\ Enter("Stopped") /\ DigOut(onSwitch, dirSwitch)
     \/ cmd # "SetPosition" /\ Stay
  /\ Consumed
  /\ UNCHANGED <<actualPosition, startingPosition, moves>>

Exit ==
  /\ state = "Exit"
  /\ \/ /\ actionPeriod >= SHADER_DELAY_RELAY
        /\ Enter("Stopped") /\ DigOut(onSwitch, "off")
     \/ actionPeriod < SHADER_DELAY_RELAY /\ Stay
  /\ Kept
  /\ UNCHANGED <<actualPosition, startingPosition, moves>>

(* Mutant of Begin: where the motion started is not noted. *)
BeginAgain == startingPosition

Begin == actualPosition

(* Mutant of InitElapsed: the motor is switched on with the direction relay. *)
InitElapsedNot == TRUE

InitElapsed == actionPeriod >= SHADER_DELAY_RELAY

(* eStateOpenInit and eStateCloseInit *)
MoveInit(from, to) ==
  /\ state = from
  /\ \/ /\ InitElapsed
        /\ Enter(to) /\ DigOut("on", dirSwitch)
        /\ startingPosition' = Begin
     \/ ~InitElapsed /\ Stay /\ UNCHANGED startingPosition
  /\ Kept
  /\ UNCHANGED <<actualPosition, moves>>

(* Mutant of OpenedTo: more than open. *)
OpenedToBeyond == startingPosition + (actionPeriod * Full) \div openDuration

OpenedTo == AtMost(startingPosition + (actionPeriod * Full) \div openDuration, Full)

ClosedTo == AtLeast(startingPosition - (actionPeriod * Full) \div closeDuration, 0)

Overtime(duration) == (duration * 110) \div 100

(* Mutant of SwitchOff: power stays on. *)
SwitchOffNot(next) ==
  /\ Enter(next) /\ DigOut(onSwitch, dirSwitch)
  /\ moves' = AtMost(moves + 1, MaxMoves + 1)

(* The shutter stops. *)
SwitchOff(next) ==
  /\ Enter(next) /\ DigOut("off", dirSwitch)
  /\ moves' = AtMost(moves + 1, MaxMoves + 1)

(* The shutter has reached an end. *)
SwitchOffAtEnd == Enter("Exit") /\ DigOut("off", dirSwitch) /\ moves' = 0

Continue == Stay /\ UNCHANGED moves

(* eStateOpening and eStateClosing: now is actualPosition after the time that *)
(* has passed, reached whether it is the position asked for or beyond, behind *)
(* whether that position is behind.                                           *)
Moving(now, end, duration, reached, behind, change) ==
  /\ actualPosition' = now
  /\ \/ /\ cmd = "None" /\ setPosition = end
        /\ IF actionPeriod >= Overtime(duration) THEN SwitchOffAtEnd ELSE Continue
     \/ /\ cmd = "None" /\ setPosition # end
        /\ IF reached THEN SwitchOff("Exit") ELSE Continue
     \/ cmd = "Stop" /\ SwitchOff("Exit")
     \/ /\ cmd = "SetPosition"
        /\ IF behind THEN SwitchOff(change) ELSE Continue
  /\ Consumed
  /\ UNCHANGED startingPosition

Opening ==
  /\ state = "Opening"
  /\ Moving(OpenedTo, Full, openDuration, OpenedTo >= setPosition, setPosition < OpenedTo,
            "DirectionChangeCloseInit")

Closing ==
  /\ state = "Closing"
  /\ Moving(ClosedTo, 0, closeDuration, ClosedTo <= setPosition, setPosition > ClosedTo,
            "DirectionChangeOpenInit")

(* eStateDirectionChange...: turned is the direction relay after the change, *)
(* straight the one before, and onward whether the position asked for is in  *)
(* the old direction.                                                        *)
DirectionChange(from, turned, next, onward, straight, back) ==
  /\ state = from
  /\ \/ /\ cmd = "None" /\ actionPeriod >= SHADER_DELAY_DIRCHANGE
        /\ Enter(next) /\ DigOut(onSwitch, turned)
     \/ cmd = "None" /\ actionPeriod < SHADER_DELAY_DIRCHANGE /\ Stay
     \/ cmd = "Stop" /\ Enter("Exit") /\ DigOut("off", dirSwitch)
     \/ cmd = "SetPosition" /\ onward /\ Enter(back) /\ DigOut(onSwitch, straight)
     \/ cmd = "SetPosition" /\ ~onward /\ Stay
  /\ Consumed
  /\ UNCHANGED <<actualPosition, startingPosition, moves>>

ShaderCheck ==
  /\ \/ Stopped \/ Exit \/ Opening \/ Closing
     \/ MoveInit("OpenInit", "Opening") \/ MoveInit("CloseInit", "Closing")
     \/ DirectionChange("DirectionChangeCloseInit", "off", "CloseInit",
                        setPosition > actualPosition, "on", "OpenInit")
     \/ DirectionChange("DirectionChangeOpenInit", "on", "OpenInit",
                        setPosition < actualPosition, "off", "CloseInit")
  /\ gap' = 0 /\ rested' = (rested \/ cmd = "None")
  /\ UNCHANGED <<setPosition, height, asked>>

(* 10 ms pass, and the motor runs. *)
Tick ==
  /\ gap < MaxGap /\ gap' = gap + 1
  /\ actionPeriod' = IF actionPeriod + 1 < Word THEN actionPeriod + 1 ELSE 0
  /\ height' = CASE onSwitch = "off" -> height
                 [] onSwitch = "on" /\ dirSwitch = "on" -> AtMost(height + Height \div openDuration, Height)
                 [] onSwitch = "on" /\ dirSwitch = "off" -> AtLeast(height - Height \div closeDuration, 0)
  /\ onAge' = AtMost(onAge + 1, SHADER_DELAY_RELAY)
  /\ dirAge' = AtMost(dirAge + 1, SHADER_DELAY_RELAY)
  /\ UNCHANGED <<state, cmd, setPosition, actualPosition, startingPosition, relays, moves,
                 asked, rested>>

Next ==
  \/ ShaderCheck \/ Tick
  \/ \E position \in Positions : ShaderSetPosition(position)
  \/ ShaderStop

Spec == Init /\ [][Next]_vars

(* The main loop calls ShaderCheck and the timer runs. *)
FairSpec == Spec /\ WF_vars(ShaderCheck) /\ WF_vars(Tick)

-----------------------------------------------------------------------------
TypeOK ==
  /\ state \in States /\ cmd \in Commands
  /\ setPosition \in 0 .. Full /\ actualPosition \in 0 .. Full /\ startingPosition \in 0 .. Full
  /\ actionPeriod \in 0 .. Word - 1
  /\ onSwitch \in Relay /\ dirSwitch \in Relay
  /\ height \in 0 .. Height /\ gap \in 0 .. MaxGap
  /\ onAge \in 0 .. SHADER_DELAY_RELAY /\ dirAge \in 0 .. SHADER_DELAY_RELAY
  /\ moves \in 0 .. MaxMoves + 1 /\ asked \in BOOLEAN /\ rested \in BOOLEAN

(* The relays never switch together ("kein gleichzeitiger schalten der       *)
(* Relais"): the direction relay switches only when power has been off for   *)
(* SHADER_DELAY_RELAY, and power comes on only when the direction has been   *)
(* right for as long, whatever is asked for in between.                      *)
Interlock ==
  /\ dirSwitch' # dirSwitch => onSwitch = "off" /\ onSwitch' = "off" /\ onAge = SHADER_DELAY_RELAY
  /\ onSwitch = "off" /\ onSwitch' = "on" => dirAge = SHADER_DELAY_RELAY
Interlocked == [][Interlock]_vars

(* The motor moves the shutter the way the state says. *)
MovesRight ==
  /\ onSwitch = "on" <=> state \in {"Opening", "Closing"}
  /\ onSwitch = "on" => (dirSwitch = "on" <=> state = "Opening")

(* A shutter that has been run to an end is there, wherever it was before,   *)
(* and actualPosition says so; after some moves from there actualPosition is *)
(* wrong by at most one step for each of them.                               *)
Tracked ==
  onSwitch = "off" /\ moves <= MaxMoves =>
    LET error == height - actualPosition * (Height \div Full)
        allowed == moves * (Height \div Full)
    IN  error \in -allowed .. allowed

(* When no more commands come, the motor is switched off, and the shutter is *)
(* where it was asked to be, up to what it moves between two checks.         *)
Near ==
  LET duration == AtMost(openDuration, closeDuration)
      step == (MaxGap * Full + duration - 1) \div duration
  IN  asked => actualPosition \in setPosition - step .. setPosition + step
Settles == <>[](cmd = "None") => <>[](state = "Stopped" /\ Near)
=============================================================================
