---------------------------- MODULE ShaderProofs ----------------------------
(***************************************************************************)
(* The relays of a shutter never switch together, for any durations,       *)
(* delays, positions and word size.                                        *)
(***************************************************************************)
EXTENDS Shader, TLAPS

SetTypes ==
  /\ state \in States /\ cmd \in Commands
  /\ actionPeriod \in Nat /\ onAge \in 0 .. SHADER_DELAY_RELAY /\ dirAge \in 0 .. SHADER_DELAY_RELAY
  /\ onSwitch \in Relay /\ dirSwitch \in Relay

(* A relay has rested for as long as the state lasts, or for the whole delay. *)
Rested(age) == age >= actionPeriod \/ age = SHADER_DELAY_RELAY

(* What the states say of the relays: in eStateStopped power has been off for *)
(* the delay, in the states that wait a relay rests while actionPeriod grows. *)
RelayInv ==
  /\ MovesRight
  /\ state = "Stopped" => onAge = SHADER_DELAY_RELAY
  /\ state \in {"Exit", "DirectionChangeOpenInit", "DirectionChangeCloseInit"} => Rested(onAge)
  /\ state \in {"OpenInit", "CloseInit"} => Rested(dirAge)
  /\ state \in {"OpenInit", "Opening", "DirectionChangeCloseInit"} => dirSwitch = "on"
  /\ state \in {"CloseInit", "Closing", "DirectionChangeOpenInit"} => dirSwitch = "off"

IInv == SetTypes /\ RelayInv

LEMMA Delays == /\ SHADER_DELAY_RELAY \in Nat /\ SHADER_DELAY_DIRCHANGE \in Nat
                /\ SHADER_DELAY_DIRCHANGE >= SHADER_DELAY_RELAY
  BY ShaderAssumption DEF ShaderAssumption

LEMMA InitIInv == Init => IInv
  BY Delays DEF Init, IInv, SetTypes, RelayInv, MovesRight, States, Commands, Relay

LEMMA StoppedStep == IInv /\ Stopped => IInv' /\ Interlock
  BY Delays DEF IInv, SetTypes, RelayInv, MovesRight, Rested, Interlock, States, Commands, Relay,
     Stopped, Enter, Stay, relays, Consumed, DigOut

LEMMA ExitStep == IInv /\ Exit => IInv' /\ Interlock
  BY Delays DEF IInv, SetTypes, RelayInv, MovesRight, Rested, Interlock, States, Commands, Relay,
     Exit, Enter, Stay, relays, Kept, DigOut

LEMMA MoveInitStep ==
  ASSUME NEW from, NEW to, <<from, to>> \in {<<"OpenInit", "Opening">>, <<"CloseInit", "Closing">>},
         IInv, MoveInit(from, to)
  PROVE  IInv' /\ Interlock
  BY Delays DEF IInv, SetTypes, RelayInv, MovesRight, Rested, Interlock, States, Commands, Relay,
     MoveInit, InitElapsed, Enter, Stay, relays, Kept, DigOut

LEMMA MovingStep ==
  ASSUME IInv, Opening \/ Closing
  PROVE  IInv' /\ Interlock
  BY Delays DEF IInv, SetTypes, RelayInv, MovesRight, Rested, Interlock, States, Commands, Relay,
     Opening, Closing, Moving, SwitchOff, SwitchOffAtEnd, Continue, Enter, Stay, relays, Consumed, DigOut

LEMMA DirectionChangeStep ==
  ASSUME NEW onward,
         IInv,
         \/ DirectionChange("DirectionChangeCloseInit", "off", "CloseInit", onward, "on", "OpenInit")
         \/ DirectionChange("DirectionChangeOpenInit", "on", "OpenInit", onward, "off", "CloseInit")
  PROVE  IInv' /\ Interlock
  BY Delays DEF IInv, SetTypes, RelayInv, MovesRight, Rested, Interlock, States, Commands, Relay,
     DirectionChange, Enter, Stay, relays, Consumed, DigOut

LEMMA CheckStep == IInv /\ ShaderCheck => IInv' /\ Interlock
  BY StoppedStep, ExitStep, MoveInitStep, MovingStep, DirectionChangeStep DEF ShaderCheck

LEMMA TickStep == IInv /\ Tick => IInv' /\ Interlock
  BY Delays DEF IInv, SetTypes, RelayInv, MovesRight, Rested, Interlock, States, Commands, Relay, Tick, AtMost, relays

LEMMA NextStep == IInv /\ [Next]_vars => IInv' /\ Interlock
<1> SUFFICES ASSUME IInv, [Next]_vars PROVE IInv' /\ Interlock
  OBVIOUS
<1> USE DEF IInv, SetTypes, RelayInv, MovesRight, Rested, Interlock, States, Commands, Relay
<1>1. CASE ShaderCheck
  BY <1>1, CheckStep
<1>2. CASE Tick
  BY <1>2, TickStep
<1>3. ASSUME NEW position \in Positions, ShaderSetPosition(position) PROVE IInv' /\ Interlock
  BY <1>3 DEF ShaderSetPosition, relays, observed
<1>4. CASE ShaderStop
  BY <1>4 DEF ShaderStop, relays, observed
<1>5. CASE UNCHANGED vars
  BY <1>5 DEF vars, relays, observed
<1> QED
  BY <1>1, <1>2, <1>3, <1>4, <1>5 DEF Next

(* ShaderCheck never switches the two relays of a shutter within the delay  *)
(* ("kein gleichzeitiger schalten der Relais"), for any constants.          *)
THEOREM RelaysInterlocked == Spec => Interlocked
<1>1. Init => IInv
  BY InitIInv
<1>2. IInv /\ [Next]_vars => IInv' /\ [Interlock]_vars
  BY NextStep
<1> QED
  BY <1>1, <1>2, PTL DEF Spec, Interlocked

(* The motor runs in eStateOpening and eStateClosing only, in the direction *)
(* of the state.                                                             *)
THEOREM MotorMovesRight == Spec => []MovesRight
<1>1. Init => IInv
  BY InitIInv
<1>2. IInv /\ [Next]_vars => IInv'
  BY NextStep
<1>3. IInv => MovesRight
  BY DEF IInv, RelayInv
<1> QED
  BY <1>1, <1>2, <1>3, PTL DEF Spec

-----------------------------------------------------------------------------
(* Where the shutter is: a step of position, and what the motor moves in a tick *)
Unit == Height \div Full
Rise == Height \div openDuration
Fall == Height \div closeDuration

OffBy(h, position, n) == h - (position * Unit) \in -(n * Unit) .. n * Unit

(* The 16-bit timer does not wrap before a motion that is run to an end has  *)
(* ended, 10 percent later than it should and noticed late, even if the      *)
(* command to go on comes at the last moment.                                *)
LongestFits ==
  /\ Overtime(openDuration) + (2 * MaxGap) <= Word
  /\ Overtime(closeDuration) + (2 * MaxGap) <= Word

(* A motion lasts no longer than that. *)
Lasting(moving, duration) ==
  state = moving =>
    actionPeriod < Overtime(duration) + (gap + (IF cmd = "None" /\ ~rested THEN MaxGap ELSE 0))

(* The motor has moved the shutter since the motion began at h. *)
Rising(h) == height = AtMost(h + (actionPeriod * Rise), Height)
Falling(h) == height = AtLeast(h - (actionPeriod * Fall), 0)
Began(h) == moves <= MaxMoves => OffBy(h, startingPosition, moves)

Course ==
  /\ state = "Opening" => \E h \in 0 .. Height : Rising(h) /\ Began(h)
  /\ state = "Closing" => \E h \in 0 .. Height : Falling(h) /\ Began(h)

Rest == onSwitch = "off" /\ moves <= MaxMoves => OffBy(height, actualPosition, moves)

TrackInv ==
  /\ Lasting("Opening", openDuration) /\ Lasting("Closing", closeDuration)
  /\ Course /\ Rest

-----------------------------------------------------------------------------
LEMMA Divided ==
  ASSUME NEW n \in Nat, NEW d \in Nat \ {0}
  PROVE  /\ n \div d \in Nat /\ d * (n \div d) <= n /\ n < d * ((n \div d) + 1)
         /\ n % d = 0 => n = d * (n \div d)
  <1>1. n \div d \in Nat /\ n % d \in 0 .. d - 1 /\ n = (d * (n \div d)) + (n % d)
    OBVIOUS
  <1>2. d * ((n \div d) + 1) = (d * (n \div d)) + d /\ d * (n \div d) \in Nat
    BY <1>1
  <1> QED
    BY <1>1, <1>2

LEMMA ShaderSizes ==
  /\ Full \in Nat \ {0} /\ Height \in Nat \ {0} /\ Word \in Nat \ {0}
  /\ openDuration \in Nat \ {0} /\ closeDuration \in Nat \ {0} /\ MaxGap \in Nat \ {0} /\ MaxMoves \in Nat
  /\ Unit \in Nat /\ Rise \in Nat /\ Fall \in Nat
  /\ Height = Full * Unit /\ Height = openDuration * Rise /\ Height = closeDuration * Fall
  <1>1. /\ Full \in Nat \ {0} /\ Height \in Nat \ {0} /\ Word \in Nat \ {0}
        /\ openDuration \in Nat \ {0} /\ closeDuration \in Nat \ {0} /\ MaxGap \in Nat \ {0} /\ MaxMoves \in Nat
        /\ Height % openDuration = 0 /\ Height % closeDuration = 0 /\ Height % Full = 0
    BY ShaderAssumption
  <1> QED
    BY <1>1, Divided DEF Unit, Rise, Fall

LEMMA Longer ==
  ASSUME NEW d \in Nat \ {0}
  PROVE  Overtime(d) \in Nat /\ Overtime(d) >= d
  <1>1. d * 110 \in Nat /\ (d * 110) >= 100 * d
    OBVIOUS
  <1> QED
    BY <1>1 DEF Overtime

(* The estimate of the position, a quotient rounded down, is behind the motor *)
(* by less than a step.                                                       *)
LEMMA Estimated ==
  ASSUME NEW p \in Nat, NEW d \in Nat \ {0}, NEW move \in Nat, Height = d * move
  PROVE  LET k == (p * Full) \div d
         IN  k \in Nat /\ k * Unit <= p * move /\ p * move <= (k * Unit) + Unit
  <1> DEFINE k == (p * Full) \div d
  <1>1. Full \in Nat \ {0} /\ Unit \in Nat /\ d * move = Full * Unit
    BY ShaderSizes
  <1>2. p * Full \in Nat
    BY <1>1
  <1>3. k \in Nat /\ d * k <= p * Full /\ p * Full < d * (k + 1)
    BY <1>2, Divided
  <1> HIDE DEF k
  <1>4. ASSUME NEW a \in Nat, NEW b \in Nat, a <= b PROVE a * Unit <= b * Unit
    <2>1. PICK c \in Nat : b = a + c
      <3>1. b - a \in Nat /\ b = a + (b - a)
        BY <1>4
      <3> QED
        BY <3>1
    <2>2. b * Unit = (a * Unit) + (c * Unit) /\ c * Unit \in Nat /\ a * Unit \in Nat
      BY <1>1, <2>1
    <2> QED
      BY <2>2
  <1>5. ASSUME NEW a \in Nat, NEW b \in Nat, d * a <= d * b PROVE a <= b
    <2>1. CASE a > b
      <3>1. PICK c \in Nat : a = b + (c + 1)
        <4>1. a - (b + 1) \in Nat /\ a = b + ((a - (b + 1)) + 1)
          BY <2>1
        <4> QED
          BY <4>1
      <3>2. d * a = (d * b) + ((d * c) + d) /\ d * c \in Nat /\ d * b \in Nat
        BY <3>1
      <3> QED
        BY <1>5, <3>2
    <2> QED
      BY <2>1
  <1>6. (p * Full) * Unit = d * (p * move)
    <2>1. (p * Full) * Unit = p * (Full * Unit)
      BY <1>1
    <2>2. p * (d * move) = d * (p * move)
      OBVIOUS
    <2> QED
      BY <1>1, <2>1, <2>2
  <1>7. (d * k) * Unit = d * (k * Unit) /\ (d * (k + 1)) * Unit = d * ((k * Unit) + Unit)
    BY <1>1, <1>3
  <1>8. k * Unit \in Nat /\ p * move \in Nat /\ (k * Unit) + Unit \in Nat /\ d * k \in Nat /\ d * (k + 1) \in Nat
    BY <1>1, <1>3
  <1>9. k * Unit <= p * move
    <2>1. d * (k * Unit) <= d * (p * move)
      BY <1>2, <1>3, <1>4, <1>6, <1>7, <1>8
    <2> QED
      BY <1>5, <1>8, <2>1
  <1>10. p * move <= (k * Unit) + Unit
    <2>1. p * Full <= d * (k + 1)
      BY <1>2, <1>3, <1>8
    <2>2. d * (p * move) <= d * ((k * Unit) + Unit)
      BY <1>2, <1>4, <1>6, <1>7, <1>8, <2>1
    <2> QED
      BY <1>5, <1>8, <2>2
  <1> QED
    BY <1>3, <1>9, <1>10 DEF k

(* Opening for p ticks adds at most one step of error. *)
LEMMA OpenError ==
  ASSUME NEW p \in Nat, NEW start \in 0 .. Full, NEW h \in 0 .. Height, NEW n \in Nat, OffBy(h, start, n)
  PROVE  OffBy(AtMost(h + (p * Rise), Height), AtMost(start + ((p * Full) \div openDuration), Full), n + 1)
  <1>1. PICK k : k = (p * Full) \div openDuration
    OBVIOUS
  <1>2. PICK x, m : x = p * Rise /\ m = n * Unit
    OBVIOUS
  <1>3. Full \in Nat \ {0} /\ Height \in Nat \ {0} /\ Unit \in Nat /\ Height = Full * Unit /\ openDuration \in Nat \ {0}
        /\ Rise \in Nat /\ Height = openDuration * Rise
    BY ShaderSizes
  <1>4. k \in Nat /\ k * Unit <= x /\ x <= (k * Unit) + Unit /\ x \in Nat /\ m \in Nat
    BY <1>1, <1>2, <1>3, Estimated
  <1>5. PICK s, y : s = start * Unit /\ y = k * Unit
    OBVIOUS
  <1>6. s \in Nat /\ y \in Nat
    BY <1>3, <1>4, <1>5
  <1>7. h - s \in -m .. m
    BY <1>2, <1>5 DEF OffBy
  <1>8. (n + 1) * Unit = m + Unit
    BY <1>2, <1>3
  <1>9. AtMost(start + k, Full) * Unit = AtMost(s + y, Height)
    <2>1. (start + k) * Unit = s + y
      BY <1>3, <1>4, <1>5
    <2>2. CASE start + k < Full
      <3>1. (start + k) * Unit <= Full * Unit
        <4>1. PICK c \in Nat : Full = (start + k) + c
          <5>1. Full - (start + k) \in Nat /\ Full = (start + k) + (Full - (start + k))
            BY <1>3, <1>4, <2>2
          <5> QED
            BY <5>1
        <4>2. Full * Unit = ((start + k) * Unit) + (c * Unit) /\ c * Unit \in Nat /\ (start + k) * Unit \in Nat
          BY <1>3, <1>4, <4>1
        <4> QED
          BY <4>2
      <3>2. s + y <= Height
        BY <1>3, <2>1, <3>1
      <3> QED
        BY <1>3, <1>6, <2>1, <2>2, <3>2 DEF AtMost
    <2>3. CASE ~(start + k < Full)
      <3>1. (start + k) * Unit >= Full * Unit
        <4>1. PICK c \in Nat : start + k = Full + c
          <5>1. (start + k) - Full \in Nat /\ start + k = Full + ((start + k) - Full)
            BY <1>3, <1>4, <2>3
          <5> QED
            BY <5>1
        <4>2. (start + k) * Unit = (Full * Unit) + (c * Unit) /\ c * Unit \in Nat /\ Full * Unit \in Nat
          BY <1>3, <4>1
        <4> QED
          BY <4>2
      <3>2. s + y >= Height
        BY <1>3, <2>1, <3>1
      <3> QED
        BY <1>3, <1>6, <2>3, <3>2 DEF AtMost
    <2> QED
      BY <2>2, <2>3
  <1>10. AtMost(h + x, Height) - AtMost(s + y, Height) \in -(m + Unit) .. m + Unit
    BY <1>3, <1>4, <1>5, <1>6, <1>7 DEF AtMost
  <1> QED
    BY <1>1, <1>2, <1>8, <1>9, <1>10 DEF OffBy

(* Closing likewise *)
LEMMA CloseError ==
  ASSUME NEW p \in Nat, NEW start \in 0 .. Full, NEW h \in 0 .. Height, NEW n \in Nat, OffBy(h, start, n)
  PROVE  OffBy(AtLeast(h - (p * Fall), 0), AtLeast(start - ((p * Full) \div closeDuration), 0), n + 1)
  <1>1. PICK k : k = (p * Full) \div closeDuration
    OBVIOUS
  <1>2. PICK x, m : x = p * Fall /\ m = n * Unit
    OBVIOUS
  <1>3. Full \in Nat \ {0} /\ Height \in Nat \ {0} /\ Unit \in Nat /\ closeDuration \in Nat \ {0}
        /\ Fall \in Nat /\ Height = closeDuration * Fall
    BY ShaderSizes
  <1>4. k \in Nat /\ k * Unit <= x /\ x <= (k * Unit) + Unit /\ x \in Nat /\ m \in Nat
    <2>1. x \in Nat /\ m \in Nat
      BY <1>2, <1>3
    <2>2. k \in Nat /\ k * Unit <= p * Fall /\ p * Fall <= (k * Unit) + Unit
      BY <1>1, <1>3, Estimated
    <2> QED
      BY <1>2, <2>1, <2>2
  <1>5. PICK s, y : s = start * Unit /\ y = k * Unit
    OBVIOUS
  <1>6. s \in Nat /\ y \in Nat
    BY <1>3, <1>4, <1>5
  <1>7. h - s \in -m .. m
    BY <1>2, <1>5 DEF OffBy
  <1>8. (n + 1) * Unit = m + Unit
    BY <1>2, <1>3
  <1>9. AtLeast(start - k, 0) * Unit = AtLeast(s - y, 0)
    <2>1. CASE start > k
      <3>1. PICK c \in Nat : start = k + c
        <4>1. start - k \in Nat /\ start = k + (start - k)
          BY <1>3, <1>4, <2>1
        <4> QED
          BY <4>1
      <3>2. s = y + (c * Unit) /\ c * Unit \in Nat /\ start - k = c
        BY <1>3, <1>4, <1>5, <3>1
      <3>3. c > 0 /\ AtLeast(start - k, 0) = c
        BY <1>4, <2>1, <3>1, <3>2 DEF AtLeast
      <3>4. AtLeast(s - y, 0) = c * Unit
        BY <1>6, <3>2 DEF AtLeast
      <3> QED
        BY <3>3, <3>4
    <2>2. CASE ~(start > k)
      <3>1. PICK c \in Nat : k = start + c
        <4>1. k - start \in Nat /\ k = start + (k - start)
          BY <1>3, <1>4, <2>2
        <4> QED
          BY <4>1
      <3>2. y = s + (c * Unit) /\ c * Unit \in Nat
        BY <1>3, <1>4, <1>5, <3>1
      <3>3. ~(start - k > 0) /\ ~(s - y > 0)
        BY <1>3, <1>4, <1>6, <2>2, <3>2
      <3> QED
        BY <1>3, <3>3 DEF AtLeast
    <2> QED
      BY <2>1, <2>2
  <1>10. AtLeast(h - x, 0) - AtLeast(s - y, 0) \in -(m + Unit) .. m + Unit
    BY <1>3, <1>4, <1>5, <1>6, <1>7 DEF AtLeast
  <1> QED
    BY <1>1, <1>2, <1>8, <1>9, <1>10 DEF OffBy

(* A motion of the full duration ends at the end, and the estimate with it. *)
LEMMA EndReached ==
  ASSUME NEW p \in Nat, NEW d \in Nat \ {0}, NEW move \in Nat, Height = d * move, p >= d
  PROVE  (p * Full) \div d >= Full /\ p * move >= Height /\ (p * Full) \div d \in Nat
  <1>1. Full \in Nat \ {0}
    BY ShaderSizes
  <1>2. PICK c \in Nat : p = d + c
    <2>1. p - d \in Nat /\ p = d + (p - d)
      OBVIOUS
    <2> QED
      BY <2>1
  <1>3. /\ p * Full = (d * Full) + (c * Full) /\ c * Full \in Nat /\ d * Full \in Nat
        /\ p * move = (d * move) + (c * move) /\ c * move \in Nat /\ d * move \in Nat
    BY <1>1, <1>2
  <1>4. PICK k : k = (p * Full) \div d
    OBVIOUS
  <1>5. k \in Nat /\ p * Full < d * (k + 1)
    <2>1. p * Full \in Nat
      BY <1>3
    <2> QED
      BY <1>4, <2>1, Divided
  <1>6. k >= Full
    <2>1. CASE k < Full
      <3>1. PICK e \in Nat : Full = (k + 1) + e
        <4>1. Full - (k + 1) \in Nat /\ Full = (k + 1) + (Full - (k + 1))
          BY <1>1, <1>5, <2>1
        <4> QED
          BY <4>1
      <3>2. d * Full = (d * (k + 1)) + (d * e) /\ d * e \in Nat /\ d * (k + 1) \in Nat
        BY <1>5, <3>1
      <3> QED
        BY <1>3, <1>5, <3>2
    <2> QED
      BY <1>1, <1>5, <2>1
  <1> QED
    BY <1>3, <1>4, <1>5, <1>6

LEMMA OpenedToEnd ==
  ASSUME TypeOK
  PROVE  /\ OpenedTo \in 0 .. Full /\ ClosedTo \in 0 .. Full
         /\ actionPeriod >= openDuration => OpenedTo = Full
         /\ actionPeriod >= closeDuration => ClosedTo = 0
  <1>1. /\ actionPeriod \in Nat /\ startingPosition \in 0 .. Full /\ Full \in Nat \ {0} /\ actionPeriod * Full \in Nat
        /\ openDuration \in Nat \ {0} /\ closeDuration \in Nat \ {0}
    BY ShaderSizes DEF TypeOK
  <1>2. PICK k : k = (actionPeriod * Full) \div openDuration
    OBVIOUS
  <1>3. PICK j : j = (actionPeriod * Full) \div closeDuration
    OBVIOUS
  <1>4. k \in Nat /\ j \in Nat
    BY <1>1, <1>2, <1>3, Divided
  <1>5. /\ actionPeriod >= openDuration => k >= Full
        /\ actionPeriod >= closeDuration => j >= Full
    BY <1>1, <1>2, <1>3, EndReached, ShaderSizes
  <1>6. OpenedTo = AtMost(startingPosition + k, Full) /\ ClosedTo = AtLeast(startingPosition - j, 0)
    BY <1>2, <1>3 DEF OpenedTo, ClosedTo
  <1>7. AtMost(startingPosition + k, Full) \in 0 .. Full /\ AtLeast(startingPosition - j, 0) \in 0 .. Full
    BY <1>1, <1>4 DEF AtMost, AtLeast
  <1>8. /\ k >= Full => AtMost(startingPosition + k, Full) = Full
        /\ j >= Full => AtLeast(startingPosition - j, 0) = 0
    BY <1>1, <1>4 DEF AtMost, AtLeast
  <1> QED
    BY <1>5, <1>6, <1>7, <1>8

-----------------------------------------------------------------------------
(* Types *)
LEMMA TickHeight ==
  ASSUME Tick
  PROVE  /\ onSwitch = "off" => height' = height
         /\ onSwitch = "on" /\ dirSwitch = "on" => height' = AtMost(height + Rise, Height)
         /\ onSwitch = "on" /\ dirSwitch = "off" => height' = AtLeast(height - Fall, 0)
  BY Zenon DEF Tick, Rise, Fall

LEMMA TypeInit == Init => TypeOK
  <1> SUFFICES ASSUME Init PROVE TypeOK
    OBVIOUS
  <1>1. Full \div 2 \in 0 .. Full
    BY ShaderSizes
  <1>2. height \in 0 .. Height /\ actionPeriod \in 0 .. Word - 1 /\ gap \in 0 .. MaxGap /\ moves \in 0 .. MaxMoves + 1
    BY ShaderSizes DEF Init
  <1>3. onAge \in 0 .. SHADER_DELAY_RELAY /\ dirAge \in 0 .. SHADER_DELAY_RELAY
    BY Delays DEF Init
  <1> QED
    BY <1>1, <1>2, <1>3 DEF Init, TypeOK, States, Commands, Relay

LEMMA TypeCheck == TypeOK /\ ShaderCheck => TypeOK'
  <1> SUFFICES ASSUME TypeOK, ShaderCheck PROVE TypeOK'
    OBVIOUS
  <1>1. gap' \in 0 .. MaxGap /\ UNCHANGED <<setPosition, height, asked>> /\ rested' = (rested \/ cmd = "None")
    BY ShaderSizes DEF ShaderCheck
  <1>2. rested' \in BOOLEAN
    BY <1>1
  <1>3. cmd' \in Commands /\ state' \in States
    BY DEF TypeOK, ShaderCheck, Stopped, Exit, Opening, Closing, MoveInit, DirectionChange, Moving, SwitchOff,
           SwitchOffAtEnd, Continue, Enter, Stay, Consumed, Kept, Commands, States
  <1>4. /\ onSwitch' \in Relay /\ dirSwitch' \in Relay
        /\ onAge' \in 0 .. SHADER_DELAY_RELAY /\ dirAge' \in 0 .. SHADER_DELAY_RELAY
    BY Delays DEF TypeOK, ShaderCheck, Stopped, Exit, Opening, Closing, MoveInit, DirectionChange, Moving, SwitchOff,
           SwitchOffAtEnd, Continue, Enter, Stay, DigOut, Relay, relays
  <1>5. actionPeriod' \in 0 .. Word - 1
    BY ShaderSizes DEF TypeOK, ShaderCheck, Stopped, Exit, Opening, Closing, MoveInit, DirectionChange, Moving, SwitchOff,
           SwitchOffAtEnd, Continue, Enter, Stay
  <1>6. actualPosition' \in 0 .. Full /\ startingPosition' \in 0 .. Full
    BY OpenedToEnd DEF TypeOK, ShaderCheck, Stopped, Exit, Opening, Closing, MoveInit, DirectionChange, Moving, Begin
  <1>7. moves' \in 0 .. MaxMoves + 1
    BY ShaderSizes DEF TypeOK, ShaderCheck, Stopped, Exit, Opening, Closing, MoveInit, DirectionChange, Moving, SwitchOff,
           SwitchOffAtEnd, Continue, AtMost
  <1> QED
    BY <1>1, <1>2, <1>3, <1>4, <1>5, <1>6, <1>7 DEF TypeOK

LEMMA TypeStep == TypeOK /\ [Next]_vars => TypeOK'
  <1> SUFFICES ASSUME TypeOK, [Next]_vars PROVE TypeOK'
    OBVIOUS
  <1>1. CASE Tick
    <2>1. UNCHANGED <<state, cmd, setPosition, actualPosition, startingPosition, relays, moves, asked, rested>>
      BY <1>1 DEF Tick
    <2>2. gap' \in 0 .. MaxGap
      BY <1>1, ShaderSizes DEF Tick, TypeOK
    <2>3. actionPeriod' \in 0 .. Word - 1
      BY <1>1, ShaderSizes DEF Tick, TypeOK
    <2>4. onAge' \in 0 .. SHADER_DELAY_RELAY /\ dirAge' \in 0 .. SHADER_DELAY_RELAY
      BY <1>1, Delays DEF Tick, TypeOK, AtMost
    <2>5. height' \in 0 .. Height
      <3>1. /\ AtMost(height + Rise, Height) \in 0 .. Height /\ AtLeast(height - Fall, 0) \in 0 .. Height
            /\ height \in 0 .. Height
        BY ShaderSizes DEF TypeOK, AtMost, AtLeast
      <3>2. onSwitch \in {"on", "off"} /\ dirSwitch \in {"on", "off"}
        BY DEF TypeOK, Relay
      <3> QED
        BY <1>1, <3>1, <3>2, TickHeight
    <2> QED
      BY <2>1, <2>2, <2>3, <2>4, <2>5 DEF TypeOK, relays
  <1>2. CASE \E position \in Positions : ShaderSetPosition(position)
    BY <1>2, ShaderAssumption DEF ShaderSetPosition, Telegram, TypeOK, relays, observed, Commands
  <1>3. CASE ShaderStop
    BY <1>3 DEF ShaderStop, Telegram, TypeOK, relays, observed, Commands
  <1>4. CASE UNCHANGED vars
    BY <1>4 DEF vars, TypeOK, relays, observed
  <1> QED
    BY <1>1, <1>2, <1>3, <1>4, TypeCheck DEF Next

-----------------------------------------------------------------------------
(* How long a motion lasts *)
Unseen == cmd # "None" => ~rested

LEMMA LastingInit == Init => Unseen /\ TrackInv
  <1> SUFFICES ASSUME Init PROVE Unseen /\ TrackInv
    OBVIOUS
  <1>1. ~(moves <= MaxMoves)
    BY ShaderSizes DEF Init
  <1> QED
    BY <1>1 DEF Init, Unseen, TrackInv, Lasting, Course, Rest

LEMMA UnseenStep == Unseen /\ [Next]_vars => Unseen'
  <1> SUFFICES ASSUME Unseen, [Next]_vars PROVE Unseen'
    OBVIOUS
  <1>1. CASE ShaderCheck
    <2>1. rested' = (rested \/ cmd = "None") /\ (cmd' = "None" \/ cmd' = cmd)
      BY <1>1 DEF ShaderCheck, Stopped, Exit, Opening, Closing, MoveInit, DirectionChange, Moving, Consumed, Kept
    <2> QED
      BY <2>1 DEF Unseen
  <1>2. CASE Tick
    BY <1>2 DEF Tick, Unseen
  <1>3. CASE ShaderStop \/ \E position \in Positions : ShaderSetPosition(position)
    BY <1>3 DEF ShaderStop, ShaderSetPosition, Telegram, Unseen
  <1>4. CASE UNCHANGED vars
    BY <1>4 DEF vars, Unseen
  <1> QED
    BY <1>1, <1>2, <1>3, <1>4 DEF Next

(* A motion that ShaderCheck lets go on is not overdue, unless it has been   *)
(* told to go on just now.                                                   *)
LEMMA GoesOn ==
  ASSUME TypeOK, Unseen, NEW d \in Nat \ {0},
         cmd = "None" => actionPeriod < Overtime(d) \/ actionPeriod < d,
         actionPeriod < Overtime(d) + (gap + (IF cmd = "None" /\ ~rested THEN MaxGap ELSE 0)),
         ShaderCheck
  PROVE  actionPeriod < Overtime(d) + (0 + (IF ~rested' THEN MaxGap ELSE 0))
  <1>1. Overtime(d) \in Nat /\ Overtime(d) >= d /\ MaxGap \in Nat /\ gap \in Nat /\ gap <= MaxGap /\ actionPeriod \in Nat
    BY Longer, ShaderSizes DEF TypeOK
  <1>2. rested' = (rested \/ cmd = "None")
    BY DEF ShaderCheck
  <1>3. CASE cmd = "None"
    <2>1. rested'
      BY <1>2, <1>3
    <2>2. actionPeriod < Overtime(d) + (0 + 0)
      BY <1>1, <1>3
    <2> QED
      BY <2>1, <2>2
  <1>4. CASE cmd # "None"
    <2>1. ~rested /\ ~rested'
      BY <1>2, <1>4 DEF Unseen
    <2>2. actionPeriod < Overtime(d) + (gap + 0)
      BY <1>4
    <2>3. actionPeriod < Overtime(d) + (0 + MaxGap)
      BY <1>1, <2>2
    <2> QED
      BY <2>1, <2>3
  <1> QED
    BY <1>3, <1>4

LEMMA LastingCheck ==
  TypeOK /\ Unseen /\ TrackInv /\ ShaderCheck
    => Lasting("Opening", openDuration)' /\ Lasting("Closing", closeDuration)'
  <1> SUFFICES ASSUME TypeOK, Unseen, TrackInv, ShaderCheck
               PROVE  Lasting("Opening", openDuration)' /\ Lasting("Closing", closeDuration)'
    OBVIOUS
  <1>1. /\ Overtime(openDuration) \in Nat \ {0} /\ Overtime(closeDuration) \in Nat \ {0} /\ MaxGap \in Nat
        /\ openDuration \in Nat \ {0} /\ closeDuration \in Nat \ {0}
    BY Longer, ShaderSizes
  <1>2. gap' = 0
    BY DEF ShaderCheck
  <1>3. CASE actionPeriod' = 0
    <2>1. 0 < Overtime(openDuration) + (0 + (IF cmd' = "None" /\ ~rested' THEN MaxGap ELSE 0))
      BY <1>1
    <2>2. 0 < Overtime(closeDuration) + (0 + (IF cmd' = "None" /\ ~rested' THEN MaxGap ELSE 0))
      BY <1>1
    <2> QED
      BY <1>2, <1>3, <2>1, <2>2 DEF Lasting, Overtime
  <1>4. CASE state' \notin {"Opening", "Closing"}
    BY <1>4 DEF Lasting
  <1>5. CASE state' = "Opening" /\ actionPeriod' # 0
    <2>1. Opening /\ state = "Opening"
      BY <1>5 DEF ShaderCheck, Stopped, Exit, Opening, Closing, MoveInit, DirectionChange, Moving, SwitchOff,
                  SwitchOffAtEnd, Continue, Enter, Stay
    <2>2. OpenedTo \in 0 .. Full /\ (actionPeriod >= openDuration => OpenedTo = Full)
      BY OpenedToEnd
    <2>3. actionPeriod >= openDuration /\ setPosition # Full => OpenedTo >= setPosition
      BY <2>2, ShaderSizes DEF TypeOK
    <2>4. actionPeriod' = actionPeriod /\ cmd' = "None"
      BY <1>5, <2>1 DEF Opening, Moving, Continue, Stay, SwitchOff, SwitchOffAtEnd, Enter, Consumed
    <2>5. /\ cmd = "None" /\ setPosition = Full => ~(actionPeriod >= Overtime(openDuration))
          /\ cmd = "None" /\ setPosition # Full => ~(OpenedTo >= setPosition)
      BY <1>5, <2>1 DEF Opening, Moving, SwitchOff, SwitchOffAtEnd, Enter
    <2>6. actionPeriod \in Nat
      BY DEF TypeOK
    <2>7. cmd = "None" => actionPeriod < Overtime(openDuration) \/ actionPeriod < openDuration
      <3>1. setPosition = Full /\ cmd = "None" => actionPeriod < Overtime(openDuration)
        BY <1>1, <2>5, <2>6
      <3>2. setPosition # Full /\ cmd = "None" => actionPeriod < openDuration
        BY <1>1, <2>3, <2>5, <2>6
      <3> QED
        BY <3>1, <3>2
    <2>8. actionPeriod < Overtime(openDuration) + (gap + (IF cmd = "None" /\ ~rested THEN MaxGap ELSE 0))
      BY <2>1 DEF TrackInv, Lasting
    <2>9. actionPeriod < Overtime(openDuration) + (0 + (IF ~rested' THEN MaxGap ELSE 0))
      BY <1>1, <2>7, <2>8, GoesOn
    <2> QED
      BY <1>2, <1>5, <2>4, <2>9 DEF Lasting, Overtime
  <1>6. CASE state' = "Closing" /\ actionPeriod' # 0
    <2>1. Closing /\ state = "Closing"
      BY <1>6 DEF ShaderCheck, Stopped, Exit, Opening, Closing, MoveInit, DirectionChange, Moving, SwitchOff,
                  SwitchOffAtEnd, Continue, Enter, Stay
    <2>2. ClosedTo \in 0 .. Full /\ (actionPeriod >= closeDuration => ClosedTo = 0)
      BY OpenedToEnd
    <2>3. actionPeriod >= closeDuration /\ setPosition # 0 => ClosedTo <= setPosition
      BY <2>2, ShaderSizes DEF TypeOK
    <2>4. actionPeriod' = actionPeriod /\ cmd' = "None"
      BY <1>6, <2>1 DEF Closing, Moving, Continue, Stay, SwitchOff, SwitchOffAtEnd, Enter, Consumed
    <2>5. /\ cmd = "None" /\ setPosition = 0 => ~(actionPeriod >= Overtime(closeDuration))
          /\ cmd = "None" /\ setPosition # 0 => ~(ClosedTo <= setPosition)
      BY <1>6, <2>1 DEF Closing, Moving, SwitchOff, SwitchOffAtEnd, Enter
    <2>6. actionPeriod \in Nat
      BY DEF TypeOK
    <2>7. cmd = "None" => actionPeriod < Overtime(closeDuration) \/ actionPeriod < closeDuration
      <3>1. setPosition = 0 /\ cmd = "None" => actionPeriod < Overtime(closeDuration)
        BY <1>1, <2>5, <2>6
      <3>2. setPosition # 0 /\ cmd = "None" => actionPeriod < closeDuration
        BY <1>1, <2>3, <2>5, <2>6
      <3> QED
        BY <3>1, <3>2
    <2>8. actionPeriod < Overtime(closeDuration) + (gap + (IF cmd = "None" /\ ~rested THEN MaxGap ELSE 0))
      BY <2>1 DEF TrackInv, Lasting
    <2>9. actionPeriod < Overtime(closeDuration) + (0 + (IF ~rested' THEN MaxGap ELSE 0))
      BY <1>1, <2>7, <2>8, GoesOn
    <2> QED
      BY <1>2, <1>6, <2>4, <2>9 DEF Lasting, Overtime
  <1> QED
    BY <1>3, <1>4, <1>5, <1>6

LEMMA LastingStep ==
  TypeOK /\ Unseen /\ TrackInv /\ [Next]_vars
    => Lasting("Opening", openDuration)' /\ Lasting("Closing", closeDuration)'
  <1> SUFFICES ASSUME TypeOK, Unseen, TrackInv, [Next]_vars
               PROVE  Lasting("Opening", openDuration)' /\ Lasting("Closing", closeDuration)'
    OBVIOUS
  <1>1. Overtime(openDuration) \in Nat \ {0} /\ Overtime(closeDuration) \in Nat \ {0} /\ MaxGap \in Nat
    BY Longer, ShaderSizes
  <1>2. gap \in Nat /\ actionPeriod \in Nat
    BY DEF TypeOK
  <1>3. CASE Tick
    <2>1. gap' = gap + 1 /\ actionPeriod' \in {actionPeriod + 1, 0} /\ UNCHANGED <<state, cmd, rested>>
      BY <1>3 DEF Tick
    <2>2. ASSUME NEW o \in Nat \ {0}, NEW x \in {MaxGap, 0}, actionPeriod < o + (gap + x)
          PROVE  actionPeriod + 1 < o + ((gap + 1) + x) /\ 0 < o + ((gap + 1) + x)
      BY <1>1, <1>2, <2>2
    <2>3. PICK x \in {MaxGap, 0} : x = IF cmd = "None" /\ ~rested THEN MaxGap ELSE 0
      OBVIOUS
    <2>4. PICK oo, oc : oo = Overtime(openDuration) /\ oc = Overtime(closeDuration)
      OBVIOUS
    <2>5. state = "Opening" => actionPeriod < oo + (gap + x)
      BY <2>3, <2>4 DEF TrackInv, Lasting
    <2>6. state = "Closing" => actionPeriod < oc + (gap + x)
      BY <2>3, <2>4 DEF TrackInv, Lasting
    <2>7. state' = "Opening" => actionPeriod' < oo + (gap' + x)
      BY <1>1, <2>1, <2>2, <2>4, <2>5
    <2>8. state' = "Closing" => actionPeriod' < oc + (gap' + x)
      BY <1>1, <2>1, <2>2, <2>4, <2>6
    <2>9. x = IF cmd' = "None" /\ ~rested' THEN MaxGap ELSE 0
      BY <2>1, <2>3
    <2> QED
      BY <2>4, <2>7, <2>8, <2>9 DEF Lasting, Overtime
  <1>4. CASE ShaderStop \/ \E position \in Positions : ShaderSetPosition(position)
    <2>1. /\ cmd # "None" \/ rested
          /\ cmd' # "None" /\ UNCHANGED <<state, actionPeriod, gap>>
      BY <1>4 DEF ShaderStop, ShaderSetPosition, Telegram
    <2> QED
      BY <2>1 DEF TrackInv, Lasting, Overtime
  <1>5. CASE UNCHANGED vars
    BY <1>5 DEF vars, TrackInv, Lasting, Overtime
  <1> QED
    BY <1>3, <1>4, <1>5, LastingCheck DEF Next

-----------------------------------------------------------------------------
(* Where the motor brings the shutter *)
LEMMA CourseTick ==
  ASSUME TypeOK, IInv, TrackInv, LongestFits, Tick
  PROVE  Course'
  <1>1. /\ Overtime(openDuration) \in Nat /\ Overtime(closeDuration) \in Nat /\ MaxGap \in Nat /\ Word \in Nat
        /\ Height \in Nat /\ Rise \in Nat /\ Fall \in Nat
    BY Longer, ShaderSizes
  <1>2. gap \in Nat /\ gap < MaxGap /\ actionPeriod \in Nat
    BY DEF TypeOK, Tick
  <1>3. UNCHANGED <<state, startingPosition, moves>>
    BY DEF Tick
  <1>4. CASE state = "Opening"
    <2>1. onSwitch = "on" /\ dirSwitch = "on"
      BY <1>4 DEF IInv, RelayInv, MovesRight
    <2>2. PICK h \in 0 .. Height : Rising(h) /\ Began(h)
      BY <1>4 DEF TrackInv, Course
    <2>3. actionPeriod < Overtime(openDuration) + (gap + (IF cmd = "None" /\ ~rested THEN MaxGap ELSE 0))
      BY <1>4 DEF TrackInv, Lasting
    <2>4. PICK x \in {0, MaxGap} : x = IF cmd = "None" /\ ~rested THEN MaxGap ELSE 0
      OBVIOUS
    <2>5. PICK o : o = Overtime(openDuration)
      OBVIOUS
    <2>6. actionPeriod < o + (gap + x) /\ o + (2 * MaxGap) <= Word /\ o \in Nat
      BY <1>1, <2>3, <2>4, <2>5 DEF LongestFits
    <2>7. actionPeriod + 1 < Word
      BY <1>1, <1>2, <2>6
    <2>8. actionPeriod' = actionPeriod + 1
      BY <2>7 DEF Tick
    <2>9. height' = AtMost(AtMost(h + (actionPeriod * Rise), Height) + Rise, Height)
      BY <2>1, <2>2, TickHeight DEF Rising
    <2>10. (actionPeriod + 1) * Rise = (actionPeriod * Rise) + Rise /\ actionPeriod * Rise \in Nat
      BY <1>1, <1>2
    <2>11. PICK y \in Nat : y = actionPeriod * Rise
      BY <2>10
    <2>12. AtMost(AtMost(h + y, Height) + Rise, Height) = AtMost(h + (y + Rise), Height)
      BY <1>1 DEF AtMost
    <2>13. Rising(h)'
      BY <2>8, <2>9, <2>10, <2>11, <2>12 DEF Rising, AtMost, Rise
    <2>14. Began(h)'
      BY <1>3, <2>2 DEF Began, OffBy, Unit
    <2> QED
      BY <1>3, <1>4, <2>13, <2>14 DEF Course
  <1>5. CASE state = "Closing"
    <2>1. onSwitch = "on" /\ dirSwitch = "off"
      BY <1>5 DEF IInv, RelayInv, MovesRight, SetTypes, Relay
    <2>2. PICK h \in 0 .. Height : Falling(h) /\ Began(h)
      BY <1>5 DEF TrackInv, Course
    <2>3. actionPeriod < Overtime(closeDuration) + (gap + (IF cmd = "None" /\ ~rested THEN MaxGap ELSE 0))
      BY <1>5 DEF TrackInv, Lasting
    <2>4. PICK x \in {0, MaxGap} : x = IF cmd = "None" /\ ~rested THEN MaxGap ELSE 0
      OBVIOUS
    <2>5. PICK o : o = Overtime(closeDuration)
      OBVIOUS
    <2>6. actionPeriod < o + (gap + x) /\ o + (2 * MaxGap) <= Word /\ o \in Nat
      BY <1>1, <2>3, <2>4, <2>5 DEF LongestFits
    <2>7. actionPeriod + 1 < Word
      BY <1>1, <1>2, <2>6
    <2>8. actionPeriod' = actionPeriod + 1
      BY <2>7 DEF Tick
    <2>9. height' = AtLeast(AtLeast(h - (actionPeriod * Fall), 0) - Fall, 0)
      BY <2>1, <2>2, TickHeight DEF Falling
    <2>10. (actionPeriod + 1) * Fall = (actionPeriod * Fall) + Fall /\ actionPeriod * Fall \in Nat
      BY <1>1, <1>2
    <2>11. PICK y \in Nat : y = actionPeriod * Fall
      BY <2>10
    <2>12. AtLeast(AtLeast(h - y, 0) - Fall, 0) = AtLeast(h - (y + Fall), 0)
      BY <1>1 DEF AtLeast
    <2>13. Falling(h)'
      BY <2>8, <2>9, <2>10, <2>11, <2>12 DEF Falling, AtLeast, Fall
    <2>14. Began(h)'
      BY <1>3, <2>2 DEF Began, OffBy, Unit
    <2> QED
      BY <1>3, <1>5, <2>13, <2>14 DEF Course
  <1>6. CASE state \notin {"Opening", "Closing"}
    BY <1>3, <1>6 DEF Course
  <1> QED
    BY <1>4, <1>5, <1>6

(* A motion that goes on, or begins *)
LEMMA CourseCheck ==
  ASSUME TypeOK, IInv, TrackInv, ShaderCheck
  PROVE  Course'
  <1>1. height' = height /\ height \in 0 .. Height
    BY DEF ShaderCheck, TypeOK
  <1>2. CASE state' = state /\ state \in {"Opening", "Closing"}
    <2>1. UNCHANGED <<state, actionPeriod, startingPosition, moves>>
      BY <1>2 DEF ShaderCheck, Stopped, Exit, Opening, Closing, MoveInit, DirectionChange, Moving, Continue, Stay,
                  SwitchOff, SwitchOffAtEnd, Enter
    <2>2. \A h : (Rising(h) => Rising(h)') /\ (Falling(h) => Falling(h)') /\ (Began(h) => Began(h)')
      BY <1>1, <2>1 DEF Rising, Falling, Began, OffBy, AtMost, AtLeast, Unit, Rise, Fall
    <2> QED
      BY <2>1, <2>2 DEF TrackInv, Course
  <1>3. CASE state' # state /\ state' \in {"Opening", "Closing"}
    <2>1. /\ actionPeriod' = 0 /\ startingPosition' = actualPosition /\ onSwitch = "off" /\ moves' = moves
      BY <1>3 DEF ShaderCheck, Stopped, Exit, Opening, Closing, MoveInit, DirectionChange, Moving, Continue, Stay,
                  SwitchOff, SwitchOffAtEnd, Enter, Begin, IInv, RelayInv, MovesRight, SetTypes, Relay
    <2>2. PICK h : h = height
      OBVIOUS
    <2>3. Began(h)'
      BY <2>1, <2>2 DEF Began, OffBy, Unit, TrackInv, Rest
    <2>4. 0 * Rise = 0 /\ 0 * Fall = 0 /\ h + 0 = h /\ h - 0 = h
      BY <1>1, <2>2, ShaderSizes
    <2>5. AtMost(h, Height) = h /\ AtLeast(h, 0) = h
      BY <1>1, <2>2, ShaderSizes DEF AtMost, AtLeast
    <2>6. Rising(h)'
      BY <1>1, <2>1, <2>2, <2>4, <2>5 DEF Rising, Rise, AtMost
    <2>7. Falling(h)'
      BY <1>1, <2>1, <2>2, <2>4, <2>5 DEF Falling, Fall, AtLeast
    <2> QED
      BY <1>1, <2>2, <2>3, <2>6, <2>7 DEF Course
  <1>4. CASE state' \notin {"Opening", "Closing"}
    BY <1>4 DEF Course
  <1> QED
    BY <1>2, <1>3, <1>4

LEMMA CourseStep ==
  ASSUME TypeOK, IInv, TrackInv, LongestFits, [Next]_vars
  PROVE  Course'
  <1>1. CASE UNCHANGED <<state, actionPeriod, startingPosition, moves, height>>
    <2>1. \A h : (Rising(h) => Rising(h)') /\ (Falling(h) => Falling(h)') /\ (Began(h) => Began(h)')
      BY <1>1 DEF Rising, Falling, Began, OffBy, AtMost, AtLeast, Unit, Rise, Fall
    <2> QED
      BY <1>1, <2>1 DEF TrackInv, Course
  <1>2. CASE ShaderStop \/ (\E position \in Positions : ShaderSetPosition(position)) \/ UNCHANGED vars
    BY <1>1, <1>2 DEF ShaderStop, ShaderSetPosition, vars, observed
  <1> QED
    BY <1>2, CourseTick, CourseCheck DEF Next

(* A shutter that stops is where actualPosition says, up to one step more    *)
(* than before; one that has run to the end is there.                        *)
LEMMA Stops ==
  ASSUME TypeOK, TrackInv, ShaderCheck, state \in {"Opening", "Closing"}, moves' <= MaxMoves,
         SwitchOff(state') \/ SwitchOffAtEnd,
         SwitchOffAtEnd /\ ~SwitchOff(state')
           => \/ state = "Opening" /\ actionPeriod >= Overtime(openDuration)
              \/ state = "Closing" /\ actionPeriod >= Overtime(closeDuration),
         actualPosition' = IF state = "Opening" THEN OpenedTo ELSE ClosedTo
  PROVE  OffBy(height, actualPosition', moves')
  <1>1. /\ Height \in Nat /\ Rise \in Nat /\ Fall \in Nat /\ Full \in Nat /\ Unit \in Nat /\ MaxMoves \in Nat
        /\ Height = Full * Unit /\ Height = openDuration * Rise /\ Height = closeDuration * Fall
        /\ openDuration \in Nat \ {0} /\ closeDuration \in Nat \ {0}
    BY ShaderSizes
  <1>2. actionPeriod \in Nat /\ startingPosition \in 0 .. Full /\ moves \in 0 .. MaxMoves + 1
    BY DEF TypeOK
  <1>3. CASE SwitchOff(state')
    <2>1. moves' = AtMost(moves + 1, MaxMoves + 1)
      BY <1>3 DEF SwitchOff
    <2>2. moves' = moves + 1 /\ moves <= MaxMoves /\ moves \in Nat
      BY <1>1, <1>2, <2>1 DEF AtMost
    <2>3. CASE state = "Opening"
      <3>1. PICK h \in 0 .. Height : Rising(h) /\ Began(h)
        BY <2>3 DEF TrackInv, Course
      <3>2. OffBy(h, startingPosition, moves)
        BY <2>2, <3>1 DEF Began
      <3>3. OffBy(height, OpenedTo, moves + 1)
        BY <1>2, <2>2, <3>1, <3>2, OpenError DEF Rising, OpenedTo
      <3> QED
        BY <2>2, <2>3, <3>3
    <2>4. CASE state = "Closing"
      <3>1. PICK h \in 0 .. Height : Falling(h) /\ Began(h)
        BY <2>4 DEF TrackInv, Course
      <3>2. OffBy(h, startingPosition, moves)
        BY <2>2, <3>1 DEF Began
      <3>3. OffBy(height, ClosedTo, moves + 1)
        BY <1>2, <2>2, <3>1, <3>2, CloseError DEF Falling, ClosedTo
      <3> QED
        BY <2>2, <2>4, <3>3
    <2> QED
      BY <2>3, <2>4
  <1>4. CASE SwitchOffAtEnd /\ ~SwitchOff(state')
    <2>1. moves' = 0
      BY <1>4 DEF SwitchOffAtEnd
    <2>2. CASE state = "Opening"
      <3>1. PICK h \in 0 .. Height : height = AtMost(h + (actionPeriod * Rise), Height)
        BY <2>2 DEF TrackInv, Course, Rising
      <3>2. actionPeriod >= openDuration
        BY <1>1, <1>2, <1>4, <2>2, Longer
      <3>3. actionPeriod * Rise >= Height /\ actionPeriod * Rise \in Nat
        BY <1>1, <1>2, <3>2, EndReached
      <3>4. height = Height
        BY <1>1, <3>1, <3>3 DEF AtMost
      <3>5. OpenedTo = Full
        BY <3>2, OpenedToEnd
      <3>6. Height - (Full * Unit) = 0 /\ 0 * Unit = 0
        BY <1>1
      <3> QED
        BY <2>1, <2>2, <3>4, <3>5, <3>6 DEF OffBy
    <2>3. CASE state = "Closing"
      <3>1. PICK h \in 0 .. Height : height = AtLeast(h - (actionPeriod * Fall), 0)
        BY <2>3 DEF TrackInv, Course, Falling
      <3>2. actionPeriod >= closeDuration
        BY <1>1, <1>2, <1>4, <2>3, Longer
      <3>3. actionPeriod * Fall >= Height /\ actionPeriod * Fall \in Nat
        BY <1>1, <1>2, <3>2, EndReached
      <3>4. height = 0
        BY <1>1, <3>1, <3>3 DEF AtLeast
      <3>5. ClosedTo = 0
        BY <3>2, OpenedToEnd
      <3>6. 0 - (0 * Unit) = 0 /\ 0 * Unit = 0
        BY <1>1
      <3> QED
        BY <2>1, <2>3, <3>4, <3>5, <3>6 DEF OffBy
    <2> QED
      BY <2>2, <2>3
  <1> QED
    BY <1>3, <1>4

LEMMA RestStep ==
  ASSUME TypeOK, IInv, IInv', TrackInv, [Next]_vars
  PROVE  Rest'
  <1>1. CASE UNCHANGED <<onSwitch, moves, height, actualPosition>>
    BY <1>1 DEF TrackInv, Rest, OffBy, Unit
  <1>2. CASE ShaderStop \/ (\E position \in Positions : ShaderSetPosition(position)) \/ UNCHANGED vars
    BY <1>1, <1>2 DEF ShaderStop, ShaderSetPosition, vars, observed, relays
  <1>3. CASE Tick
    <2>1. UNCHANGED <<onSwitch, moves, actualPosition>> /\ (onSwitch = "off" => height' = height)
      BY <1>3, TickHeight DEF Tick, relays
    <2> QED
      BY <2>1 DEF TrackInv, Rest, OffBy, Unit
  <1>4. CASE ShaderCheck /\ state \notin {"Opening", "Closing"}
    <2>1. UNCHANGED <<actualPosition, moves, height>> /\ onSwitch = "off"
      BY <1>4 DEF ShaderCheck, Stopped, Exit, Opening, Closing, MoveInit, DirectionChange, IInv, RelayInv, MovesRight,
                  SetTypes, Relay
    <2> QED
      BY <2>1 DEF TrackInv, Rest, OffBy, Unit
  <1>5. CASE ShaderCheck /\ state \in {"Opening", "Closing"}
    <2> SUFFICES ASSUME onSwitch' = "off", moves' <= MaxMoves PROVE OffBy(height', actualPosition', moves')
      BY DEF Rest, OffBy, Unit
    <2>1. height' = height /\ (Opening \/ Closing)
      BY <1>5 DEF ShaderCheck, Stopped, Exit, MoveInit, DirectionChange
    <2>2. actualPosition' = IF state = "Opening" THEN OpenedTo ELSE ClosedTo
      BY <2>1 DEF Opening, Closing, Moving
    <2>3. onSwitch = "on"
      BY <1>5 DEF IInv, RelayInv, MovesRight
    <2>4. ~Continue
      BY <2>3 DEF Continue, Stay, relays
    <2>5. SwitchOff(state') \/ SwitchOffAtEnd
      BY <2>1, <2>4 DEF Opening, Closing, Moving, SwitchOff, Enter
    <2>6. SwitchOffAtEnd /\ ~SwitchOff(state')
            => \/ state = "Opening" /\ actionPeriod >= Overtime(openDuration)
               \/ state = "Closing" /\ actionPeriod >= Overtime(closeDuration)
      BY <2>1, <2>4 DEF Opening, Closing, Moving, SwitchOff, Enter
    <2>7. OffBy(height, actualPosition', moves')
      BY <1>5, <2>2, <2>5, <2>6, Stops
    <2> QED
      BY <2>1, <2>7
  <1> QED
    BY <1>2, <1>3, <1>4, <1>5 DEF Next

-----------------------------------------------------------------------------
(* The state machine, the relays, the positions and the ages of a shutter     *)
(* stay in their ranges, actualPosition between closed and open among them    *)
(* however far the quotient of the time runs (ShaderCheck).                   *)
THEOREM ShaderTyped == Spec => []TypeOK
<1>1. Init => TypeOK
  BY TypeInit
<1>2. TypeOK /\ [Next]_vars => TypeOK'
  BY TypeStep
<1> QED
  BY <1>1, <1>2, PTL DEF Spec

(* A shutter that was run to an end is there, wherever it was before, and     *)
(* actualPosition is wrong by at most one step for every move since, whatever *)
(* the durations, as long as the timer does not wrap in a motion (ShaderCheck *)
(* estimates the position from the time and believes the ends).               *)
THEOREM PositionTracked ==
  ASSUME LongestFits
  PROVE  Spec => []Tracked
<1> DEFINE Inv == TypeOK /\ IInv /\ Unseen /\ TrackInv
<1>1. Init => Inv
  BY TypeInit, InitIInv, LastingInit
<1>2. Inv /\ [Next]_vars => Inv'
  <2> SUFFICES ASSUME Inv, [Next]_vars PROVE Inv'
    OBVIOUS
  <2>1. TypeOK' /\ IInv' /\ Unseen'
    BY TypeStep, NextStep, UnseenStep
  <2>2. Lasting("Opening", openDuration)' /\ Lasting("Closing", closeDuration)'
    BY LastingStep
  <2>3. Course' /\ Rest'
    BY <2>1, CourseStep, RestStep
  <2> QED
    BY <2>1, <2>2, <2>3 DEF TrackInv
<1>3. Inv => Tracked
  BY DEF TrackInv, Rest, Tracked, OffBy, Unit
<1> QED
  BY <1>1, <1>2, <1>3, PTL DEF Spec
=============================================================================
