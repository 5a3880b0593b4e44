-------------------------------- MODULE Panel --------------------------------
(***************************************************************************)
(* Button and switch nodes (projects/switchv2/main.c) and the DO31s that   *)
(* they tell (devices/do31/main.c), over a bus that may lose or garble     *)
(* telegrams.  A button repeats its telegram and is not answered; a switch *)
(* sends its state to a list of clients until each has confirmed it.       *)
(***************************************************************************)
EXTENDS Button, Sequences

CONSTANTS
  Node, InputTypes,         \* the nodes, and the types that they may have
  Do31, Skip,               \* the DO31s; the invalid client address
  ClientList,               \* the client addresses in a switch's EEPROM
  Contact,                  \* by node: the inputs that are wired, of 1 and 2
  RESPONSE_TIMEOUT1, RESPONSE_TIMEOUT2, RETRY_TIMEOUT2,
  REPEAT_DIFF, REPEAT_TIMEOUT,
  MaxChanges, MaxLost, MaxGarbled, MaxRestarts,    \* bounds
  None

ASSUME PanelAssumption ==
  /\ {RESPONSE_TIMEOUT1, RESPONSE_TIMEOUT2, RETRY_TIMEOUT2, REPEAT_DIFF, REPEAT_TIMEOUT} \subseteq Nat
  /\ {MaxChanges, MaxLost, MaxGarbled, MaxRestarts} \subseteq Nat
  /\ RESPONSE_TIMEOUT1 > 0 /\ Len(ClientList) \in Nat \ {0}
  /\ Contact \in [Node -> SUBSET {1, 2}]
  /\ InputTypes \subseteq [Node -> {"button", "switch", "absent"}]
  /\ Node \intersect Do31 = {}        \* one program runs on each of them

VARIABLES
  inputType, input,         \* what a node is, and its closed contacts
  switch, sequence,         \* the static variables of ProcessSwitch and ProcessButton
  out,                      \* the send buffers, of nodes and DO31s
  do31,                     \* sw8, retry, list; pressed, what the application was told;
                            \* unlisted, what of it was not in the list, as it was full
  ran,                      \* the nodes whose main loop has run since the last tick
  steady,                   \* buttons that have been closed since a DO31 heard of them
  forgetful,                \* DO31s, each with the switches not heard since it was restarted
  count                     \* of what is bounded

observed == <<steady, forgetful>>
vars == <<inputType, input, switch, sequence, out, do31, ran, observed, count>>

ClientNum == Len(ClientList)
Client == 1 .. ClientNum
NoClient == 0

NoSwitch == [old |-> {}, actual |-> {}, client |-> NoClient, state |-> [i \in Client |-> "Skip"],
             request |-> 0, change |-> 0, started |-> FALSE]

FreshDo31 == [sw8 |-> [n \in Node |-> {}], retry |-> None, list |-> {}, pressed |-> {}, unlisted |-> {}]

Wired(n) == IF inputType[n] = "absent" THEN {} ELSE Contact[n]

Init ==
  /\ inputType \in InputTypes
  /\ input \in {f \in [Node -> SUBSET {1, 2}] : \A n \in Node : f[n] \in {{}, Wired(n)}}
  /\ switch = [n \in Node |-> NoSwitch]
  /\ sequence = [n \in Node |-> [state |-> "OFF", start |-> 0, stamp |-> 0]]
  /\ out = [x \in Node \union Do31 |-> <<>>]
  /\ do31 = [d \in Do31 |-> FreshDo31]
  /\ ran = {} /\ steady = {} /\ forgetful = {}
  /\ count = [changes |-> 0, lost |-> 0, garbled |-> 0, restarts |-> 0]

Count(what) == count' = [count EXCEPT ![what] = @ + 1]

Change(n) ==
  /\ count.changes < MaxChanges /\ Count("changes")
  /\ input' \in {[input EXCEPT ![n] = s] : s \in SUBSET Wired(n) \ {input[n]}}
  /\ steady' = {key \in steady : key[2] = n => key[3] \in input'[n]}
  /\ ran' = ran \ {n}
  /\ UNCHANGED <<inputType, switch, sequence, out, do31, forgetful>>

Telegram(type, from, to, state) == [type |-> type, from |-> from, to |-> to, state |-> state]

-----------------------------------------------------------------------------
(* ProcessSwitch: a change starts a new round, unless the answer of the client  *)
(* that was asked last may be on its way.                                       *)

(* Mutant of Inhibited: a change interrupts a request at once. *)
InhibitedNot(s) == FALSE

Inhibited(s) == s.client # NoClient /\ s.state[s.client] = "WaitForConfirmation1"

InitClients == [i \in Client |-> IF ClientList[i] = Skip THEN "Skip" ELSE "Init"]

Changed(s, state) ==
  IF state = s.old \/ Inhibited(s) THEN s
  ELSE [s EXCEPT !.old = state, !.actual = state, !.client = 1, !.change = 0, !.state = InitClients]

(* GetUnconfirmedClient: the next one in turn, the same one last. *)
Turn(client) == [i \in Client |-> ((client + i - 1) % ClientNum) + 1]

(* Mutant of GetUnconfirmedClient: no wrap at the end of the list. *)
GetUnconfirmedClientOnce(s) ==
  LET open == {i \in Client : i > s.client /\ s.state[i] \notin {"Skip", "ConfirmationOK"}} IN
  IF open = {} THEN NoClient ELSE CHOOSE i \in open : \A j \in open : i <= j

GetUnconfirmedClient(s) ==
  LET open == {i \in Client : s.state[Turn(s.client)[i]] \notin {"Skip", "ConfirmationOK"}} IN
  IF open = {} THEN NoClient ELSE Turn(s.client)[CHOOSE i \in open : \A j \in open : i <= j]

GivenUp(s) == [s EXCEPT !.client = NoClient]

(* The time stamps of what is over are not read again. *)
Idle(s) == IF s.client = NoClient THEN [s EXCEPT !.request = 0, !.change = 0] ELSE s

Advanced(s) ==
  IF s.state[s.client] = "ConfirmationOK" THEN [s EXCEPT !.client = GetUnconfirmedClient(s)] ELSE s

Enter(s, state) == [s EXCEPT !.state[s.client] = state, !.request = 0]

Served(s) ==
  CASE s.client = NoClient -> s
    [] OTHER ->
       CASE s.state[s.client] = "Init" -> Enter(s, "WaitForConfirmation1")
         [] s.state[s.client] = "WaitForConfirmation1" /\ s.request >= RESPONSE_TIMEOUT1 ->
              Enter(s, "WaitForConfirmation2")
         [] s.state[s.client] = "WaitForConfirmation2" /\ s.request >= RESPONSE_TIMEOUT2 ->
              LET t == [s EXCEPT !.state[s.client] = "Init"] IN [t EXCEPT !.client = GetUnconfirmedClient(t)]
         [] OTHER -> s

Asked(s) == s.client # NoClient /\ s.state[s.client] = "Init"

Request(n, s) ==
  IF Asked(s) THEN <<Telegram("ReqSwitchState", n, ClientList[s.client], s.actual)>> ELSE <<>>

(* At the end of the start-up delay every contact counts as changed. *)
Before(n) ==
  IF switch[n].started THEN switch[n] ELSE [NoSwitch EXCEPT !.started = TRUE, !.old = Wired(n) \ input[n]]

ProcessSwitch(n) ==
  LET s == Changed(Before(n), input[n])
      active == s.client # NoClient /\ s.change < RETRY_TIMEOUT2
      t == IF active THEN Advanced(s) ELSE GivenUp(s)
  IN /\ inputType[n] = "switch"
     /\ switch' = [switch EXCEPT ![n] = Idle(Served(t))]
     /\ out' = [out EXCEPT ![n] = @ \o Request(n, t)]
     /\ ran' = ran \union {n}
     /\ UNCHANGED <<inputType, input, sequence, do31, observed, count>>

Confirms(s, t, i) ==
  /\ ClientList[i] = t.from /\ t.state = s.actual
  /\ s.state[i] \in {"WaitForConfirmation1", "WaitForConfirmation2"}

(* eBusDevRespSwitchState: the first client that fits *)
Confirmation(s, t) ==
  LET fitting == {i \in Client : Confirms(s, t, i)} IN
  IF fitting = {} THEN s
  ELSE [s EXCEPT !.state[CHOOSE i \in fitting : \A j \in fitting : i <= j] = "ConfirmationOK"]

-----------------------------------------------------------------------------
(* ProcessButton *)
Repeat(n, q) ==
  CASE q.state = "OFF" /\ input[n] # {} -> [state |-> "ON", start |-> 0, stamp |-> 0, send |-> TRUE]
    [] q.state = "ON" /\ input[n] # {} /\ q.start < REPEAT_TIMEOUT /\ q.stamp >= REPEAT_DIFF ->
         [state |-> "ON", start |-> q.start, stamp |-> 0, send |-> TRUE]
    [] q.state = "ON" /\ input[n] # {} /\ q.start >= REPEAT_TIMEOUT ->
         [state |-> "TIMEOUT", start |-> 0, stamp |-> 0, send |-> FALSE]
    [] q.state # "OFF" /\ input[n] = {} -> [state |-> "OFF", start |-> 0, stamp |-> 0, send |-> FALSE]
    [] OTHER -> [state |-> q.state, start |-> q.start, stamp |-> q.stamp, send |-> FALSE]

ProcessButton(n) ==
  LET q == Repeat(n, sequence[n]) IN
  /\ inputType[n] = "button"
  /\ sequence' = [sequence EXCEPT ![n] = [state |-> q.state, start |-> q.start, stamp |-> q.stamp]]
  /\ out' = [out EXCEPT ![n] = IF q.send THEN Append(@, Telegram("ButtonPressed", n, Do31, input[n])) ELSE @]
  /\ ran' = ran \union {n}
  /\ UNCHANGED <<inputType, input, switch, do31, observed, count>>

-----------------------------------------------------------------------------
(* ProcessBus of a DO31.  BusSend may refuse a response, which is then offered  *)
(* again in every pass; what is received in such a pass is dropped.             *)
Answer(d, t) ==
  IF do31[d].retry # None THEN do31[d].retry
  ELSE IF t.type = "ReqSwitchState" /\ t.to = d THEN Telegram("RespSwitchState", d, t.from, t.state)
  ELSE None

(* ButtonEvent for one or two buttons *)
Entered(list, n, state) ==
  LET first == IF 1 \in state THEN Noted(list, <<n, 1>>) ELSE list
  IN IF 2 \in state THEN Noted(first, <<n, 2>>) ELSE first

Told(x, n, state) ==
  LET keys == {<<n, k>> : k \in state}
      list == Entered(x.list, n, state)
  IN [x EXCEPT !.list = list, !.pressed = @ \union keys,
               !.unlisted = (@ \union keys) \ Keys(list)]

Heard(d, t) ==
  CASE do31[d].retry # None -> do31[d]
    [] OTHER ->
       CASE t.type = "Garbled" -> [do31[d] EXCEPT !.list = Refreshed(@)]
         [] t.type = "ButtonPressed" -> Told(do31[d], t.from, t.state)
         [] t.type = "ReqSwitchState" /\ t.to = d -> [do31[d] EXCEPT !.sw8[t.from] = t.state]
         [] OTHER -> do31[d]

(* All hear what x sends; the DO31s in refusing cannot send their answer now.   *)
Broadcast(x, t, refusing) ==
  /\ do31' = [d \in Do31 |-> [Heard(d, t) EXCEPT !.retry = IF d \in refusing THEN Answer(d, t) ELSE None]]
  /\ out' = [y \in DOMAIN out |->
       (IF y = x THEN Tail(out[y]) ELSE out[y])
       \o (IF y \in Do31 \ refusing /\ Answer(y, t) # None THEN <<Answer(y, t)>> ELSE <<>>)]
  /\ switch' = [n \in Node |->
       IF t.type = "RespSwitchState" /\ t.to = n THEN Confirmation(switch[n], t) ELSE switch[n]]
  /\ forgetful' = forgetful \ {<<d, t.from>> : d \in {e \in Do31 :
       t.type = "ReqSwitchState" /\ t.to = e /\ do31[e].retry = None}}
  /\ steady' = steady \union {key \in Do31 \X Node \X {1, 2} :
       t.type = "ButtonPressed" /\ key[2] = t.from /\ key[3] \in t.state \intersect input[t.from]
       /\ do31[key[1]].retry = None}
  /\ UNCHANGED <<inputType, input, sequence, ran>>

Refusing(refusing) ==
  IF refusing = {} THEN UNCHANGED count ELSE count.lost < MaxLost /\ Count("lost")

Transmit(x) ==
  /\ out[x] # <<>>
  /\ \E refusing \in SUBSET {d \in Do31 : Answer(d, Head(out[x])) # None} :
       Refusing(refusing) /\ Broadcast(x, Head(out[x]), refusing)

Garble(x) ==
  /\ out[x] # <<>> /\ count.garbled < MaxGarbled /\ Count("garbled")
  /\ Broadcast(x, Telegram("Garbled", x, Do31, {}), {d \in Do31 : do31[d].retry # None})

Lose(x) ==
  /\ out[x] # <<>> /\ count.lost < MaxLost /\ Count("lost")
  /\ out' = [out EXCEPT ![x] = Tail(@)]
  /\ UNCHANGED <<inputType, input, switch, sequence, do31, ran, observed>>

Retry(d) ==
  /\ do31[d].retry # None
  /\ out' = [out EXCEPT ![d] = Append(@, do31[d].retry)]
  /\ do31' = [do31 EXCEPT ![d].retry = None]
  /\ UNCHANGED <<inputType, input, switch, sequence, ran, observed, count>>

(* CheckButton *)
CheckButton(d) ==
  /\ \E key \in Overdue(do31[d].list) :
       do31' = [do31 EXCEPT ![d].list = Released(@, key), ![d].pressed = @ \ {key}]
  /\ UNCHANGED <<inputType, input, switch, sequence, out, ran, observed, count>>

(* By the watchdog or a request; sw8 starts with zeros again. *)
Restart(d) ==
  /\ count.restarts < MaxRestarts /\ Count("restarts")
  /\ do31' = [do31 EXCEPT ![d] = FreshDo31]
  /\ out' = [out EXCEPT ![d] = <<>>]
  /\ forgetful' = forgetful \union ({d} \X Node) /\ steady' = {key \in steady : key[1] # d}
  /\ UNCHANGED <<inputType, input, switch, sequence, ran>>

(* A tick is long for the main loops and for a telegram. *)
AtMost(n, max) == IF n < max THEN n ELSE max

Tick ==
  /\ \A n \in Node \ ran : inputType[n] = "absent"
  /\ \A x \in DOMAIN out : out[x] = <<>>
  /\ \A d \in Do31 : do31[d].retry = None /\ Overdue(do31[d].list) = {}
  /\ switch' = [n \in Node |-> IF switch[n].client = NoClient THEN switch[n] ELSE
       [switch[n] EXCEPT !.request = AtMost(@ + 1, RESPONSE_TIMEOUT1 + RESPONSE_TIMEOUT2),
                         !.change = AtMost(@ + 1, RETRY_TIMEOUT2)]]
  /\ sequence' = [n \in Node |-> IF sequence[n].state # "ON" THEN sequence[n] ELSE
       [sequence[n] EXCEPT !.start = AtMost(@ + 1, REPEAT_TIMEOUT), !.stamp = AtMost(@ + 1, REPEAT_DIFF)]]
  /\ do31' = [d \in Do31 |-> [do31[d] EXCEPT !.list = Aged(@)]]
  /\ ran' = {}
  /\ UNCHANGED <<inputType, input, out, observed, count>>

Next ==
  \/ \E n \in Node : Change(n) \/ ProcessSwitch(n) \/ ProcessButton(n)
  \/ \E x \in Node \union Do31 : Transmit(x) \/ Garble(x) \/ Lose(x)
  \/ \E d \in Do31 : Retry(d) \/ CheckButton(d) \/ Restart(d)
  \/ Tick

Spec == Init /\ [][Next]_vars

(* Time passes.  As Tick waits for the main loops, the bus and the DO31s, and   *)
(* they have finitely many steps between two ticks, none of them stops alone.   *)
Fairness == []<><<Tick>>_vars

FairSpec == Spec /\ Fairness

-----------------------------------------------------------------------------
ClientStates == {"Skip", "Init", "WaitForConfirmation1", "WaitForConfirmation2", "ConfirmationOK"}

TypeOK ==
  /\ inputType \in InputTypes /\ \A n \in Node : input[n] \subseteq Wired(n)
  /\ \A n \in Node : /\ switch[n].client \in Client \union {NoClient}
                     /\ switch[n].state \in [Client -> ClientStates]
                     /\ switch[n].old \union switch[n].actual \subseteq Wired(n)
                     /\ sequence[n].state \in {"OFF", "ON", "TIMEOUT"}
  /\ \A d \in Do31 : /\ \A n \in Node : do31[d].sw8[n] \subseteq Wired(n)
                     /\ Cardinality(do31[d].list) <= BUTTON_MAX_NUM_ACTIVE
                     /\ Keys(do31[d].list) \subseteq do31[d].pressed
                     /\ do31[d].unlisted \subseteq do31[d].pressed
  /\ ran \subseteq Node /\ forgetful \subseteq Do31 \X Node

(* A client that has confirmed acts on the state that the switch has, unless it *)
(* was restarted since, whatever was lost or late (ProcessSwitch, ProcessBus).  *)
Confirmed ==
  \A n \in Node, i \in Client :
    switch[n].state[i] = "ConfirmationOK" /\ <<ClientList[i], n>> \notin forgetful =>
      do31[ClientList[i]].sw8[n] = switch[n].actual

(* A button that stays closed stays pressed for the application until the node  *)
(* stops repeating it: garbled telegrams do not look like its release, as the   *)
(* comment on ButtonTimeStampRefresh says, and neither does a single lost one.  *)
Held ==
  \A key \in steady : <<key[2], key[3]>> \in do31[key[1]].pressed \/ sequence[key[2]].state = "TIMEOUT"

(* What the DO31s know of a node is in the end what it is: of buttons, except   *)
(* those that met a full list, and of switches, if the DO31 was not restarted.  *)
Right(n, d) ==
  IF inputType[n] # "button" THEN do31[d].sw8[n] = input[n] \/ <<d, n>> \in forgetful
  ELSE \A k \in Wired(n) :
         <<n, k>> \notin do31[d].unlisted =>
           (<<n, k>> \in do31[d].pressed <=> (k \in input[n] /\ sequence[n].state = "ON"))

Known == <>[](\A n \in Node, d \in Do31 : Right(n, d))
=============================================================================
