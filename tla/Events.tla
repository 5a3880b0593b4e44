------------------------------- MODULE Events -------------------------------
(***************************************************************************)
(* State events: CheckEvent of devices/do31/main.c tells its clients what  *)
(* its outputs and shutters do; tools/eventmonitor confirms, and the MQTT  *)
(* gateway (tools/mqtt) listens to what the event monitor is told.         *)
(***************************************************************************)
EXTENDS DigOut

CONSTANTS
  Relay,                    \* the output with the power of a shutter
  Positions,                \* where the shutter can stop
  ClientList, maxRetry,     \* sClient: addresses, and retries by index
  EventMonitor,             \* its address, which is also event_addr of the gateway
  Gateway, Do31,            \* the other addresses
  CHANGE_DETECT_CYCLE_TIME, RETRY_CYCLE_TIME, RESPONSE_TIMEOUT, BUS_RESPONSE_TIMEOUT, Delay, \* in ticks
  MaxChanges, MaxLost, MaxConnects, MaxRestarts,    \* bounds
  Unknown, Moving           \* readings: none yet, and closing or opening

ASSUME EventsAssumption ==
  /\ Relay \in Outputs /\ maxRetry \in [DOMAIN ClientList -> Nat]
  /\ {CHANGE_DETECT_CYCLE_TIME, RETRY_CYCLE_TIME, RESPONSE_TIMEOUT, BUS_RESPONSE_TIMEOUT, Delay} \subseteq Nat \ {0}
  /\ {MaxChanges, MaxLost, MaxConnects, MaxRestarts} \subseteq Nat

VARIABLES
  digOut, shader,           \* of the DO31: the outputs; what GetActualValueShader returns
  event,                    \* the variables of CheckEvent, with sClient
  out,                      \* the send buffers
  seen,                     \* what the event monitor printed last
  gateway,                  \* phase, age, shadow
  missed,                   \* the gateway depends on an event that may not come again
  untold,                   \* the DO31 was restarted, and no change was found since
  count                     \* of what is bounded

outside == <<missed, untold, count>>
vars == <<digOut, shader, event, out, seen, gateway, outside>>

sNumClients == Len(ClientList)
Client == 1 .. sNumClients
NoClient == 0

Value(outputs, reading) == [digOut |-> outputs, shader |-> reading]
Live == Value(digOut.on, shader)

Undisturbed ==
  [cur |-> Value({}, Unknown), test |-> 0, client |-> NoClient, delay |-> FALSE, cycle |-> 0,
   state |-> [i \in Client |-> "Init"], retry |-> [i \in Client |-> 0], age |-> [i \in Client |-> 0]]

Init ==
  /\ digOut = DigOutInit /\ shader \in Positions
  /\ event = Undisturbed
  /\ out = [x \in {Do31, EventMonitor, Gateway} |-> <<>>]
  /\ seen = Value({}, Unknown)
  /\ gateway = [phase |-> "offline", age |-> 0, shadow |-> Value({}, Unknown)]
  /\ missed = TRUE /\ untold = TRUE
  /\ count = [changes |-> 0, lost |-> 0, connects |-> 0, restarts |-> 0]

Count(what) == count' = [count EXCEPT ![what] = @ + 1]

Telegram(type, from, to, value) == [type |-> type, from |-> from, to |-> to, value |-> value]

-----------------------------------------------------------------------------
(* What the outputs do: by request, by button or by a delay that has passed. *)
Changing ==
  /\ count.changes < MaxChanges /\ Count("changes")
  /\ UNCHANGED <<event, out, seen, gateway, missed, untold>>

Switch ==
  /\ \E n \in Outputs \ {Relay} :
       \/ digOut' = Perform(digOut, Toggle(n))
       \/ n \notin digOut.on /\ digOut' = Perform(Perform(digOut, On(n)), Call("DelayOff", n, Delay))
  /\ UNCHANGED shader /\ Changing

(* The relay and the reading change in the same call of ShaderCheck. *)
ShaderStart == shader # Moving /\ shader' = Moving /\ digOut' = Perform(digOut, On(Relay)) /\ Changing

ShaderStop ==
  /\ shader = Moving /\ shader' \in Positions /\ digOut' = Perform(digOut, Off(Relay))
  /\ UNCHANGED <<event, out, seen, gateway, outside>>

DigOutStateCheck ==
  /\ \E n \in Outputs :
       /\ StateCheck(digOut, n) # <<>>
       /\ digOut' = Perform(Perform(digOut, StateCheck(digOut, n)[1]), StateCheck(digOut, n)[2])
  /\ UNCHANGED <<shader, event, out, seen, gateway, outside>>

-----------------------------------------------------------------------------
(* CheckEvent.  The outputs alone decide whether there is something to tell.    *)

(* Mutant of Begun: clients that have confirmed are not told of a further change. *)
BegunOpen(e) ==
  [e EXCEPT !.cur = Live, !.client = 1, !.delay = FALSE, !.retry = [i \in Client |-> 0],
            !.state = [i \in Client |-> IF @[i] = "ConfirmationOK" THEN @[i] ELSE "Init"]]

Begun(e) ==
  [e EXCEPT !.cur = Live, !.client = 1, !.delay = FALSE,
            !.state = [i \in Client |-> "Init"], !.retry = [i \in Client |-> 0]]

TestDue(e) == e.test >= CHANGE_DETECT_CYCLE_TIME
Detects(e) == TestDue(e) /\ digOut.on # e.cur.digOut

Tested(e) ==
  IF ~TestDue(e) THEN e ELSE [(IF Detects(e) THEN Begun(e) ELSE e) EXCEPT !.test = 0]

Turn(client) == [i \in Client |-> ((client + i - 1) % sNumClients) + 1]

GetUnconfirmedClient(e) ==
  LET open == {i \in Client : e.state[Turn(e.client)[i]] \notin {"MaxRetry", "ConfirmationOK"}} IN
  IF open = {} THEN NoClient ELSE Turn(e.client)[CHOOSE i \in open : \A j \in open : i <= j]

(* A new cycle over the clients waits for RETRY_CYCLE_TIME. *)
NextClient(e) ==
  LET next == GetUnconfirmedClient(e) IN
  [e EXCEPT !.client = next, !.delay = (next # NoClient /\ next <= e.client), !.cycle = 0]

(* Mutant of Expired: one retry too many. *)
ExpiredMore(e) ==
  IF e.retry[e.client] <= maxRetry[e.client]
  THEN [e EXCEPT !.retry[e.client] = @ + 1, !.state[e.client] = "Init"]
  ELSE NextClient([e EXCEPT !.state[e.client] = "MaxRetry"])

Expired(e) ==
  IF e.retry[e.client] < maxRetry[e.client]
  THEN [e EXCEPT !.retry[e.client] = @ + 1, !.state[e.client] = "Init"]
  ELSE NextClient([e EXCEPT !.state[e.client] = "MaxRetry"])

Waits(e) == e.client = NoClient \/ (e.delay /\ e.cycle < RETRY_CYCLE_TIME)

Sends(e) == ~Waits(e) /\ e.state[e.client] = "Init"

Handled(e) ==
  LET f == [e EXCEPT !.delay = FALSE] IN
  CASE Waits(e) -> e
    [] Sends(e) -> NextClient([f EXCEPT !.state[f.client] = "WaitForConfirmation", !.age[f.client] = 0])
    [] ~Waits(e) /\ e.state[e.client] = "WaitForConfirmation" /\ e.age[e.client] >= RESPONSE_TIMEOUT -> Expired(f)
    [] OTHER -> NextClient(f)

Checked == Handled(Tested(event))

(* BusSend may refuse the event: then the same client is served again. *)
CheckEvent ==
  LET e == Tested(event) IN
  /\ \/ /\ event' = Checked
        /\ out' = [out EXCEPT ![Do31] =
             IF Sends(e) THEN Append(@, Telegram("ReqActualValueEvent", Do31, ClientList[e.client], e.cur)) ELSE @]
        /\ UNCHANGED count
     \/ /\ Sends(e) /\ count.lost < MaxLost /\ Count("lost")
        /\ event' = [e EXCEPT !.delay = FALSE]
        /\ UNCHANGED out
  /\ untold' = (untold /\ ~Detects(event))
  /\ UNCHANGED <<digOut, shader, seen, gateway, missed>>

(* eBusDevRespActualValueEvent: compared with what is the state now, without    *)
(* delayed outputs, though the event was sent with them.                        *)
Fits(value) == value.digOut = StateAllStandard(digOut) /\ value.shader = shader

Confirmed(from, value) ==
  LET waiting == {i \in Client : ClientList[i] = from /\ event.state[i] = "WaitForConfirmation"} IN
  IF waiting = {} \/ ~Fits(value) THEN event
  ELSE [event EXCEPT !.state[CHOOSE i \in waiting : \A j \in waiting : i <= j] = "ConfirmationOK"]

-----------------------------------------------------------------------------
(* The gateway.  While it asks for states and variables after it has connected, *)
(* all other telegrams are read and forgotten (request_actval, request_var).    *)
Connect ==
  /\ gateway.phase = "offline" /\ count.connects < MaxConnects /\ Count("connects")
  /\ gateway' = [gateway EXCEPT !.phase = "request", !.age = 0]
  /\ out' = [out EXCEPT ![Gateway] = Append(@, Telegram("ReqActualValue", Gateway, Do31, Unknown))]
  /\ UNCHANGED <<digOut, shader, event, seen, missed, untold>>

TimeOut ==
  /\ gateway.phase = "request" /\ gateway.age > BUS_RESPONSE_TIMEOUT
  /\ gateway' = [gateway EXCEPT !.phase = "variables"]
  /\ UNCHANGED <<digOut, shader, event, out, seen, outside>>

Serve ==
  /\ gateway.phase = "variables" /\ gateway' = [gateway EXCEPT !.phase = "serve"]
  /\ UNCHANGED <<digOut, shader, event, out, seen, outside>>

Disconnect ==
  /\ gateway.phase = "serve" /\ gateway' = [gateway EXCEPT !.phase = "offline"]
  /\ UNCHANGED <<digOut, shader, event, out, seen, outside>>

Asked == gateway.phase = "request"

(* Mutant of Listened: events for the gateway's own address are expected. *)
ListenedOwn(t) == t.type = "ReqActualValueEvent" /\ t.to = Gateway

Listened(t) == t.type = "ReqActualValueEvent" /\ t.to = EventMonitor

Heard(t) ==
  CASE Listened(t) /\ gateway.phase = "serve" -> [gateway EXCEPT !.shadow = t.value]
    [] t.type = "RespActualValue" /\ Asked -> [gateway EXCEPT !.shadow = t.value, !.phase = "variables"]
    [] OTHER -> gateway

(* An event that is not taken; a response with a change that CheckEvent has not *)
(* found yet, and will not find if it is over before.                           *)
Missed(t) ==
  CASE t.type = "ReqActualValueEvent" /\ t.to = EventMonitor -> gateway.phase # "serve"
    [] t.type = "RespActualValue" /\ Asked -> t.value.digOut # event.cur.digOut
    [] OTHER -> missed

-----------------------------------------------------------------------------
Answer(x, t) ==
  CASE x = Do31 /\ t.type = "ReqActualValue" -> <<Telegram("RespActualValue", Do31, Gateway, Live)>>
    [] x = EventMonitor /\ t.type = "ReqActualValueEvent" /\ t.to = EventMonitor ->
         <<Telegram("RespActualValueEvent", EventMonitor, Do31, t.value)>>
    [] OTHER -> <<>>

Transmit(x) ==
  /\ out[x] # <<>>
  /\ LET t == Head(out[x]) IN
     /\ out' = [y \in DOMAIN out |-> (IF y = x THEN Tail(out[y]) ELSE out[y]) \o Answer(y, t)]
     /\ event' = IF t.type = "RespActualValueEvent" THEN Confirmed(t.from, t.value) ELSE event
     /\ seen' = IF t.type = "ReqActualValueEvent" /\ t.to = EventMonitor THEN t.value ELSE seen
     /\ gateway' = Heard(t) /\ missed' = Missed(t)
  /\ UNCHANGED <<digOut, shader, untold, count>>

Lose(x) ==
  /\ out[x] # <<>> /\ count.lost < MaxLost /\ Count("lost")
  /\ out' = [out EXCEPT ![x] = Tail(@)]
  /\ UNCHANGED <<digOut, shader, event, seen, gateway, missed, untold>>

(* By the watchdog or a request: the outputs go off, and nothing has changed.   *)
Restart ==
  /\ count.restarts < MaxRestarts /\ Count("restarts")
  /\ digOut' = DigOutInit /\ shader' \in Positions
  /\ event' = Undisturbed /\ untold' = TRUE
  /\ out' = [out EXCEPT ![Do31] = <<>>]
  /\ UNCHANGED <<seen, gateway, missed>>

(* A tick is long for the main loops and for a telegram. *)
AtMost(n, max) == IF n < max THEN n ELSE max

Tick ==
  /\ Checked = event /\ \A x \in DOMAIN out : out[x] = <<>>
  /\ \A n \in Outputs : StateCheck(digOut, n) = <<>>
  /\ gateway.phase = "request" => gateway.age <= BUS_RESPONSE_TIMEOUT
  /\ digOut' = Elapsed(digOut)
  /\ event' = [event EXCEPT
       !.test = @ + 1, !.cycle = IF event.delay THEN AtMost(@ + 1, RETRY_CYCLE_TIME) ELSE 0,
       !.age = [i \in Client |-> IF event.state[i] = "WaitForConfirmation" THEN AtMost(@[i] + 1, RESPONSE_TIMEOUT) ELSE 0]]
  /\ gateway' = IF gateway.phase = "request" THEN [gateway EXCEPT !.age = @ + 1] ELSE [gateway EXCEPT !.age = 0]
  /\ UNCHANGED <<shader, out, seen, outside>>

Next ==
  \/ Switch \/ ShaderStart \/ ShaderStop \/ DigOutStateCheck \/ CheckEvent
  \/ Connect \/ TimeOut \/ Serve \/ Disconnect
  \/ \E x \in DOMAIN out : Transmit(x) \/ Lose(x)
  \/ Restart \/ Tick

Spec == Init /\ [][Next]_vars

(* Time passes, and with it what Tick waits for; a shutter stops. *)
Fairness == []<><<Tick>>_vars /\ WF_vars(ShaderStop)

FairSpec == Spec /\ Fairness

-----------------------------------------------------------------------------
Values == [digOut : SUBSET Outputs, shader : Positions \union {Moving, Unknown}]

TypeOK ==
  /\ digOut.on \subseteq Outputs /\ shader \in Positions \union {Moving}
  /\ {event.cur, seen, gateway.shadow} \subseteq Values
  /\ event.client \in Client \union {NoClient} /\ event.test \in 0 .. CHANGE_DETECT_CYCLE_TIME
  /\ event.state \in [Client -> {"Init", "WaitForConfirmation", "ConfirmationOK", "MaxRetry"}]
  /\ \A i \in Client : event.retry[i] \in 0 .. maxRetry[i]
  /\ gateway.phase \in {"offline", "request", "variables", "serve"}

(* Every round ends, and the event monitor then knows the outputs as they are,  *)
(* if no more telegrams are lost than there are retries, and not if the DO31    *)
(* was restarted since: what is off then is not told (CheckEvent).  Of the      *)
(* shutters it knows what they did when the outputs were last seen to change.   *)
Told == <>[](/\ event.client = NoClient /\ event.cur.digOut = digOut.on
             /\ untold \/ seen = event.cur)

(* The outputs that the gateway has published are those that there are, unless  *)
(* an event passed while it was asking for something, or what it was answered   *)
(* was over before CheckEvent saw it (serve_bus, init_state_io).                *)
Published == <>[](missed \/ untold \/ gateway.shadow.digOut = digOut.on)
=============================================================================
