------------------------------ MODULE Service ------------------------------
(***************************************************************************)
(* A DO31 that is asked (devices/do31/main.c) by the command line tool     *)
(* tools/modulservice, by the MQTT gateway and by the application of       *)
(* another DO31, which reads and writes its variables in transactions, and *)
(* that calibrates the clock of a switch (projects/switchv2_clockcalib).   *)
(***************************************************************************)
EXTENDS BusVar, TxQueue, FiniteSets

CONSTANTS
  Tool, App, Gateway, Switch, Device, \* the nodes: the address of each, but that of
  DeviceAddress,            \* the DO31 is in its EEPROM, at first this one
  Scenarios,                \* the commands given to the tool and by the broker to the gateway,
                            \* and how often else what may happen
  MAX_CAL_TEL,              \* measurements of a calibration, less one
  Earlier                   \* transactions before those of the model: where the queue starts

ASSUME ServiceAssumption ==
  /\ {MAX_CAL_TEL, Earlier} \subseteq Nat
  /\ \A s \in Scenarios : {s.opens, s.lost, s.late, s.refused} \subseteq Nat
  /\ App \notin {Tool, Gateway, Switch, Device, DeviceAddress} /\ Device \notin {Tool, Gateway, Switch}
  /\ DeviceAddress \notin {Tool, Gateway, Switch}

VARIABLES
  tool,                     \* the script that is left, and the command
  device,                   \* the DO31
  app,                      \* the other DO31: its transactions, handles and memory
  gateway,                  \* what the broker has left to ask, and the queue
  switch,                   \* the switch: sCount
  out,                      \* send buffers
  rx,                       \* what the tool has not read yet: it reads only while it waits
  since,                    \* what was true of the DO31 since a command or transaction
                            \* began, or a request came to the front of the queue
  budget                    \* how often a transaction may still be opened, a telegram lost,
                            \* an answer be late and BusSend refuse

vars == <<tool, device, app, gateway, switch, out, rx, since, budget>>

Telegram(type, from, to, index, data) ==
  [type |-> type, from |-> from, to |-> to, index |-> index, data |-> data, word |-> ""]

(* A result, a command or a state in place of data *)
Spoken(type, from, to, index, word) == [Telegram(type, from, to, index, 0) EXCEPT !.word = word]

None == [type |-> "None"]

MODUL_ADDRESS == 0
CLIENT_ADDRESS_BASE == 1
BUSVAR_NV_START == 2
Nv(eeprom) == [i \in Persistent |-> eeprom[BUSVAR_NV_START + i]]
WithNv(eeprom, nv) ==
  [c \in DOMAIN eeprom |-> IF c - BUSVAR_NV_START \in Persistent THEN nv[c - BUSVAR_NV_START] ELSE eeprom[c]]

(* A node that was started, with what it has in its EEPROM *)
Started(eeprom) ==
  [addr |-> eeprom[MODUL_ADDRESS], eeprom |-> eeprom, var |-> BusVarAdd(Nv(eeprom)), sw8 |-> 0, on |-> 0,
   calib |-> [state |-> "Idle", address |-> 0], retry |-> None]

Installed ==
  [c \in 0 .. BUSVAR_NV_START + Cardinality(Persistent) - 1 |-> IF c = MODUL_ADDRESS THEN DeviceAddress ELSE 0]

(* What was seen of the DO31 by now *)
Seen(d) ==
  [eeprom |-> [c \in DOMAIN d.eeprom |-> {d.eeprom[c]}], var |-> [i \in Variables |-> {d.var[i]}],
   sw8 |-> {d.sw8}, on |-> {d.on}, restarted |-> FALSE, saved |-> FALSE]

Also(s, d) ==
  [s EXCEPT !.eeprom = [c \in DOMAIN @ |-> @[c] \union {d.eeprom[c]}],
            !.var = [i \in Variables |-> @[i] \union {d.var[i]}],
            !.sw8 = @ \union {d.sw8}, !.on = @ \union {d.on}]

NoCommand == [op |-> "None", module |-> 0, at |-> 0, data |-> <<>>]

Init ==
  /\ device = Started(Installed)
  /\ \E s \in Scenarios :
       /\ tool = [left |-> s.script, server |-> s.server, cmd |-> NoCommand, step |-> "Done", got |-> <<>>,
                  result |-> "None", was |-> TRUE, unanswered |-> {}]
       /\ gateway = [left |-> s.sets, queue |-> <<>>, was |-> TRUE, unanswered |-> {}]
       /\ budget = [opens |-> s.opens, lost |-> s.lost, late |-> s.late, refused |-> s.refused]
  /\ app = [v |-> [BusVarInit EXCEPT !.wr = Earlier % TRANSACTION_FIFO_LEN, !.rd = Earlier % TRANSACTION_FIFO_LEN],
            msg |-> None, handle |-> [i \in Variables |-> NoHandle], mem |-> [i \in Variables |-> 0],
            was |-> TRUE, odd |-> FALSE]
  /\ switch = [count |-> 0]
  /\ out = [x \in {Tool, App, Gateway, Switch, Device} |-> <<>>] /\ rx = <<>>
  /\ since = [tool |-> Seen(device), gateway |-> Seen(device), var |-> [i \in Variables |-> {}]]

SinceOpen(d) == [i \in Variables |-> IF app.handle[i] = NoHandle THEN {} ELSE since.var[i] \union {d.var[i]}]
Noted(d) ==
  since' = [tool |-> IF tool.step = "Done" THEN Seen(d) ELSE Also(since.tool, d),
            gateway |-> IF gateway.queue = <<>> THEN Seen(d) ELSE Also(since.gateway, d),
            var |-> SinceOpen(d)]

(* Something from or to x is still on its way: who gives up now hurries. *)
UnderWay(x) ==
  \/ \E y \in DOMAIN out : \E k \in DOMAIN out[y] : x \in {out[y][k].from, out[y][k].to}
  \/ x = Tool /\ rx # <<>>
  \/ device.retry # None /\ device.retry.to = x

Spend(what) ==
  /\ \A w \in what : budget[w] > 0
  /\ budget' = [w \in DOMAIN budget |-> IF w \in what THEN budget[w] - 1 ELSE budget[w]]

-----------------------------------------------------------------------------
(* ProcessBus of the DO31: what a request changes                               *)
Calibrated(calib, command, address) ==
  CASE command = "Idle" -> [calib EXCEPT !.state = "Idle"]
    [] command = "Calibrate" /\ calib.state = "Idle" -> [state |-> "Init", address |-> address]
    [] OTHER -> calib

CalibState(calib, command) ==
  CASE command = "Idle" -> "Idle"
    [] command = "Calibrate" /\ calib.state = "Idle" -> "Busy"
    [] command = "GetState" /\ calib.state \in {"Init", "Continue", "WaitForResponse"} -> "Busy"
    [] command = "GetState" /\ calib.state \in {"Idle", "Success", "Error"} -> calib.state
    [] OTHER -> "InvalidCommand"

Handled(d, t) ==
  CASE t.type = "SetVar" ->
         [d EXCEPT !.var = BusVarWrite(@, t.index, t.data),
                   !.eeprom = WithNv(@, WriteNv(Nv(@), t.index, t.data))]
    [] t.type = "EepromWrite" -> [d EXCEPT !.eeprom[t.index] = t.data]
    [] t.type = "SetAddr" -> [d EXCEPT !.eeprom[MODUL_ADDRESS] = t.data]
    [] t.type = "SetClientAddr" -> [d EXCEPT !.eeprom[CLIENT_ADDRESS_BASE] = t.data]
    [] t.type = "SetValue" -> [d EXCEPT !.on = t.data]
    [] t.type = "SwitchState" -> [d EXCEPT !.sw8 = t.data]
    [] t.type = "ClockCalib" -> [d EXCEPT !.calib = Calibrated(@, t.word, t.index)]
    [] t.type = "RespDoClockCalib" -> [d EXCEPT !.calib.state = t.word]
    [] OTHER -> d

Content(d, t) ==
  CASE t.type = "GetVar" -> BusVarRead(d.var, t.index).data
    [] t.type = "EepromRead" -> d.eeprom[t.index]
    [] t.type = "GetClientAddr" -> d.eeprom[CLIENT_ADDRESS_BASE]
    [] t.type = "ActualValue" -> d.on
    [] t.type = "SwitchState" -> t.data
    [] OTHER -> 0

Result(d, t) ==
  CASE t.type = "GetVar" -> BusVarRead(d.var, t.index).result
    [] t.type = "SetVar" -> WriteResult(t.index, t.data)
    [] t.type = "ClockCalib" -> CalibState(d.calib, t.word)
    [] OTHER -> ""

Requests == {"GetVar", "SetVar", "EepromRead", "EepromWrite", "SetAddr", "SetClientAddr", "GetClientAddr",
             "SetValue", "ActualValue", "SwitchState", "ClockCalib"}

(* Only the responses about variables name the index.                           *)
Reply(d, t) ==
  IF t.type \notin Requests THEN None
  ELSE [type |-> t.type, from |-> d.addr, to |-> t.from, data |-> Content(d, t), word |-> Result(d, t),
        index |-> IF t.type \in {"GetVar", "SetVar"} THEN t.index ELSE 0]

(* ClockCalibTask *)
Due(d) == d.calib.state \in {"Init", "Continue"}
DoClockCalib(d) == Spoken("DoClockCalib", d.addr, d.calib.address, 0, d.calib.state)

(* BusSend and BusSendToBuf take a telegram when there is none, and may refuse. *)
Free(buffer, refused) == buffer = <<>> /\ ~refused

Rest(x) == [out EXCEPT ![x] = Tail(@)]

(* A pass of its main loop.  While a response is offered again, what is received *)
(* in this pass is dropped.                                                      *)
Pass(buffers, t, refused) ==
  LET d == IF device.retry = None THEN Handled(device, t) ELSE device
      reply == IF device.retry = None THEN Reply(device, t) ELSE device.retry
      sent == IF reply # None /\ Free(buffers[Device], refused) THEN <<reply>> ELSE <<>>
      asks == Due(d) /\ Free(buffers[Device] \o sent, refused)
  IN /\ device' = [d EXCEPT !.retry = IF sent = <<>> THEN reply ELSE None,
                            !.calib.state = IF asks THEN "WaitForResponse" ELSE @]
     /\ out' = [buffers EXCEPT ![Device] = @ \o sent \o (IF asks THEN <<DoClockCalib(d)>> ELSE <<>>)]
     /\ Noted(device')

Reboots(t) == t.type = "Reboot" /\ device.retry = None

DeviceHears(x) ==
  /\ out[x] # <<>> /\ Head(out[x]).to = device.addr /\ ~Reboots(Head(out[x]))
  /\ \E refused \in BOOLEAN : Pass(Rest(x), Head(out[x]), refused) /\ Spend(IF refused THEN {"refused"} ELSE {})
  /\ UNCHANGED <<tool, app, gateway, switch, rx>>

DeviceIdle ==
  /\ device.retry # None \/ Due(device)
  /\ Free(out[Device], FALSE) /\ Pass(out, None, FALSE)
  /\ UNCHANGED <<tool, app, gateway, switch, rx, budget>>

Restart(x) ==
  /\ out[x] # <<>> /\ Head(out[x]).to = device.addr /\ Reboots(Head(out[x]))
  /\ device' = Started(device.eeprom)
  /\ out' = [Rest(x) EXCEPT ![Device] = <<Telegram("Startup", device'.addr, Tool, 0, 0)>>]
  /\ since' = [since EXCEPT !.tool = [Also(@, device') EXCEPT !.restarted = TRUE],
                            !.gateway = Also(@, device'),
                            !.var = SinceOpen(device')]
  /\ UNCHANGED <<tool, app, gateway, switch, rx, budget>>

CalibTimeout ==
  /\ device.calib.state = "WaitForResponse"
  /\ Spend(IF UnderWay(Switch) THEN {"late"} ELSE {})
  /\ device' = [device EXCEPT !.calib.state = "Error"]
  /\ tool' = [tool EXCEPT !.unanswered = IF UnderWay(Switch) THEN @ \union {DoClockCalib(device)} ELSE @]
  /\ UNCHANGED <<app, gateway, switch, out, rx, since>>

(* ProcessBus of the switch.  A telegram that comes while it measures is lost.  *)
Measured(t) == IF t.word = "Init" THEN 0 ELSE switch.count

(* Mutant of Counted: one measurement too many. *)
CountedPast(n) == IF n <= MAX_CAL_TEL THEN n + 1 ELSE n

Counted(n) == IF n < MAX_CAL_TEL THEN n + 1 ELSE n

Calibrate(x) ==
  /\ out[x] # <<>> /\ Head(out[x]).to = Switch
  /\ LET t == Head(out[x])
         n == Measured(t)
         state == IF n > MAX_CAL_TEL THEN "Error" ELSE IF n < MAX_CAL_TEL THEN "Continue" ELSE "Success"
     IN /\ switch' = [count |-> Counted(n)]
        /\ out' = [Rest(x) EXCEPT ![Switch] = Append(@, Spoken("RespDoClockCalib", Switch, t.from, 0, state))]
        /\ since' = [since EXCEPT !.tool.saved = @ \/ state = "Success"]
  /\ UNCHANGED <<tool, device, app, gateway, rx, budget>>

-----------------------------------------------------------------------------
(* The other DO31: a pass of its main loop, of which t is the telegram and      *)
(* pressed what buttons ask for (a set with at most one index and direction).   *)
Responded(a, t) ==
  CASE t.type = "GetVar" ->
         LET h == GetTaker(a.v, t.from, t.index) IN
         [a EXCEPT !.v = Answered(@, h), !.mem = IF h = NoHandle THEN @ ELSE [@ EXCEPT ![a.v.fifo[h].idx] = t.data],
                   !.odd = @ \/ (h # NoHandle /\ a.v.fifo[h].state = "Invalid")]
    [] t.type = "SetVar" ->
         LET h == SetTaker(a.v, t.from, t.index) IN
         [a EXCEPT !.v = Answered(@, h), !.odd = @ \/ h # NoHandle]
    [] OTHER -> a

(* Who presses again does not wait for the first answer: its handle is lost.    *)
Opened(a, i, dir) ==
  [a EXCEPT !.handle[i] = IF NumFifoFree(a.v) = 0 THEN NoHandle ELSE a.v.wr,
            !.v = IF NumFifoFree(a.v) = 0 THEN @ ELSE BusVarTransactionOpen(@, Transaction(DeviceAddress, i, dir)),
            !.mem[i] = IF dir = "Write" THEN 1 ELSE @,
            !.odd = @ \/ a.handle[i] # NoHandle]

(* The variables whose transactions ApplicationCheck finds finished *)
Finished(a) == {i \in Variables : a.handle[i] # NoHandle /\ a.v.fifo[a.handle[i]].state \in Final}

Used(a, i) ==
  LET t == a.v.fifo[a.handle[i]] IN
  t.state = "Ready" /\ t.dir = "Read" /\ ~a.odd => a.mem[i] \in since.var[i]

ApplicationCheck(a) ==
  LET finished == Finished(a) IN
  [a EXCEPT !.v = BusVarTransactionClose(@, {a.handle[i] : i \in finished}),
            !.handle = [i \in Variables |-> IF i \in finished THEN NoHandle ELSE @[i]],
            !.mem = [i \in Variables |-> IF i \in finished THEN 0 ELSE @[i]],
            !.was = @ /\ \A i \in finished : Used(a, i)]

FromApp(m) == Telegram(IF m.dir = "Read" THEN "GetVar" ELSE "SetVar", App, m.to, m.index, m.data)

(* A retry has sent the telegram of another transaction.                        *)
Crossed(before, p) ==
  \E h \in Queued(before) :
    /\ before.fifo[h].state = "TxRetry" /\ p.v.fifo[h].state = "Waiting"
    /\ <<p.msg.index, p.msg.dir>> # <<before.fifo[h].idx, before.fifo[h].dir>>

In(v, state) == {h \in Queued(v) : v.fifo[h].state = state}

(* The static telegram is read again only by a retry.                           *)
Remembered(p) == IF In(p.v, "TxRetry") = {} THEN None ELSE p.msg

Served(buffers, a, refused, elapsed, hurries) ==
  \E p \in {BusVarProcess(a.v, a.msg, Free(buffers[App], refused), elapsed, [h \in Place |-> a.mem[a.v.fifo[h].idx]])} :
    /\ app' = [a EXCEPT !.v = p.v, !.msg = Remembered(p), !.odd = @ \/ hurries \/ Crossed(a.v, p)]
    /\ out' = [buffers EXCEPT ![App] = @ \o [k \in DOMAIN p.sent |-> FromApp(p.sent[k])]]

AppPass(buffers, b) ==
  \E a \in {ApplicationCheck(b)}, refused \in BOOLEAN :
  \E elapsed \in SUBSET (In(a.v, "Waiting") \union In(a.v, "TxRetry")) :
    LET hurries == elapsed \intersect In(a.v, "Waiting") # {} /\ UnderWay(App) IN
    /\ Spend((IF hurries THEN {"late"} ELSE {}) \union (IF refused THEN {"refused"} ELSE {}))
    /\ Served(buffers, a, refused, elapsed, hurries)

AppHears(x) ==
  /\ out[x] # <<>> /\ Head(out[x]).to = App /\ AppPass(Rest(x), Responded(app, Head(out[x])))
  /\ since' = [since EXCEPT !.var = [i \in Variables |-> IF app'.handle[i] = NoHandle THEN {} ELSE @[i]]]
  /\ UNCHANGED <<tool, device, gateway, switch, rx>>

AppIdle ==
  /\ app.v.rd # app.v.wr /\ AppPass(out, app) /\ app' # app
  /\ since' = [since EXCEPT !.var = [i \in Variables |-> IF app'.handle[i] = NoHandle THEN {} ELSE @[i]]]
  /\ UNCHANGED <<tool, device, gateway, switch, rx>>

AppOpen ==
  /\ Spend({"opens"})
  /\ \E i \in Variables, dir \in {"Read", "Write"} :
       \E a \in {ApplicationCheck(Opened(app, i, dir))} : Served(out, a, FALSE, {}, FALSE)
       /\ since' = [since EXCEPT !.var[i] = {device.var[i]}]
  /\ UNCHANGED <<tool, device, gateway, switch, rx>>

-----------------------------------------------------------------------------
(* The tool: the request of the step that a command is at                       *)
CalibCommand(step) ==
  CASE step = "First" -> "GetState" [] step = "Poll" -> "GetState" [] OTHER -> step

Ask(tl) ==
  LET c == tl.cmd IN
  CASE c.op \in {"EepromRead", "EepromWrite"} ->
         Telegram(c.op, Tool, c.module, c.at + Len(tl.got), IF c.op = "EepromRead" THEN 0 ELSE c.data[Len(tl.got) + 1])
    [] c.op = "ClockCalib" -> Spoken(c.op, Tool, c.module, c.at, CalibCommand(tl.step))
    [] OTHER -> Telegram(c.op, Tool, c.module, c.at, IF c.data = <<>> THEN 0 ELSE c.data[1])

Sends(tl) ==
  /\ tool' = tl
  /\ out' = [out EXCEPT ![Tool] = IF tl.step = "Done" THEN @ ELSE Append(@, Ask(tl))]

(* A run of the program throws away what was received before; a server does not. *)
Command ==
  /\ tool.step = "Done" /\ tool.left # <<>>
  /\ LET c == Head(tool.left) IN
     Sends([tool EXCEPT !.left = Tail(@), !.cmd = c, !.result = "None",
                        !.step = IF c.op = "ClockCalib" THEN "First" ELSE "Wait"])
  /\ rx' = IF tool.server THEN rx ELSE <<>>
  /\ since' = [since EXCEPT !.tool = Seen(device)]
  /\ UNCHANGED <<device, app, gateway, switch, budget>>

Named(t, ask) ==
  /\ ask.type \in {"GetVar", "SetVar"} => t.index = ask.index
  /\ ask.type = "SwitchState" => t.data = ask.data

(* Mutant of Accepts: the index in the response is not compared. *)
AcceptsAny(tl, t) == t.from = tl.cmd.module /\ t.type = IF tl.cmd.op = "Reboot" THEN "Startup" ELSE tl.cmd.op

Accepts(tl, t) ==
  /\ t.from = tl.cmd.module
  /\ IF tl.cmd.op = "Reboot" THEN t.type = "Startup" ELSE t.type = tl.cmd.op /\ Named(t, Ask(tl))

(* What was so while a command ran, by now. *)
Was(tl) ==
  LET c == tl.cmd
      s == since.tool
  IN CASE c.op = "GetVar" -> tl.got[1] \in s.var[c.at]
       [] c.op = "SetVar" -> c.data[1] \in s.var[c.at]
       [] c.op = "EepromRead" -> \A k \in DOMAIN tl.got : tl.got[k] \in s.eeprom[c.at + k - 1]
       [] c.op = "EepromWrite" -> \A k \in DOMAIN c.data : c.data[k] \in s.eeprom[c.at + k - 1]
       [] c.op = "SetAddr" -> c.data[1] \in s.eeprom[MODUL_ADDRESS]
       [] c.op = "SetClientAddr" -> c.data[1] \in s.eeprom[CLIENT_ADDRESS_BASE]
       [] c.op = "GetClientAddr" -> tl.got[1] \in s.eeprom[CLIENT_ADDRESS_BASE]
       [] c.op = "SetValue" -> c.data[1] \in s.on
       [] c.op = "ActualValue" -> tl.got[1] \in s.on
       [] c.op = "SwitchState" -> c.data[1] \in s.sw8
       [] c.op = "Reboot" -> s.restarted
       [] c.op = "ClockCalib" -> s.saved

(* The answer to an earlier request for the same thing, which the tool did not  *)
(* wait for, can be taken for the answer to this one.                           *)
Fooled(tl) ==
  \E r \in tl.unanswered :
    \/ r.type = tl.cmd.op /\ r.to = tl.cmd.module /\ Named(r, Telegram(tl.cmd.op, Tool, tl.cmd.module, tl.cmd.at, r.data))
    \/ r.type = "DoClockCalib" /\ tl.cmd.op = "ClockCalib"

Finish(tl, result) ==
  [tl EXCEPT !.step = "Done", !.result = result, !.cmd = NoCommand, !.got = <<>>,
             !.was = @ /\ (result = "OK" /\ ~Fooled(tl) => Was(tl))]

Ended(tl, ok) == Finish(tl, IF ok THEN "OK" ELSE "ERROR")

(* ModuleClockCalib *)
CalibStep(tl, state) ==
  CASE tl.step = "First" /\ state = "Busy" -> Finish(tl, "Busy")
    [] tl.step = "First" /\ state \notin {"Busy", "Idle"} -> [tl EXCEPT !.step = "Idle"]
    [] tl.step = "Idle" \/ (tl.step = "First" /\ state = "Idle") -> [tl EXCEPT !.step = "Calibrate"]
    [] tl.step \in {"Calibrate", "Poll"} /\ state = "Busy" -> [tl EXCEPT !.step = "Poll"]
    [] OTHER -> Ended(tl, state = "Success")

Length(c) ==
  CASE c.op = "EepromRead" -> c.data[1] [] c.op = "EepromWrite" -> Len(c.data) [] OTHER -> 1

Advanced(tl, t) ==
  IF tl.cmd.op = "ClockCalib" THEN CalibStep(tl, t.word)
  ELSE LET u == [tl EXCEPT !.got = Append(@, t.data)] IN
       IF Len(u.got) < Length(u.cmd) THEN u ELSE Ended(u, u.cmd.op \in {"GetVar", "SetVar"} => t.word = "Success")

ToolReceive ==
  /\ tool.step # "Done" /\ rx # <<>>
  /\ IF Accepts(tool, rx[1]) THEN Sends(Advanced(tool, rx[1])) ELSE UNCHANGED <<tool, out>>
  /\ rx' = Tail(rx)
  /\ UNCHANGED <<device, app, gateway, switch, since, budget>>

ToolTimeout ==
  /\ tool.step # "Done" /\ rx = <<>>
  /\ Spend(IF UnderWay(Tool) THEN {"late"} ELSE {})
  /\ tool' = [Ended(tool, FALSE) EXCEPT !.unanswered = IF UnderWay(Tool) THEN @ \union {Ask(tool)} ELSE @]
  /\ UNCHANGED <<device, app, gateway, switch, out, rx, since>>

-----------------------------------------------------------------------------
(* The gateway.  What the broker asks for (op, at, data) is put in the queue.   *)
Set ==
  /\ gateway.left # <<>>
  /\ LET c == Head(gateway.left) IN
     gateway' = [gateway EXCEPT !.left = Tail(@),
                                !.queue = LL_APPEND(@, Telegram(c.op, Gateway, DeviceAddress, c.at, c.data))]
  /\ since' = IF gateway.queue = <<>> THEN [since EXCEPT !.gateway = Seen(device)] ELSE since
  /\ UNCHANGED <<tool, device, app, switch, out, rx, budget>>

(* A request that was answered was sent, and the DO31 did it meanwhile. *)
Obeyed(r) == r.sent /\ r.ask.data \in IF r.ask.type = "SetVar" THEN since.gateway.var[r.ask.index] ELSE since.gateway.on

Late(expired) == IF expired /\ UnderWay(Gateway) THEN {gateway.queue[1].ask} ELSE {}

(* What answers an earlier request that expired too early answers r as well. *)
Mistaken(r, unanswered) ==
  \E u \in unanswered : u.type = r.ask.type /\ (u.type = "SetVar" => u.index = r.ask.index)

GatewayPass(buffers, t, expired) ==
  /\ expired => gateway.queue # <<>> /\ gateway.queue[1].sent
  /\ Spend(IF Late(expired) = {} THEN {} ELSE {"late"})
  /\ LET s == serve_bus(gateway.queue, t, expired)
         unanswered == gateway.unanswered \union Late(expired)
     IN /\ gateway' = [gateway EXCEPT !.queue = s.queue, !.unanswered = unanswered,
                                      !.was = @ /\ \A r \in s.answered : Mistaken(r, unanswered) \/ Obeyed(r)]
        /\ out' = [buffers EXCEPT ![Gateway] = @ \o s.sent]
        /\ since' = IF Len(s.queue) # Len(gateway.queue) THEN [since EXCEPT !.gateway = Seen(device)] ELSE since
  /\ UNCHANGED <<tool, device, app, switch, rx>>

GatewayHears(x) ==
  /\ out[x] # <<>> /\ Head(out[x]).to = Gateway
  /\ \E expired \in BOOLEAN : GatewayPass(Rest(x), Head(out[x]), expired)

GatewayIdle ==
  /\ gateway.queue # <<>> /\ GatewayPass(out, None, gateway.queue[1].sent)

-----------------------------------------------------------------------------
(* The bus.  Nodes discard what is not for them.                                *)
ToolHears(x) ==
  /\ out[x] # <<>> /\ Head(out[x]).to = Tool
  /\ rx' = Append(rx, Head(out[x])) /\ out' = Rest(x)
  /\ UNCHANGED <<tool, device, app, gateway, switch, since, budget>>

NobodyHears(x) ==
  /\ out[x] # <<>> /\ Head(out[x]).to \notin {Tool, App, Gateway, Switch, device.addr}
  /\ out' = Rest(x)
  /\ UNCHANGED <<tool, device, app, gateway, switch, rx, since, budget>>

Lose(x) ==
  /\ out[x] # <<>> /\ Spend({"lost"})
  /\ out' = [out EXCEPT ![x] = Tail(@)]
  /\ UNCHANGED <<tool, device, app, gateway, switch, rx, since>>

Next ==
  \/ \E x \in DOMAIN out :
       \/ DeviceHears(x) \/ Restart(x) \/ Calibrate(x) \/ AppHears(x)
       \/ GatewayHears(x) \/ ToolHears(x) \/ NobodyHears(x) \/ Lose(x)
  \/ DeviceIdle \/ CalibTimeout \/ AppIdle \/ AppOpen
  \/ Command \/ ToolReceive \/ ToolTimeout \/ Set \/ GatewayIdle

Spec == Init /\ [][Next]_vars

-----------------------------------------------------------------------------
(* Types, and the bounds of the transaction queue. *)
TypeOK ==
  /\ tool.result \in {"None", "OK", "Busy", "ERROR"}
  /\ tool.step \in {"Done", "Wait", "First", "Idle", "Calibrate", "Poll"}
  /\ device.calib.state \in {"Idle", "Init", "Continue", "WaitForResponse", "Success", "Error"}
  /\ switch.count \in 0 .. MAX_CAL_TEL
  /\ app.v.rd \in Place /\ app.v.wr \in Place
  /\ \A h \in Place : app.v.fifo[h].txRetryCnt \in 0 .. TX_RETRIES
  /\ \A x \in DOMAIN out \ {Tool} : Len(out[x]) <= 2

(* What a command reports to have done was done while it ran, and what it shows *)
(* was so while it ran: unless an earlier command for the same thing gave up    *)
(* too early, whose answer this one may have taken for its own (the answers     *)
(* about EEPROM do not even name the place).  The same holds for a request that  *)
(* the gateway takes off its queue as answered, with which it publishes the new   *)
(* value of a variable: it was sent and done.                                     *)
Done == tool.was /\ gateway.was

(* A value that the application uses is one that the variable had since it asked, *)
(* unless something odd happened before: it gave up while an answer was on its    *)
(* way, a retry sent the telegram of another transaction, the response to a write *)
(* was taken for another transaction, one to a read for a transaction that was    *)
(* closed, or a handle was overwritten.                                           *)
Delivered == app.was

(* When all transactions are closed the queue is empty. *)
Emptied == (\A i \in Variables : app.handle[i] = NoHandle) /\ ~app.odd => app.v.rd = app.v.wr
=============================================================================
