----------------------------- MODULE MCService -----------------------------
EXTENDS Service

MCCommand(op, at, data) == [op |-> op, module |-> DeviceAddress, at |-> at, data |-> data]
MCNewAddress == 11
MCReset == MCCommand("Reboot", 0, <<>>)
MCGet(i) == MCCommand("GetVar", i, <<>>)
MCSet(i, x) == MCCommand("SetVar", i, <<x>>)
MCCalib == MCCommand("ClockCalib", Switch, <<>>)
MCSwitch(x) == MCCommand("SwitchState", 0, <<x>>)
MCRead(at, n) == MCCommand("EepromRead", at, <<n>>)

MCScripts == {
  <<MCSet(0, 1), MCReset, MCGet(0)>>,
  <<MCSet(1, 1), MCGet(0), MCGet(1)>>,
  <<MCSet(0, Wide), MCSet(BUSVAR_NUMVAR - 1, 1), MCGet(BUSVAR_NUMVAR - 1)>>,
  <<MCRead(0, 2), MCRead(1, 2)>>,
  <<MCCommand("EepromWrite", 1, <<1, 1>>), MCGet(0), MCReset, MCGet(0)>>,
  <<MCCommand("SetAddr", 0, <<MCNewAddress>>), MCReset, [MCGet(0) EXCEPT !.module = MCNewAddress]>>,
  <<MCCommand("SetClientAddr", 0, <<1>>), MCCommand("GetClientAddr", 0, <<>>)>>,
  <<MCCommand("SetValue", 0, <<1>>), MCCommand("ActualValue", 0, <<>>)>>,
  <<MCSwitch(1), MCSwitch(0)>>,
  <<MCCalib, MCCalib>>}

MCBudget(opens, lost, late, refused) == [opens |-> opens, lost |-> lost, late |-> late, refused |-> refused]

MCScenario(script, server, b) ==
  [script |-> script, server |-> server, opens |-> b.opens, lost |-> b.lost, late |-> b.late, refused |-> b.refused,
   sets |-> <<>>]

MCAsk(op, at, data) == [op |-> op, at |-> at, data |-> data]
MCSets == {
  <<MCAsk("SetValue", 0, 1), MCAsk("SetValue", 0, 0), MCAsk("SetValue", 0, 1)>>,
  <<MCAsk("SetVar", 0, 1), MCAsk("SetValue", 0, 1), MCAsk("SetVar", 0, 2)>>,
  <<MCAsk("SetVar", 0, Wide), MCAsk("SetVar", 1, 1), MCAsk("SetVar", 0, 1)>>,
  <<MCAsk("SetVar", BUSVAR_NUMVAR - 1, 1), MCAsk("SetVar", 1, 1)>>}

MCScenarios ==
  {MCScenario(s, server, MCBudget(0, 1, 2, 1)) : s \in MCScripts, server \in BOOLEAN}
  \union {MCScenario(s, FALSE, MCBudget(2, 1, 0, 1)) : s \in {<<MCSet(0, 1)>>, <<MCReset>>}}
  \union {MCScenario(<<>>, FALSE, MCBudget(3, 1, 1, 1))}
  \union {[MCScenario(s, FALSE, MCBudget(0, 1, 1, 1)) EXCEPT !.sets = sets] :
            s \in {<<MCReset>>, <<MCSet(0, 1)>>}, sets \in MCSets}
=============================================================================
