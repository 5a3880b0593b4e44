----------------------------- MODULE PanelProofs -----------------------------
(***************************************************************************)
(* Proofs about Panel, for any number of nodes, DO31s and clients and any  *)
(* bounds: the types, the limit of the list of active buttons, that a      *)
(* client that has confirmed acts on the state of the switch, and that a   *)
(* button that stays closed stays pressed.                                 *)
(***************************************************************************)
EXTENDS Panel, SequenceTheorems, FiniteSetTheorems, WellFoundedInduction, TLAPS

Address == Node \union Do31
Numbers == {1, 2}

Telegrams ==
  {t \in [type : {"ReqSwitchState", "RespSwitchState", "ButtonPressed", "Garbled"}, from : Address,
          to : Address \union {Do31} \union {ClientList[i] : i \in Client}, state : SUBSET Numbers] :
     t.type \in {"ReqSwitchState", "ButtonPressed"} => t.from \in Node}

Switches ==
  [old : SUBSET Numbers, actual : SUBSET Numbers, client : Client \union {NoClient},
   state : [Client -> ClientStates], request : Nat, change : Nat, started : BOOLEAN]

Sequences == [state : {"OFF", "ON", "TIMEOUT"}, start : Nat, stamp : Nat]

Lists == {list \in SUBSET [key : Node \X Numbers, age : Nat] : IsFiniteSet(list)}

Receivers ==
  [sw8 : [Node -> SUBSET Numbers], retry : Telegrams \union {None}, list : Lists,
   pressed : SUBSET (Node \X Numbers), unlisted : SUBSET (Node \X Numbers)]

Types ==
  /\ inputType \in InputTypes /\ input \in [Node -> SUBSET Numbers]
  /\ switch \in [Node -> Switches] /\ sequence \in [Node -> Sequences]
  /\ out \in [Address -> Seq(Telegrams)] /\ do31 \in [Do31 -> Receivers]
  /\ ran \subseteq Node /\ forgetful \subseteq Do31 \X Node

(* What the nodes and the DO31s know of a node are contacts that it has. *)
WiredOnly(n) ==
  /\ input[n] \subseteq Wired(n) /\ switch[n].old \subseteq Wired(n) /\ switch[n].actual \subseteq Wired(n)
  /\ \A d \in Do31 : do31[d].sw8[n] \subseteq Wired(n)

(* The list of a DO31 holds some of the buttons that its application was told. *)
ListRight(r) ==
  /\ Cardinality(r.list) <= BUTTON_MAX_NUM_ACTIVE
  /\ Keys(r.list) \subseteq r.pressed
  /\ r.unlisted \subseteq r.pressed \ Keys(r.list)

(* The state of a switch n is under way as a request or as the response to it, *)
(* in a send buffer (at k) or as a response that BusSend has refused (k = 0).  *)
Concerns(t, n) ==
  \/ t.type = "ReqSwitchState" /\ t.from = n
  \/ t.type = "RespSwitchState" /\ t.to = n

Lies(n, x, k) ==
  \/ k = 0 /\ x \in Do31 /\ do31[x].retry # None /\ Concerns(do31[x].retry, n)
  \/ k # 0 /\ k \in DOMAIN out[x] /\ Concerns(out[x][k], n)

Lying(x, k) == IF k = 0 THEN do31[x].retry ELSE out[x][k]

(* Only once, *)
Single(n) ==
  \A x, y \in Address : \A k, l \in Nat : Lies(n, x, k) /\ Lies(n, y, l) => x = y /\ k = l

(* and while the switch waits, in the same tick, for the answer of the client  *)
(* that it concerns: nothing of an earlier state is left to be confirmed.      *)
Waiting(n) ==
  /\ switch[n].client # NoClient /\ switch[n].state[switch[n].client] = "WaitForConfirmation1"
  /\ switch[n].request = 0 /\ switch[n].change < RETRY_TIMEOUT2 /\ switch[n].started

Current(n, x, t) ==
  LET client == ClientList[switch[n].client] IN
  /\ t.state = switch[n].actual
  /\ t.type = "ReqSwitchState" => x = n /\ t.to = client
  /\ t.type = "RespSwitchState" =>
       x = client /\ x \in Do31 /\ t.from = x /\ do31[x].sw8[n] = t.state

UnderWay(n) ==
  /\ Single(n)
  /\ \A x \in Address : \A k \in Nat : Lies(n, x, k) => Waiting(n) /\ Current(n, x, Lying(x, k))

ConfirmedBy(n) ==
  \A i \in Client : switch[n].state[i] = "ConfirmationOK" =>
    /\ ClientList[i] \in Do31
    /\ <<ClientList[i], n>> \notin forgetful => do31[ClientList[i]].sw8[n] = switch[n].actual

PanelInv ==
  /\ Types
  /\ \A n \in Node : WiredOnly(n) /\ UnderWay(n) /\ ConfirmedBy(n)
  /\ \A d \in Do31 : ListRight(do31[d])

-----------------------------------------------------------------------------
LEMMA PanelBounds ==
  /\ ClientNum \in Nat \ {0} /\ RESPONSE_TIMEOUT1 \in Nat \ {0}
  /\ RESPONSE_TIMEOUT2 \in Nat /\ RETRY_TIMEOUT2 \in Nat /\ REPEAT_DIFF \in Nat /\ REPEAT_TIMEOUT \in Nat
  /\ BUTTON_MAX_NUM_ACTIVE \in Nat \ {0} /\ Contact \in [Node -> SUBSET Numbers]
  BY PanelAssumption, ButtonAssumption DEF ClientNum, Numbers

(* A set of clients has a first one, as its initial parts have a smallest one. *)
LEMMA FirstClient ==
  ASSUME NEW S \in SUBSET Client, S # {}
  PROVE  (CHOOSE i \in S : \A j \in S : i <= j) \in S
  <1> DEFINE UpTo(i) == {j \in S : j <= i}
             Parts == {UpTo(i) : i \in S}
  <1>1. IsFiniteSet(Client) /\ Client \subseteq Int
    BY PanelBounds, FS_Interval DEF Client
  <1>2. Parts \subseteq FiniteSubsetsOf(Client) /\ Parts # {}
    <2>1. ASSUME NEW i \in S PROVE UpTo(i) \in FiniteSubsetsOf(Client)
      <3>1. UpTo(i) \in SUBSET Client
        OBVIOUS
      <3> QED
        BY <1>1, <3>1, FS_Subset DEF FiniteSubsetsOf
    <2> QED
      BY <2>1
  <1>3. PICK part \in Parts : \A other \in Parts : ~(<<other, part>> \in StrictSubsetOrdering(Client))
    <2>1. IsWellFoundedOn(StrictSubsetOrdering(Client), FiniteSubsetsOf(Client))
      BY FS_StrictSubsetOrderingWellFounded
    <2> HIDE DEF Parts
    <2> QED
      BY <1>2, <2>1, WFMin
  <1>4. PICK i \in S : part = UpTo(i)
    BY <1>3
  <1>5. ASSUME NEW j \in S PROVE i <= j
    <2> SUFFICES ASSUME ~(i <= j) PROVE FALSE
      OBVIOUS
    <2>1. i \in Int /\ j \in Int /\ \A k \in S : k \in Int
      BY <1>1
    <2>2. i \in UpTo(i) /\ i \notin UpTo(j) /\ UpTo(j) \subseteq UpTo(i)
      <3>1. ASSUME NEW k \in S, k <= j PROVE k <= i
        BY <2>1, <3>1
      <3>2. i <= i
        BY <2>1
      <3> QED
        BY <3>1, <3>2
    <2>3. UpTo(j) \in Parts /\ UpTo(i) \in SUBSET Client /\ UpTo(j) \in SUBSET Client
      OBVIOUS
    <2>4. <<UpTo(j), UpTo(i)>> \in StrictSubsetOrdering(Client)
      <3> HIDE DEF UpTo
      <3> QED
        BY <2>2, <2>3 DEF StrictSubsetOrdering
    <2> QED
      BY <1>3, <1>4, <2>3, <2>4
  <1> QED
    BY <1>5

LEMMA TurnType ==
  ASSUME NEW client \in Client, NEW i \in Client
  PROVE  Turn(client)[i] \in Client
  <1>1. ClientNum \in Nat \ {0} /\ client \in 1 .. ClientNum /\ i \in 1 .. ClientNum
    BY PanelBounds DEF Client
  <1>2. PICK m : m = client + i - 1
    OBVIOUS
  <1>3. m \in Nat
    BY <1>1, <1>2
  <1>4. m % ClientNum \in 0 .. ClientNum - 1
    BY <1>1, <1>3
  <1> QED
    BY <1>1, <1>2, <1>4 DEF Turn, Client

LEMMA UnconfirmedIs ==
  ASSUME NEW s \in Switches, s.client \in Client
  PROVE  GetUnconfirmedClient(s) \in Client \union {NoClient}
  <1> DEFINE open == {i \in Client : s.state[Turn(s.client)[i]] \notin {"Skip", "ConfirmationOK"}}
  <1>1. CASE open = {}
    BY <1>1 DEF GetUnconfirmedClient
  <1>2. CASE open # {}
    <2>1. open \in SUBSET Client
      OBVIOUS
    <2>2. PICK c : c = CHOOSE i \in open : \A j \in open : i <= j
      OBVIOUS
    <2>3. c \in Client
      <3> HIDE DEF open
      <3>1. c \in open
        BY <1>2, <2>1, <2>2, FirstClient
      <3> QED
        BY <2>1, <3>1
    <2>4. GetUnconfirmedClient(s) = Turn(s.client)[c]
      BY <1>2, <2>2 DEF GetUnconfirmedClient
    <2> QED
      BY <2>3, <2>4, TurnType
  <1> QED
    BY <1>1, <1>2

-----------------------------------------------------------------------------
(* ProcessSwitch: a new round forgets the confirmations of the last one, *)
NoneConfirmed(s) == \A i \in Client : s.state[i] # "ConfirmationOK"

LEMMA ChangedIs ==
  ASSUME NEW s \in Switches, NEW state \in SUBSET Numbers
  PROVE  LET c == Changed(s, state) IN
         /\ c \in Switches /\ c.started = s.started
         /\ \/ c = s
            \/ /\ ~Inhibited(s) /\ c.client \in Client /\ NoneConfirmed(c)
               /\ c.old = state /\ c.actual = state /\ c.change = 0
  <1>1. CASE state = s.old \/ Inhibited(s)
    BY <1>1 DEF Changed
  <1>2. CASE ~(state = s.old \/ Inhibited(s))
    <2>1. InitClients \in [Client -> ClientStates] /\ \A i \in Client : InitClients[i] # "ConfirmationOK"
      BY DEF InitClients, ClientStates
    <2>2. 1 \in Client /\ 0 \in Nat
      BY PanelBounds DEF Client
    <2>3. Changed(s, state) = [s EXCEPT !.old = state, !.actual = state, !.client = 1, !.change = 0, !.state = InitClients]
      BY <1>2 DEF Changed
    <2> QED
      BY <1>2, <2>1, <2>2, <2>3 DEF NoneConfirmed, Switches
  <1> QED
    BY <1>1, <1>2

(* and what follows takes confirmations away, but gives none. *)
Keeps(s, t) ==
  /\ t \in Switches /\ t.started = s.started /\ t.old = s.old /\ t.actual = s.actual
  /\ \A i \in Client : t.state[i] = "ConfirmationOK" => s.state[i] = "ConfirmationOK"

LEMMA GivenUpIs == ASSUME NEW s \in Switches PROVE Keeps(s, GivenUp(s)) /\ GivenUp(s).client = NoClient
  BY DEF GivenUp, Keeps, Switches

LEMMA IdleIs ==
  ASSUME NEW s \in Switches
  PROVE  Keeps(s, Idle(s)) /\ (s.client # NoClient => Idle(s) = s)
  BY DEF Idle, Keeps, Switches

LEMMA AdvancedIs ==
  ASSUME NEW s \in Switches, s.client \in Client
  PROVE  /\ Keeps(s, Advanced(s)) /\ Advanced(s).change = s.change /\ Advanced(s).state = s.state
         /\ s.state[s.client] # "ConfirmationOK" => Advanced(s) = s
  BY UnconfirmedIs DEF Advanced, Keeps, Switches

LEMMA EnterIs ==
  ASSUME NEW s \in Switches, s.client \in Client, NEW state \in ClientStates \ {"ConfirmationOK"}
  PROVE  /\ Keeps(s, Enter(s, state)) /\ Enter(s, state).client = s.client /\ Enter(s, state).change = s.change
         /\ Enter(s, state).request = 0 /\ Enter(s, state).state[s.client] = state
  BY DEF Enter, Keeps, Switches

LEMMA ServedIs ==
  ASSUME NEW s \in Switches
  PROVE  /\ Keeps(s, Served(s))
         /\ Asked(s) => Served(s) = Enter(s, "WaitForConfirmation1")
         /\ /\ s.client # NoClient /\ s.state[s.client] = "WaitForConfirmation1"
            /\ s.request = 0
            => Served(s) = s
  <1>1. CASE s.client = NoClient
    <2>1. Served(s) = s
      BY <1>1 DEF Served
    <2> QED
      BY <1>1, <2>1 DEF Keeps, Asked
  <1>2. CASE s.client # NoClient
    <2>0. s.client \in Client /\ s.state[s.client] \in ClientStates
      BY <1>2 DEF Switches
    <2>1. CASE s.state[s.client] = "Init"
      <3>1. Served(s) = Enter(s, "WaitForConfirmation1")
        BY <1>2, <2>1 DEF Served
      <3> QED
        BY <2>0, <2>1, <3>1, EnterIs DEF ClientStates
    <2>2. CASE s.state[s.client] = "WaitForConfirmation1"
      <3>1. CASE s.request >= RESPONSE_TIMEOUT1
        <4>1. Served(s) = Enter(s, "WaitForConfirmation2")
          BY <1>2, <2>2, <3>1 DEF Served
        <4>2. s.request # 0
          BY <3>1, PanelBounds
        <4> QED
          BY <2>0, <2>2, <4>1, <4>2, EnterIs DEF ClientStates, Asked
      <3>2. CASE ~(s.request >= RESPONSE_TIMEOUT1)
        <4>1. Served(s) = s
          BY <1>2, <2>2, <3>2 DEF Served
        <4> QED
          BY <2>2, <4>1 DEF Keeps, Asked
      <3> QED
        BY <3>1, <3>2
    <2>3. CASE s.state[s.client] = "WaitForConfirmation2"
      <3>1. CASE s.request >= RESPONSE_TIMEOUT2
        <4> DEFINE t == [s EXCEPT !.state[s.client] = "Init"]
        <4>1. Served(s) = [t EXCEPT !.client = GetUnconfirmedClient(t)]
          BY <1>2, <2>3, <3>1 DEF Served
        <4>2. t \in Switches /\ t.client = s.client /\ Keeps(s, t)
          BY <2>0 DEF Switches, ClientStates, Keeps
        <4>3. GetUnconfirmedClient(t) \in Client \union {NoClient}
          BY <2>0, <4>2, UnconfirmedIs
        <4>4. Keeps(s, [t EXCEPT !.client = GetUnconfirmedClient(t)])
          <5> HIDE DEF t
          <5> QED
            BY <4>2, <4>3 DEF Keeps, Switches
        <4> QED
          BY <2>3, <4>1, <4>4 DEF Asked
      <3>2. CASE ~(s.request >= RESPONSE_TIMEOUT2)
        <4>1. Served(s) = s
          BY <1>2, <2>3, <3>2 DEF Served
        <4> QED
          BY <2>3, <4>1 DEF Keeps, Asked
      <3> QED
        BY <3>1, <3>2
    <2>4. CASE s.state[s.client] \in {"Skip", "ConfirmationOK"}
      <3>1. Served(s) = s
        BY <1>2, <2>4 DEF Served
      <3> QED
        BY <2>4, <3>1 DEF Keeps, Asked
    <2> QED
      BY <2>0, <2>1, <2>2, <2>3, <2>4 DEF ClientStates
  <1> QED
    BY <1>1, <1>2

-----------------------------------------------------------------------------
(* A send buffer in a step: at most the first telegram is gone, and at most *)
(* one is new.                                                              *)
Queued(u, s, e, drop) ==
  \A k \in DOMAIN u :
    \/ k + drop \in DOMAIN s /\ u[k] = s[k + drop]
    \/ k = (Len(s) - drop) + 1 /\ Len(e) = 1 /\ u[k] = e[1]

LEMMA QueueIs ==
  ASSUME NEW S, NEW s \in Seq(S), NEW e \in Seq(S), Len(e) <= 1, NEW drop \in {0, 1}, drop <= Len(s),
         NEW u, u = (IF drop = 1 THEN Tail(s) ELSE s) \o e
  PROVE  u \in Seq(S) /\ Queued(u, s, e, drop)
  <1>1. PICK b : b = IF drop = 1 THEN Tail(s) ELSE s
    OBVIOUS
  <1>2. b \in Seq(S) /\ Len(b) = Len(s) - drop /\ \A k \in 1 .. Len(b) : k + drop \in 1 .. Len(s) /\ b[k] = s[k + drop]
    <2>1. CASE drop = 1
      <3>1. s # <<>> /\ b = Tail(s)
        BY <1>1, <2>1
      <3>2. Tail(s) \in Seq(S) /\ Len(Tail(s)) = Len(s) - 1 /\ \A k \in 1 .. Len(Tail(s)) : Tail(s)[k] = s[k + 1]
        BY <3>1, HeadTailProperties
      <3> QED
        BY <2>1, <3>1, <3>2
    <2>2. CASE drop = 0
      BY <1>1, <2>2
    <2> QED
      BY <2>1, <2>2
  <1>3. u = b \o e
    BY <1>1
  <1>4. /\ u \in Seq(S) /\ Len(u) = Len(b) + Len(e)
        /\ \A k \in 1 .. Len(u) : u[k] = IF k <= Len(b) THEN b[k] ELSE e[k - Len(b)]
    BY <1>2, <1>3, ConcatProperties
  <1>5. ASSUME NEW k \in DOMAIN u
        PROVE  \/ k + drop \in DOMAIN s /\ u[k] = s[k + drop]
               \/ k = (Len(s) - drop) + 1 /\ Len(e) = 1 /\ u[k] = e[1]
    <2>1. k \in 1 .. Len(u) /\ DOMAIN s = 1 .. Len(s) /\ Len(b) \in Nat /\ Len(e) \in Nat
      BY <1>2, <1>4
    <2>2. CASE k <= Len(b)
      <3>1. k \in 1 .. Len(b) /\ u[k] = b[k]
        BY <1>4, <2>1, <2>2
      <3> QED
        BY <1>2, <2>1, <3>1
    <2>3. CASE ~(k <= Len(b))
      <3>1. k = Len(b) + 1 /\ Len(e) = 1 /\ k - Len(b) = 1
        <4>1. PICK p, q : p = Len(b) /\ q = Len(e)
          OBVIOUS
        <4>2. p \in Nat /\ q \in Nat /\ q <= 1 /\ k \in 1 .. p + q /\ ~(k <= p)
          BY <1>4, <2>1, <2>3, <4>1
        <4>3. k = p + 1 /\ q = 1 /\ k - p = 1
          BY <4>2
        <4> QED
          BY <4>1, <4>3
      <3> QED
        BY <1>2, <1>4, <2>1, <2>3, <3>1
    <2> QED
      BY <2>2, <2>3
  <1> QED
    BY <1>4, <1>5 DEF Queued

(* In the buffers of y, what is under way of n only moves. *)
Moved(n, y) ==
  /\ \A k \in Nat : Lies(n, y, k)' => \E l \in Nat : Lies(n, y, l) /\ Lying(y, k)' = Lying(y, l)
  /\ \A k, l \in Nat : Lies(n, y, k)' /\ Lies(n, y, l)' => k = l

LEMMA Moves ==
  ASSUME NEW n \in Node, NEW y \in Address, Single(n), NEW drop \in {0, 1}, Len(out[y]) \in Nat,
         DOMAIN out[y] = 1 .. Len(out[y]), DOMAIN out'[y] \subseteq Nat,
         \A k \in DOMAIN out'[y] :
           \/ k + drop \in DOMAIN out[y] /\ out'[y][k] = out[y][k + drop]
           \/ /\ k = (Len(out[y]) - drop) + 1
              /\ Concerns(out'[y][k], n) => /\ Lies(n, y, 0) /\ ~Lies(n, y, 0)'
                                            /\ out'[y][k] = do31[y].retry,
         Lies(n, y, 0)' => Lies(n, y, 0) /\ do31'[y].retry = do31[y].retry
  PROVE  Moved(n, y)
  <1> DEFINE Came(k, l) == /\ Lies(n, y, l) /\ Lying(y, k)' = Lying(y, l)
                           /\ \/ k = 0 /\ l = 0
                              \/ k # 0 /\ l = k + drop
                              \/ k = (Len(out[y]) - drop) + 1 /\ l = 0 /\ ~Lies(n, y, 0)'
  <1>1. ASSUME NEW k \in Nat, Lies(n, y, k)' PROVE \E l \in Nat : Came(k, l)
    <2>1. CASE k = 0
      <3>1. Came(0, 0)
        BY <1>1, <2>1 DEF Lying
      <3> QED
        BY <2>1, <3>1
    <2>2. CASE k # 0
      <3>1. k \in DOMAIN out'[y] /\ Concerns(out'[y][k], n)
        BY <1>1, <2>2 DEF Lies
      <3>2. CASE k + drop \in DOMAIN out[y] /\ out'[y][k] = out[y][k + drop]
        <4>1. k + drop \in Nat /\ k + drop # 0
          BY <2>2
        <4>2. Came(k, k + drop)
          BY <2>2, <3>1, <3>2, <4>1 DEF Lies, Lying
        <4> QED
          BY <4>1, <4>2
      <3>3. CASE k = (Len(out[y]) - drop) + 1 /\ Lies(n, y, 0) /\ ~Lies(n, y, 0)' /\ out'[y][k] = do31[y].retry
        <4>1. Came(k, 0)
          BY <2>2, <3>3 DEF Lying
        <4> QED
          BY <4>1
      <3> QED
        BY <3>1, <3>2, <3>3
    <2> QED
      BY <2>1, <2>2
  <1>2. ASSUME NEW k \in Nat, NEW l \in Nat, Lies(n, y, k)', Lies(n, y, l)' PROVE k = l
    <2>1. PICK a \in Nat : Came(k, a)
      BY <1>1, <1>2
    <2>2. PICK b \in Nat : Came(l, b)
      BY <1>1, <1>2
    <2>3. a = b
      BY <2>1, <2>2 DEF Single
    <2>4. k = 0 => Lies(n, y, 0)'
      BY <1>2
    <2>5. l = 0 => Lies(n, y, 0)'
      BY <1>2
    <2> QED
      BY <2>1, <2>2, <2>3, <2>4, <2>5
  <1> QED
    BY <1>1, <1>2 DEF Moved

(* Then it is still what the switch waits for. *)
LEMMA StaysUnderWay ==
  ASSUME NEW n \in Node, UnderWay(n), switch'[n] = switch[n], \A y \in Address : Moved(n, y),
         \A y \in Do31 : \A k \in Nat : Lies(n, y, k)' => do31'[y].sw8[n] = do31[y].sw8[n]
  PROVE  UnderWay(n)'
  <1>1. Single(n)'
    BY DEF Moved, UnderWay, Single
  <1>2. ASSUME NEW x \in Address, NEW k \in Nat, Lies(n, x, k)'
        PROVE  Waiting(n)' /\ Current(n, x, Lying(x, k))'
    <2>1. PICK l \in Nat : Lies(n, x, l) /\ Lying(x, k)' = Lying(x, l)
      BY <1>2 DEF Moved
    <2>2. Waiting(n) /\ Current(n, x, Lying(x, l))
      BY <2>1 DEF UnderWay
    <2>3. x \in Do31 => do31'[x].sw8[n] = do31[x].sw8[n]
      BY <1>2
    <2> QED
      BY <2>1, <2>2, <2>3 DEF Waiting, Current
  <1> QED
    BY <1>1, <1>2 DEF UnderWay

(* A buffer that nothing happens to *)
LEMMA StaysMoved ==
  ASSUME Types, NEW n \in Node, Single(n), NEW y \in Address, out'[y] = out[y],
         Lies(n, y, 0)' => Lies(n, y, 0) /\ do31'[y].retry = do31[y].retry
  PROVE  Moved(n, y)
  <1>1. out[y] \in Seq(Telegrams)
    BY DEF Types
  <1>2. \A k \in DOMAIN out'[y] : k + 0 \in DOMAIN out[y] /\ out'[y][k] = out[y][k + 0]
    BY <1>1
  <1> QED
    BY <1>1, <1>2, Moves

LEMMA StaysConfirmed ==
  ASSUME NEW n \in Node, ConfirmedBy(n), switch'[n].state = switch[n].state, switch'[n].actual = switch[n].actual,
         \A d \in Do31 : <<d, n>> \notin forgetful' =>
           <<d, n>> \notin forgetful /\ do31'[d].sw8[n] = do31[d].sw8[n]
  PROVE  ConfirmedBy(n)'
  BY DEF ConfirmedBy

-----------------------------------------------------------------------------
(* ProcessSwitch: when a state is under way nothing is begun; when a request *)
(* is sent, nothing was under way.                                           *)
LEMMA SwitchRuns ==
  ASSUME PanelInv, NEW n \in Node, ProcessSwitch(n)
  PROVE  /\ switch' \in [Node -> Switches] /\ \A m \in Node \ {n} : switch'[m] = switch[m]
         /\ switch'[n].old \subseteq Wired(n) /\ switch'[n].actual \subseteq Wired(n)
         /\ \A i \in Client : switch'[n].state[i] = "ConfirmationOK" =>
              switch[n].state[i] = "ConfirmationOK" /\ switch'[n].actual = switch[n].actual
         /\ \E e \in Seq(Telegrams) :
              /\ out' = [out EXCEPT ![n] = @ \o e]
              /\ \/ e = <<>> /\ (Waiting(n) => switch'[n] = switch[n])
                 \/ /\ ~Waiting(n) /\ Waiting(n)' /\ Len(e) = 1
                    /\ e[1] = Telegram("ReqSwitchState", n, ClientList[switch'[n].client], switch'[n].actual)
  <1> DEFINE b == Before(n)
             s == Changed(b, input[n])
             active == s.client # NoClient /\ s.change < RETRY_TIMEOUT2
             t == IF active THEN Advanced(s) ELSE GivenUp(s)
             r == Idle(Served(t))
  <1>1. /\ switch' = [switch EXCEPT ![n] = r] /\ out' = [out EXCEPT ![n] = @ \o Request(n, t)]
        /\ UNCHANGED <<inputType, input>>
    BY DEF ProcessSwitch
  <1>2. /\ switch[n] \in Switches /\ input[n] \in SUBSET Numbers /\ Wired(n) \in SUBSET Numbers
        /\ input[n] \subseteq Wired(n) /\ switch[n].old \subseteq Wired(n) /\ switch[n].actual \subseteq Wired(n)
    BY PanelBounds DEF PanelInv, Types, WiredOnly, Wired
  <1>3. /\ b \in Switches /\ b.started /\ b.old \subseteq Wired(n) /\ b.actual \subseteq Wired(n)
        /\ b = switch[n] \/ (NoneConfirmed(b) /\ ~switch[n].started)
        /\ switch[n].started => b = switch[n]
    <2>1. CASE switch[n].started
      <3>1. b = switch[n]
        BY <2>1 DEF Before
      <3> HIDE DEF b
      <3>2. b.started
        BY <2>1, <3>1, Zenon
      <3>3. b \in Switches /\ b.old \subseteq Wired(n) /\ b.actual \subseteq Wired(n)
        BY <1>2, <3>1, Zenon
      <3> QED
        BY <3>1, <3>2, <3>3
    <2>2. CASE ~switch[n].started
      <3>1. b = [NoSwitch EXCEPT !.started = TRUE, !.old = Wired(n) \ input[n]]
        BY <2>2 DEF Before
      <3>2. NoSwitch \in Switches /\ NoneConfirmed(NoSwitch) /\ NoSwitch.actual = {}
        BY DEF NoSwitch, Switches, ClientStates, NoneConfirmed
      <3>3. Wired(n) \ input[n] \in SUBSET Numbers
        BY <1>2
      <3> QED
        BY <2>2, <3>1, <3>2, <3>3 DEF Switches, NoneConfirmed
    <2> QED
      BY <2>1, <2>2
  <1>4. /\ s \in Switches /\ s.started
        /\ \/ s = b
           \/ /\ ~Inhibited(b) /\ s.client \in Client /\ NoneConfirmed(s)
              /\ s.old = input[n] /\ s.actual = input[n] /\ s.change = 0
    <2> HIDE DEF b
    <2> QED
      BY <1>2, <1>3, ChangedIs
  <1>5. s.client = NoClient \/ s.client \in Client
    BY <1>4 DEF Switches
  <1>6. /\ Keeps(s, t)
        /\ t.client # NoClient => active /\ t.change = s.change
        /\ active /\ s.state[s.client] # "ConfirmationOK" => t = s
    <2> HIDE DEF s
    <2>1. CASE active
      <3>1. t = Advanced(s) /\ s.client \in Client
        BY <1>5, <2>1
      <3> HIDE DEF active, t
      <3> QED
        BY <1>4, <2>1, <3>1, AdvancedIs
    <2>2. CASE ~active
      <3>1. t = GivenUp(s)
        BY <2>2
      <3> HIDE DEF active, t
      <3> QED
        BY <1>4, <2>2, <3>1, GivenUpIs
    <2> QED
      BY <2>1, <2>2
  <1> HIDE DEF t
  <1>7. t \in Switches
    BY <1>6 DEF Keeps
  <1>8. Keeps(t, Served(t)) /\ Served(t) \in Switches
    BY <1>7, ServedIs DEF Keeps
  <1>9. Keeps(Served(t), r) /\ (Served(t).client # NoClient => r = Served(t))
    BY <1>8, IdleIs
  <1> HIDE DEF r
  <1>10. Keeps(s, r)
    BY <1>6, <1>8, <1>9 DEF Keeps
  <1> HIDE DEF s, b
  <1>11. r \in Switches /\ r.started /\ r.old = s.old /\ r.actual = s.actual
    BY <1>4, <1>10 DEF Keeps
  <1>12. switch'[n] = r /\ switch' \in [Node -> Switches] /\ \A m \in Node \ {n} : switch'[m] = switch[m]
    BY <1>1, <1>11 DEF PanelInv, Types
  <1>13. switch'[n].old \subseteq Wired(n) /\ switch'[n].actual \subseteq Wired(n)
    BY <1>2, <1>3, <1>4, <1>11, <1>12
  <1>14. ASSUME NEW i \in Client, r.state[i] = "ConfirmationOK"
         PROVE  switch[n].state[i] = "ConfirmationOK" /\ r.actual = switch[n].actual
    <2>1. s.state[i] = "ConfirmationOK"
      BY <1>10, <1>14 DEF Keeps
    <2>2. s = b
      BY <1>4, <2>1 DEF NoneConfirmed
    <2>3. b = switch[n]
      BY <1>3, <2>1, <2>2 DEF NoneConfirmed
    <2> QED
      BY <1>11, <2>1, <2>2, <2>3
  <1>15. Waiting(n) => s = switch[n] /\ active /\ t = s /\ r = s /\ ~Asked(t)
    <2> SUFFICES ASSUME Waiting(n) PROVE s = switch[n] /\ active /\ t = s /\ r = s /\ ~Asked(t)
      OBVIOUS
    <2>1. b = switch[n]
      BY <1>3 DEF Waiting
    <2>2. Inhibited(b)
      BY <2>1 DEF Waiting, Inhibited
    <2>3. s = switch[n]
      BY <1>4, <2>1, <2>2
    <2>4. active
      BY <2>3 DEF Waiting
    <2>5. t = s
      BY <1>6, <2>3, <2>4 DEF Waiting
    <2>6. Served(t) = t
      BY <1>7, <2>3, <2>5, ServedIs DEF Waiting
    <2>7. r = Served(t)
      BY <1>9, <2>3, <2>5, <2>6 DEF Waiting
    <2> QED
      BY <2>3, <2>4, <2>5, <2>6, <2>7 DEF Waiting, Asked
  <1>16. ASSUME Asked(t)
         PROVE  r = Enter(t, "WaitForConfirmation1") /\ r.client = t.client /\ r.client \in Client /\ Waiting(n)'
                /\ r.actual = t.actual
    <2>1. t.client \in Client /\ t.client # NoClient
      BY <1>7, <1>16 DEF Asked, Switches
    <2>2. Served(t) = Enter(t, "WaitForConfirmation1")
      BY <1>7, <1>16, ServedIs
    <2>3. /\ Served(t).client = t.client /\ Served(t).change = t.change /\ Served(t).request = 0
          /\ Served(t).state[t.client] = "WaitForConfirmation1" /\ Served(t).actual = t.actual
      BY <1>7, <2>1, <2>2, EnterIs DEF ClientStates, Keeps
    <2>4. r = Served(t)
      BY <1>9, <2>1, <2>3
    <2>5. t.change < RETRY_TIMEOUT2
      BY <1>6, <2>1
    <2> QED
      BY <1>11, <1>12, <2>1, <2>2, <2>3, <2>4, <2>5 DEF Waiting
  <1>17. \E e \in Seq(Telegrams) :
              /\ out' = [out EXCEPT ![n] = @ \o e]
              /\ \/ e = <<>> /\ (Waiting(n) => switch'[n] = switch[n])
                 \/ /\ ~Waiting(n) /\ Waiting(n)' /\ Len(e) = 1
                    /\ e[1] = Telegram("ReqSwitchState", n, ClientList[switch'[n].client], switch'[n].actual)
    <2>1. CASE Asked(t)
      <3>1. PICK tel : tel = Telegram("ReqSwitchState", n, ClientList[t.client], t.actual)
        OBVIOUS
      <3>2. tel \in Telegrams
        BY <1>7, <1>16, <2>1, <3>1 DEF Telegrams, Telegram, Switches, Address
      <3>3. Request(n, t) = <<tel>>
        BY <2>1, <3>1 DEF Request
      <3>4. <<tel>> \in Seq(Telegrams) /\ Len(<<tel>>) = 1 /\ <<tel>>[1] = tel
        BY <3>2
      <3>5. tel = Telegram("ReqSwitchState", n, ClientList[switch'[n].client], switch'[n].actual)
        BY <1>12, <1>16, <2>1, <3>1
      <3>6. ~Waiting(n) /\ Waiting(n)'
        BY <1>15, <1>16, <2>1
      <3> QED
        BY <1>1, <3>3, <3>4, <3>5, <3>6
    <2>2. CASE ~Asked(t)
      <3>1. Request(n, t) = <<>> /\ <<>> \in Seq(Telegrams)
        BY <2>2 DEF Request
      <3> QED
        BY <1>1, <1>12, <1>15, <3>1
    <2> QED
      BY <2>1, <2>2
  <1> QED
    BY <1>12, <1>13, <1>14, <1>17

(* Where nothing waits, nothing is under way. *)
LEMMA NothingLies ==
  ASSUME NEW n \in Node, UnderWay(n), ~Waiting(n)
  PROVE  \A x \in Address : \A k \in Nat : ~Lies(n, x, k)
  BY DEF UnderWay

LEMMA SwitchStep ==
  ASSUME PanelInv, NEW n \in Node, ProcessSwitch(n)
  PROVE  PanelInv'
  <1>1. PICK e \in Seq(Telegrams) :
          /\ out' = [out EXCEPT ![n] = @ \o e]
          /\ \/ e = <<>> /\ (Waiting(n) => switch'[n] = switch[n])
             \/ /\ ~Waiting(n) /\ Waiting(n)' /\ Len(e) = 1
                /\ e[1] = Telegram("ReqSwitchState", n, ClientList[switch'[n].client], switch'[n].actual)
    BY SwitchRuns
  <1>2. /\ switch' \in [Node -> Switches] /\ \A m \in Node \ {n} : switch'[m] = switch[m]
        /\ switch'[n].old \subseteq Wired(n) /\ switch'[n].actual \subseteq Wired(n)
        /\ \A i \in Client : switch'[n].state[i] = "ConfirmationOK" =>
             switch[n].state[i] = "ConfirmationOK" /\ switch'[n].actual = switch[n].actual
    BY SwitchRuns
  <1>3. ran' = ran \union {n} /\ UNCHANGED <<inputType, input, sequence, do31, forgetful>>
    BY DEF ProcessSwitch, observed
  <1>4. Types /\ n \in Address /\ out[n] \in Seq(Telegrams)
    BY DEF PanelInv, Types, Address
  <1>5. /\ out'[n] = out[n] \o e /\ out'[n] \in Seq(Telegrams) /\ out' \in [Address -> Seq(Telegrams)]
        /\ \A y \in Address \ {n} : out'[y] = out[y]
    BY <1>1, <1>4 DEF Types
  <1>6. \A k \in DOMAIN out'[n] : \/ k + 0 \in DOMAIN out[n] /\ out'[n][k] = out[n][k + 0]
                                  \/ k = (Len(out[n]) - 0) + 1 /\ Len(e) = 1 /\ out'[n][k] = e[1]
    <2>0. PICK none \in {0, 1} : none = 0
      OBVIOUS
    <2>1. e \in Seq(Telegrams) /\ Len(e) <= 1 /\ none <= Len(out[n])
      <3>1. Len(<<>>) = 0
        OBVIOUS
      <3>0. e \in Seq(Telegrams) /\ (e = <<>> \/ Len(e) = 1)
        BY <1>1
      <3>2. Len(e) <= 1
        <4>1. PICK m : m = Len(e)
          OBVIOUS
        <4>2. m = 0 \/ m = 1
          BY <3>0, <3>1, <4>1, Zenon
        <4>3. m <= 1
          BY <4>2
        <4> QED
          BY <4>1, <4>3
      <3> QED
        BY <1>4, <2>0, <3>0, <3>2
    <2>2. out'[n] = (IF none = 1 THEN Tail(out[n]) ELSE out[n]) \o e
      BY <1>5, <2>0
    <2>3. \A k \in DOMAIN out'[n] :
            \/ k + none \in DOMAIN out[n] /\ out'[n][k] = out[n][k + none]
            \/ k = (Len(out[n]) - none) + 1 /\ Len(e) = 1 /\ out'[n][k] = e[1]
      <3>1. PICK u, q : u = out'[n] /\ q = out[n]
        OBVIOUS
      <3>2. q \in Seq(Telegrams) /\ none <= Len(q) /\ u = (IF none = 1 THEN Tail(q) ELSE q) \o e
        BY <1>4, <2>1, <2>2, <3>1
      <3>3. Queued(u, q, e, none)
        BY <2>0, <2>1, <3>2, QueueIs
      <3> QED
        BY <3>1, <3>3 DEF Queued
    <2> QED
      BY <2>0, <2>3
  <1>7. Types'
    BY <1>2, <1>3, <1>4, <1>5 DEF Types
  <1>8. ASSUME NEW m \in Node PROVE WiredOnly(m)'
    BY <1>2, <1>3 DEF PanelInv, WiredOnly, Wired
  <1>9. ASSUME NEW d \in Do31 PROVE ListRight(do31'[d])
    BY <1>3 DEF PanelInv
  <1>10. ASSUME NEW m \in Node PROVE ConfirmedBy(m)'
    BY <1>2, <1>3 DEF PanelInv, ConfirmedBy
  <1>11. ASSUME NEW m \in Node, m # n \/ e = <<>>, NEW y \in Address PROVE Moved(m, y)
    <2>1. Single(m)
      BY DEF PanelInv, UnderWay
    <2>2. Lies(m, y, 0)' => Lies(m, y, 0) /\ do31'[y].retry = do31[y].retry
      BY <1>3 DEF Lies
    <2>3. CASE y = n
      <3>1. Len(out[y]) \in Nat /\ DOMAIN out[y] = 1 .. Len(out[y]) /\ DOMAIN out'[y] \subseteq Nat
        BY <1>4, <1>5, <2>3
      <3>2. ASSUME Len(e) = 1 PROVE ~Concerns(e[1], m)
        <4>0. e # <<>>
          <5>1. Len(<<>>) # 1
            OBVIOUS
          <5> QED
            BY <3>2, <5>1
        <4>1. m # n
          BY <1>11, <4>0
        <4>2. e[1] = Telegram("ReqSwitchState", n, ClientList[switch'[n].client], switch'[n].actual)
          BY <1>1, <4>0
        <4> QED
          BY <4>1, <4>2 DEF Concerns, Telegram
      <3> QED
        BY <1>6, <2>1, <2>2, <2>3, <3>1, <3>2, Moves
    <2>4. CASE y # n
      BY <1>4, <1>5, <2>1, <2>2, <2>4, StaysMoved
    <2> QED
      BY <2>3, <2>4
  <1>12. ASSUME NEW m \in Node PROVE UnderWay(m)'
    <2>1. UnderWay(m)
      BY DEF PanelInv
    <2>2. CASE m # n \/ (e = <<>> /\ Waiting(n))
      <3>1. switch'[m] = switch[m]
        BY <1>1, <1>2, <2>2
      <3> QED
        BY <1>3, <1>11, <2>1, <2>2, <3>1, StaysUnderWay
    <2>3. CASE m = n /\ e = <<>> /\ ~Waiting(n)
      <3>1. \A x \in Address : \A k \in Nat : ~Lies(n, x, k)
        BY <2>1, <2>3, NothingLies
      <3>2. \A x \in Address : \A k \in Nat : ~Lies(n, x, k)'
        BY <1>11, <2>3, <3>1 DEF Moved
      <3> QED
        BY <2>3, <3>2 DEF UnderWay, Single
    <2>4. CASE m = n /\ e # <<>>
      <3>1. /\ ~Waiting(n) /\ Waiting(n)' /\ Len(e) = 1
            /\ e[1] = Telegram("ReqSwitchState", n, ClientList[switch'[n].client], switch'[n].actual)
        BY <1>1, <2>4
      <3>2. \A x \in Address : \A k \in Nat : ~Lies(n, x, k)
        BY <2>1, <2>4, <3>1, NothingLies
      <3>3. ASSUME NEW x \in Address, NEW k \in Nat, Lies(n, x, k)'
            PROVE  x = n /\ k = (Len(out[n]) - 0) + 1 /\ Lying(x, k)' = e[1]
        <4>1. k # 0
          BY <1>3, <3>2, <3>3 DEF Lies
        <4>2. k \in DOMAIN out'[x] /\ Concerns(out'[x][k], n)
          BY <3>3, <4>1 DEF Lies
        <4>3. x = n
          <5> SUFFICES ASSUME x # n PROVE FALSE
            OBVIOUS
          <5>1. Lies(n, x, k)
            BY <1>5, <4>1, <4>2 DEF Lies
          <5> QED
            BY <3>2, <5>1
        <4>4. ~(k + 0 \in DOMAIN out[n] /\ out'[n][k] = out[n][k + 0])
          <5> SUFFICES ASSUME k + 0 \in DOMAIN out[n] /\ out'[n][k] = out[n][k + 0] PROVE FALSE
            OBVIOUS
          <5>1. Lies(n, n, k)
            BY <4>1, <4>2, <4>3 DEF Lies
          <5> QED
            BY <1>4, <3>2, <5>1
        <4> QED
          BY <1>6, <4>1, <4>2, <4>3, <4>4 DEF Lying
      <3>4. Single(n)'
        BY <3>3 DEF Single
      <3>5. ASSUME NEW x \in Address, NEW k \in Nat, Lies(n, x, k)' PROVE Current(n, x, Lying(x, k))'
        BY <3>1, <3>3, <3>5 DEF Current, Telegram
      <3> QED
        BY <2>4, <3>1, <3>4, <3>5 DEF UnderWay
    <2> QED
      BY <1>1, <2>2, <2>3, <2>4
  <1> QED
    BY <1>7, <1>8, <1>9, <1>10, <1>12 DEF PanelInv

-----------------------------------------------------------------------------
(* The list of active buttons *)
LEMMA ImageIs ==
  ASSUME NEW S, IsFiniteSet(S), NEW f, f = [x \in S |-> f[x]], NEW image, image = {f[x] : x \in S}
  PROVE  IsFiniteSet(image) /\ Cardinality(image) <= Cardinality(S)
  <1>1. f \in Surjection(S, image)
    BY DEF Surjection
  <1> QED
    BY <1>1, FS_Surjection

LEMMA NotedIs ==
  ASSUME NEW list \in Lists, Cardinality(list) <= BUTTON_MAX_NUM_ACTIVE, NEW key \in Node \X Numbers
  PROVE  /\ Noted(list, key) \in Lists /\ Cardinality(Noted(list, key)) <= BUTTON_MAX_NUM_ACTIVE
         /\ Keys(Noted(list, key)) \subseteq Keys(list) \union {key}
  <1>1. CASE IsNew(list, key) /\ Full(list)
    BY <1>1 DEF Noted
  <1>2. CASE ~(IsNew(list, key) /\ Full(list))
    <2> DEFINE others == {e \in list : e.key # key}
    <2>1. Noted(list, key) = others \union {Entry(key, 0)}
      BY <1>2 DEF Noted
    <2>2. IsFiniteSet(list) /\ list \in SUBSET [key : Node \X Numbers, age : Nat]
      BY DEF Lists
    <2>3. others \in SUBSET list
      OBVIOUS
    <2>4. Entry(key, 0) \in [key : Node \X Numbers, age : Nat] /\ Entry(key, 0).key = key
      BY DEF Entry
    <2>5. Cardinality(others) < BUTTON_MAX_NUM_ACTIVE
      <3>1. CASE IsNew(list, key)
        <4>1. others = list
          BY <3>1 DEF IsNew, Keys
        <4>2. ~(Cardinality(list) >= BUTTON_MAX_NUM_ACTIVE) /\ Cardinality(list) \in Nat
          BY <1>2, <2>2, <3>1, FS_CardinalityType DEF Full
        <4> QED
          BY <4>1, <4>2, PanelBounds
      <3>2. CASE ~IsNew(list, key)
        <4>1. PICK e \in list : e.key = key
          BY <3>2 DEF IsNew, Keys
        <4>2. others \in SUBSET (list \ {e})
          BY <4>1
        <4>3. IsFiniteSet(list \ {e}) /\ Cardinality(list \ {e}) = Cardinality(list) - 1
          BY <2>2, <4>1, FS_RemoveElement
        <4>4. Cardinality(others) <= Cardinality(list \ {e}) /\ IsFiniteSet(others)
          BY <4>2, <4>3, FS_Subset
        <4>5. Cardinality(others) \in Nat /\ Cardinality(list) \in Nat
          BY <2>2, <4>4, FS_CardinalityType
        <4> HIDE DEF others
        <4> QED
          BY <4>3, <4>4, <4>5, PanelBounds
      <3> QED
        BY <3>1, <3>2
    <2>6. IsFiniteSet(others)
      BY <2>2, <2>3, FS_Subset
    <2>7. Cardinality(others) \in Nat
      BY <2>6, FS_CardinalityType
    <2>8. /\ IsFiniteSet(others \union {Entry(key, 0)})
          /\ Cardinality(others \union {Entry(key, 0)})
               = IF Entry(key, 0) \in others THEN Cardinality(others) ELSE Cardinality(others) + 1
      BY <2>6, FS_AddElement
    <2>9. Cardinality(others \union {Entry(key, 0)}) <= BUTTON_MAX_NUM_ACTIVE
      <3> HIDE DEF others
      <3>1. PICK c, m : c = Cardinality(others) /\ m = Cardinality(others \union {Entry(key, 0)})
        OBVIOUS
      <3>2. c \in Nat /\ c < BUTTON_MAX_NUM_ACTIVE /\ (m = c \/ m = c + 1)
        BY <2>5, <2>7, <2>8, <3>1
      <3> QED
        BY <3>1, <3>2, PanelBounds
    <2>10. Noted(list, key) \in Lists
      <3>1. others \union {Entry(key, 0)} \in SUBSET [key : Node \X Numbers, age : Nat]
        BY <2>2, <2>3, <2>4
      <3> QED
        BY <2>1, <2>8, <3>1 DEF Lists
    <2>11. Keys(Noted(list, key)) \subseteq Keys(list) \union {key}
      <3>1. \A e \in others \union {Entry(key, 0)} : e \in list \/ e.key = key
        BY <2>3, <2>4
      <3> QED
        BY <2>1, <3>1 DEF Keys
    <2> QED
      BY <2>1, <2>9, <2>10, <2>11
  <1> QED
    BY <1>1, <1>2

LEMMA EnteredIs ==
  ASSUME NEW list \in Lists, Cardinality(list) <= BUTTON_MAX_NUM_ACTIVE, NEW n \in Node, NEW state \in SUBSET Numbers
  PROVE  /\ Entered(list, n, state) \in Lists /\ Cardinality(Entered(list, n, state)) <= BUTTON_MAX_NUM_ACTIVE
         /\ Keys(Entered(list, n, state)) \subseteq Keys(list) \union {<<n, k>> : k \in state}
  <1> DEFINE first == IF 1 \in state THEN Noted(list, <<n, 1>>) ELSE list
             told == {<<n, k>> : k \in state}
  <1>1. <<n, 1>> \in Node \X Numbers /\ <<n, 2>> \in Node \X Numbers
    BY DEF Numbers
  <1>2. /\ first \in Lists /\ Cardinality(first) <= BUTTON_MAX_NUM_ACTIVE
        /\ Keys(first) \subseteq Keys(list) \union told
    <2>1. CASE 1 \in state
      <3>1. <<n, 1>> \in told /\ first = Noted(list, <<n, 1>>)
        BY <2>1
      <3> HIDE DEF told, first
      <3> QED
        BY <1>1, <3>1, NotedIs
    <2>2. CASE 1 \notin state
      BY <2>2
    <2> QED
      BY <2>1, <2>2
  <1>3. Entered(list, n, state) = IF 2 \in state THEN Noted(first, <<n, 2>>) ELSE first
    BY DEF Entered
  <1>4. CASE 2 \in state
    <2>1. <<n, 2>> \in told /\ Entered(list, n, state) = Noted(first, <<n, 2>>)
      BY <1>3, <1>4
    <2> HIDE DEF told, first
    <2>2. /\ Noted(first, <<n, 2>>) \in Lists /\ Cardinality(Noted(first, <<n, 2>>)) <= BUTTON_MAX_NUM_ACTIVE
          /\ Keys(Noted(first, <<n, 2>>)) \subseteq Keys(first) \union {<<n, 2>>}
      BY <1>1, <1>2, NotedIs
    <2>3. Keys(Entered(list, n, state)) \subseteq Keys(list) \union told
      BY <1>2, <2>1, <2>2
    <2> QED
      BY <2>1, <2>2, <2>3 DEF told
  <1>5. CASE 2 \notin state
    BY <1>2, <1>3, <1>5
  <1> QED
    BY <1>4, <1>5

LEMMA RefreshedIs ==
  ASSUME NEW list \in Lists
  PROVE  /\ Refreshed(list) \in Lists /\ Cardinality(Refreshed(list)) <= Cardinality(list)
         /\ Keys(Refreshed(list)) = Keys(list)
  <1> DEFINE f == [e \in list |-> Entry(e.key, 0)]
  <1>1. f \in [list -> [key : Node \X Numbers, age : Nat]] /\ IsFiniteSet(list)
    BY DEF Lists, Entry
  <1>2. Refreshed(list) = {f[e] : e \in list} /\ f = [e \in list |-> f[e]]
    BY DEF Refreshed
  <1>3. IsFiniteSet(Refreshed(list)) /\ Cardinality(Refreshed(list)) <= Cardinality(list)
    <2> HIDE DEF f
    <2> QED
      BY <1>1, <1>2, ImageIs
  <1>4. Refreshed(list) \in SUBSET [key : Node \X Numbers, age : Nat]
    BY <1>1, <1>2
  <1>5. Keys(Refreshed(list)) = Keys(list)
    <2>1. \A e \in list : f[e] \in Refreshed(list) /\ f[e].key = e.key
      BY <1>2 DEF Entry
    <2>2. \A g \in Refreshed(list) : \E e \in list : g = f[e]
      BY <1>2
    <2> HIDE DEF f
    <2> QED
      BY <2>1, <2>2 DEF Keys
  <1> QED
    BY <1>3, <1>4, <1>5 DEF Lists

LEMMA AgedIs ==
  ASSUME NEW list \in Lists
  PROVE  /\ Aged(list) \in Lists /\ Cardinality(Aged(list)) <= Cardinality(list)
         /\ Keys(Aged(list)) = Keys(list)
  <1> DEFINE f == [e \in list |-> Entry(e.key, e.age + 1)]
  <1>1. f \in [list -> [key : Node \X Numbers, age : Nat]] /\ IsFiniteSet(list)
    BY DEF Lists, Entry
  <1>2. Aged(list) = {f[e] : e \in list} /\ f = [e \in list |-> f[e]]
    BY DEF Aged
  <1>3. IsFiniteSet(Aged(list)) /\ Cardinality(Aged(list)) <= Cardinality(list)
    <2> HIDE DEF f
    <2> QED
      BY <1>1, <1>2, ImageIs
  <1>4. Aged(list) \in SUBSET [key : Node \X Numbers, age : Nat]
    BY <1>1, <1>2
  <1>5. Keys(Aged(list)) = Keys(list)
    <2>1. \A e \in list : f[e] \in Aged(list) /\ f[e].key = e.key
      BY <1>2 DEF Entry
    <2>2. \A g \in Aged(list) : \E e \in list : g = f[e]
      BY <1>2
    <2> HIDE DEF f
    <2> QED
      BY <2>1, <2>2 DEF Keys
  <1> QED
    BY <1>3, <1>4, <1>5 DEF Lists

LEMMA ReleasedIs ==
  ASSUME NEW list \in Lists, NEW key
  PROVE  /\ Released(list, key) \in Lists /\ Cardinality(Released(list, key)) <= Cardinality(list)
         /\ Keys(Released(list, key)) = Keys(list) \ {key}
  <1>1. Released(list, key) \in SUBSET list /\ IsFiniteSet(list) /\ list \in SUBSET [key : Node \X Numbers, age : Nat]
    BY DEF Released, Lists
  <1>2. IsFiniteSet(Released(list, key)) /\ Cardinality(Released(list, key)) <= Cardinality(list)
    BY <1>1, FS_Subset
  <1>3. Keys(Released(list, key)) = Keys(list) \ {key}
    BY DEF Keys, Released
  <1> QED
    BY <1>1, <1>2, <1>3 DEF Lists

LEMMA ToldIs ==
  ASSUME NEW r \in Receivers, ListRight(r), NEW n \in Node, NEW state \in SUBSET Numbers
  PROVE  /\ Told(r, n, state) \in Receivers /\ ListRight(Told(r, n, state))
         /\ Told(r, n, state).sw8 = r.sw8
  <1> DEFINE keys == {<<n, k>> : k \in state}
             list == Entered(r.list, n, state)
  <1>1. list \in Lists /\ Cardinality(list) <= BUTTON_MAX_NUM_ACTIVE /\ Keys(list) \subseteq Keys(r.list) \union keys
    <2>1. r.list \in Lists /\ Cardinality(r.list) <= BUTTON_MAX_NUM_ACTIVE
      BY DEF Receivers, ListRight
    <2> QED
      BY <2>1, EnteredIs
  <1>2. keys \in SUBSET (Node \X Numbers)
    OBVIOUS
  <1>3. Told(r, n, state) = [r EXCEPT !.list = list, !.pressed = @ \union keys,
                                      !.unlisted = (@ \union keys) \ Keys(list)]
    BY DEF Told
  <1> HIDE DEF keys, list
  <1>4. /\ Told(r, n, state).sw8 = r.sw8 /\ Told(r, n, state).retry = r.retry
        /\ Told(r, n, state).list = list /\ Told(r, n, state).pressed = r.pressed \union keys
        /\ Told(r, n, state).unlisted = (r.unlisted \union keys) \ Keys(list)
    BY <1>3 DEF Receivers
  <1>5. Told(r, n, state) \in Receivers
    <2>1. /\ r.pressed \union keys \in SUBSET (Node \X Numbers)
          /\ (r.unlisted \union keys) \ Keys(list) \in SUBSET (Node \X Numbers)
      BY <1>2 DEF Receivers
    <2> QED
      BY <1>1, <1>3, <2>1 DEF Receivers
  <1> QED
    BY <1>1, <1>4, <1>5 DEF ListRight

-----------------------------------------------------------------------------
(* The bus: what a DO31 answers and remembers, and what a switch confirms. *)
LEMMA AnswerIs ==
  ASSUME Types, NEW d \in Do31, NEW t \in Telegrams
  PROVE  /\ Answer(d, t) \in Telegrams \union {None}
         /\ do31[d].retry # None => Answer(d, t) = do31[d].retry
         /\ do31[d].retry = None =>
              IF t.type = "ReqSwitchState" /\ t.to = d
              THEN Answer(d, t) = Telegram("RespSwitchState", d, t.from, t.state) ELSE Answer(d, t) = None
  <1>1. do31[d].retry \in Telegrams \union {None}
    BY DEF Types, Receivers
  <1>2. t.from \in Address /\ t.state \in SUBSET Numbers /\ d \in Address
    BY DEF Telegrams, Address
  <1>3. Telegram("RespSwitchState", d, t.from, t.state) \in Telegrams
    BY <1>2 DEF Telegrams, Telegram
  <1> QED
    BY <1>1, <1>3 DEF Answer

LEMMA HeardIs ==
  ASSUME Types, NEW d \in Do31, ListRight(do31[d]), NEW t \in Telegrams
  PROVE  /\ Heard(d, t) \in Receivers /\ ListRight(Heard(d, t))
         /\ \A n \in Node : Heard(d, t).sw8[n] =
              IF do31[d].retry = None /\ t.type = "ReqSwitchState" /\ t.to = d /\ t.from = n
              THEN t.state ELSE do31[d].sw8[n]
  <1> DEFINE r == do31[d]
  <1>1. r \in Receivers
    BY DEF Types
  <1>2. /\ t.type \in {"ReqSwitchState", "RespSwitchState", "ButtonPressed", "Garbled"}
        /\ t.state \in SUBSET Numbers
        /\ t.type \in {"ReqSwitchState", "ButtonPressed"} => t.from \in Node
    BY DEF Telegrams
  <1>3. CASE r.retry # None
    <2>1. Heard(d, t) = r
      BY <1>3 DEF Heard
    <2> QED
      BY <1>1, <1>3, <2>1
  <1>4. CASE r.retry = None /\ t.type = "Garbled"
    <2>1. Heard(d, t) = [r EXCEPT !.list = Refreshed(@)]
      BY <1>4 DEF Heard
    <2>2. r.list \in Lists
      BY <1>1 DEF Receivers
    <2>3. Refreshed(r.list) \in Lists /\ Cardinality(Refreshed(r.list)) <= Cardinality(r.list)
          /\ Keys(Refreshed(r.list)) = Keys(r.list)
      BY <2>2, RefreshedIs
    <2>4. /\ Heard(d, t) \in Receivers /\ Heard(d, t).list = Refreshed(r.list) /\ Heard(d, t).sw8 = r.sw8
          /\ Heard(d, t).pressed = r.pressed /\ Heard(d, t).unlisted = r.unlisted
      BY <1>1, <2>1, <2>3 DEF Receivers
    <2>5. Cardinality(Refreshed(r.list)) <= BUTTON_MAX_NUM_ACTIVE
      <3>1. IsFiniteSet(r.list) /\ IsFiniteSet(Refreshed(r.list))
        BY <2>2, <2>3 DEF Lists
      <3>2. Cardinality(r.list) \in Nat /\ Cardinality(Refreshed(r.list)) \in Nat
        BY <3>1, FS_CardinalityType
      <3>3. Cardinality(r.list) <= BUTTON_MAX_NUM_ACTIVE
        BY DEF ListRight
      <3> QED
        BY <2>3, <3>2, <3>3, PanelBounds
    <2> QED
      BY <1>4, <2>3, <2>4, <2>5 DEF ListRight
  <1>5. CASE r.retry = None /\ t.type = "ButtonPressed"
    <2>1. Heard(d, t) = Told(r, t.from, t.state)
      BY <1>5 DEF Heard
    <2> QED
      BY <1>1, <1>2, <1>5, <2>1, ToldIs
  <1>6. CASE r.retry = None /\ t.type = "ReqSwitchState" /\ t.to = d
    <2>1. Heard(d, t) = [r EXCEPT !.sw8[t.from] = t.state]
      BY <1>6 DEF Heard
    <2>2. /\ Heard(d, t) \in Receivers /\ Heard(d, t).list = r.list /\ Heard(d, t).pressed = r.pressed
          /\ Heard(d, t).unlisted = r.unlisted
          /\ \A n \in Node : Heard(d, t).sw8[n] = IF t.from = n THEN t.state ELSE r.sw8[n]
      BY <1>1, <1>2, <1>6, <2>1 DEF Receivers
    <2> QED
      BY <1>6, <2>2 DEF ListRight
  <1>7. CASE r.retry = None /\ t.type \in {"ReqSwitchState", "RespSwitchState"}
             /\ ~(t.type = "ReqSwitchState" /\ t.to = d)
    <2>1. Heard(d, t) = r
      BY <1>7 DEF Heard
    <2> QED
      BY <1>1, <1>7, <2>1
  <1> QED
    BY <1>2, <1>3, <1>4, <1>5, <1>6, <1>7

LEMMA ConfirmationIs ==
  ASSUME NEW s \in Switches, NEW t
  PROVE  LET c == Confirmation(s, t) IN
         /\ c \in Switches /\ c.old = s.old /\ c.actual = s.actual
         /\ \A i \in Client : c.state[i] = "ConfirmationOK" =>
              s.state[i] = "ConfirmationOK" \/ (ClientList[i] = t.from /\ t.state = s.actual)
  <1> DEFINE fitting == {i \in Client : Confirms(s, t, i)}
  <1>1. CASE fitting = {}
    BY <1>1 DEF Confirmation
  <1>2. CASE fitting # {}
    <2>1. PICK f : f = CHOOSE i \in fitting : \A j \in fitting : i <= j
      OBVIOUS
    <2>2. Confirmation(s, t) = [s EXCEPT !.state[f] = "ConfirmationOK"]
      BY <1>2, <2>1 DEF Confirmation
    <2>3. f \in Client /\ Confirms(s, t, f)
      <3>1. fitting \in SUBSET Client
        OBVIOUS
      <3>2. f \in fitting
        <4> HIDE DEF fitting
        <4> QED
          BY <1>2, <2>1, <3>1, FirstClient
      <3> QED
        BY <3>2
    <2> QED
      BY <2>2, <2>3 DEF Switches, Confirms, ClientStates
  <1> QED
    BY <1>1, <1>2

(* The buffer of y after a telegram of x: without the telegram, and with what *)
(* y answers.                                                                 *)
LEMMA BroadcastBuffers ==
  ASSUME Types, NEW x \in Address, out[x] # <<>>, NEW t \in Telegrams, NEW refusing \in SUBSET Do31,
         Broadcast(x, t, refusing), NEW y \in Address, NEW drop \in {0, 1}, drop = 1 <=> y = x
  PROVE  /\ out'[y] \in Seq(Telegrams) /\ Len(out[y]) \in Nat /\ DOMAIN out[y] = 1 .. Len(out[y])
         /\ \A k \in DOMAIN out'[y] :
              \/ k + drop \in DOMAIN out[y] /\ out'[y][k] = out[y][k + drop]
              \/ /\ k = (Len(out[y]) - drop) + 1 /\ y \in Do31 \ refusing
                 /\ out'[y][k] = Answer(y, t) /\ Answer(y, t) # None
  <1>1. PICK e : e = IF y \in Do31 \ refusing /\ Answer(y, t) # None THEN <<Answer(y, t)>> ELSE <<>>
    OBVIOUS
  <1>2. PICK q : q = out[y]
    OBVIOUS
  <1>3. q \in Seq(Telegrams) /\ DOMAIN out = Address
    BY <1>2 DEF Types
  <1>4. PICK u : u = (IF drop = 1 THEN Tail(q) ELSE q) \o e
    OBVIOUS
  <1>5. out'[y] = u
    <2>1. out'[y] = (IF y = x THEN Tail(out[y]) ELSE out[y])
                      \o (IF y \in Do31 \ refusing /\ Answer(y, t) # None THEN <<Answer(y, t)>> ELSE <<>>)
      BY <1>3 DEF Broadcast
    <2> QED
      BY <1>1, <1>2, <1>4, <2>1
  <1>6. /\ e \in Seq(Telegrams) /\ Len(e) <= 1
        /\ Len(e) = 1 => y \in Do31 \ refusing /\ Answer(y, t) # None /\ e[1] = Answer(y, t)
    <2>1. CASE y \in Do31 \ refusing /\ Answer(y, t) # None
      <3>1. PICK a : a = Answer(y, t)
        OBVIOUS
      <3>2. a \in Telegrams
        BY <2>1, <3>1, AnswerIs
      <3>3. e = <<a>>
        BY <1>1, <2>1, <3>1
      <3> QED
        BY <2>1, <3>1, <3>2, <3>3
    <2>2. CASE ~(y \in Do31 \ refusing /\ Answer(y, t) # None)
      <3>1. e = <<>>
        BY <1>1, <2>2
      <3>2. Len(<<>>) = 0 /\ <<>> \in Seq(Telegrams)
        OBVIOUS
      <3> QED
        BY <3>1, <3>2
    <2> QED
      BY <2>1, <2>2
  <1>7. drop <= Len(q)
    BY <1>2, <1>3
  <1>8. u \in Seq(Telegrams) /\ Queued(u, q, e, drop)
    <2>1. e \in Seq(Telegrams) /\ Len(e) <= 1
      BY <1>6
    <2> QED
      BY <1>3, <1>4, <1>7, <2>1, QueueIs
  <1>9. Len(q) \in Nat /\ DOMAIN q = 1 .. Len(q)
    BY <1>3
  <1> QED
    BY <1>2, <1>5, <1>6, <1>8, <1>9 DEF Queued

(* What the DO31s are after it *)
Received(t, refusing) ==
  /\ do31' \in [Do31 -> Receivers]
  /\ \A d \in Do31 :
       /\ ListRight(do31'[d])
       /\ do31'[d].retry = IF d \in refusing THEN Answer(d, t) ELSE None
       /\ \A n \in Node : do31'[d].sw8[n] =
            IF do31[d].retry = None /\ t.type = "ReqSwitchState" /\ t.to = d /\ t.from = n
            THEN t.state ELSE do31[d].sw8[n]

LEMMA BroadcastReceivers ==
  ASSUME Types, \A d \in Do31 : ListRight(do31[d]), NEW x, NEW t \in Telegrams, NEW refusing \in SUBSET Do31,
         Broadcast(x, t, refusing)
  PROVE  Received(t, refusing)
  <1>1. do31' = [d \in Do31 |-> [Heard(d, t) EXCEPT !.retry = IF d \in refusing THEN Answer(d, t) ELSE None]]
    BY DEF Broadcast
  <1>2. ASSUME NEW d \in Do31
        PROVE  /\ do31'[d] \in Receivers /\ ListRight(do31'[d]) /\ do31'[d].sw8 = Heard(d, t).sw8
               /\ do31'[d].retry = IF d \in refusing THEN Answer(d, t) ELSE None
    <2>1. Heard(d, t) \in Receivers /\ ListRight(Heard(d, t))
      BY HeardIs
    <2>2. PICK a : a = IF d \in refusing THEN Answer(d, t) ELSE None
      OBVIOUS
    <2>3. a \in Telegrams \union {None}
      BY <2>2, AnswerIs
    <2>4. do31'[d] = [Heard(d, t) EXCEPT !.retry = a]
      BY <1>1, <2>2
    <2>5. /\ do31'[d] \in Receivers /\ do31'[d].sw8 = Heard(d, t).sw8 /\ do31'[d].retry = a
          /\ do31'[d].list = Heard(d, t).list /\ do31'[d].pressed = Heard(d, t).pressed
          /\ do31'[d].unlisted = Heard(d, t).unlisted
      BY <2>1, <2>3, <2>4 DEF Receivers
    <2> QED
      BY <2>1, <2>2, <2>5 DEF ListRight
  <1>3. \A d \in Do31, n \in Node : Heard(d, t).sw8[n] =
              IF do31[d].retry = None /\ t.type = "ReqSwitchState" /\ t.to = d /\ t.from = n
              THEN t.state ELSE do31[d].sw8[n]
    BY HeardIs
  <1> QED
    BY <1>1, <1>2, <1>3 DEF Received

LEMMA BroadcastStep ==
  ASSUME PanelInv, NEW x \in Address, out[x] # <<>>, NEW t \in Telegrams, NEW refusing \in SUBSET Do31,
         t = Head(out[x]) \/ t.type = "Garbled", \A d \in refusing : Answer(d, t) # None,
         Broadcast(x, t, refusing)
  PROVE  PanelInv'
  <1>1. Types /\ \A d \in Do31 : ListRight(do31[d])
    BY DEF PanelInv
  <1>2. /\ do31' \in [Do31 -> Receivers]
        /\ \A d \in Do31 :
             /\ ListRight(do31'[d])
             /\ do31'[d].retry = IF d \in refusing THEN Answer(d, t) ELSE None
             /\ \A n \in Node : do31'[d].sw8[n] =
                  IF do31[d].retry = None /\ t.type = "ReqSwitchState" /\ t.to = d /\ t.from = n
                  THEN t.state ELSE do31[d].sw8[n]
    <2>1. Received(t, refusing)
      BY <1>1, BroadcastReceivers
    <2> QED
      BY <2>1 DEF Received
  <1>3. UNCHANGED <<inputType, input, sequence, ran>>
    BY DEF Broadcast
  <1>4. switch' \in [Node -> Switches] /\ \A n \in Node :
          /\ switch'[n] = IF t.type = "RespSwitchState" /\ t.to = n THEN Confirmation(switch[n], t) ELSE switch[n]
          /\ switch'[n].old = switch[n].old /\ switch'[n].actual = switch[n].actual
    <2>1. switch' = [n \in Node |->
            IF t.type = "RespSwitchState" /\ t.to = n THEN Confirmation(switch[n], t) ELSE switch[n]]
      BY DEF Broadcast
    <2>2. \A n \in Node : /\ switch[n] \in Switches /\ Confirmation(switch[n], t) \in Switches
                          /\ Confirmation(switch[n], t).old = switch[n].old
                          /\ Confirmation(switch[n], t).actual = switch[n].actual
      BY <1>1, ConfirmationIs DEF Types
    <2> QED
      BY <2>1, <2>2
  <1>5. forgetful' = forgetful \ {<<d, t.from>> : d \in {e \in Do31 :
          t.type = "ReqSwitchState" /\ t.to = e /\ do31[e].retry = None}}
    BY DEF Broadcast
  <1>6. ASSUME NEW y \in Address
        PROVE  \E drop \in {0, 1} :
                 /\ drop = 1 <=> y = x
                 /\ out'[y] \in Seq(Telegrams) /\ Len(out[y]) \in Nat /\ DOMAIN out[y] = 1 .. Len(out[y])
                 /\ \A k \in DOMAIN out'[y] :
                      \/ k + drop \in DOMAIN out[y] /\ out'[y][k] = out[y][k + drop]
                      \/ /\ k = (Len(out[y]) - drop) + 1 /\ y \in Do31 \ refusing
                         /\ out'[y][k] = Answer(y, t) /\ Answer(y, t) # None
    <2>1. PICK drop \in {0, 1} : drop = 1 <=> y = x
      <3>1. CASE y = x
        BY <3>1
      <3>2. CASE y # x
        BY <3>2
      <3> QED
        BY <3>1, <3>2
    <2> QED
      BY <1>1, <2>1, BroadcastBuffers
  <1>7. Types'
    <2>1. out' \in [Address -> Seq(Telegrams)]
      <3>1. out' = [y \in DOMAIN out |-> out'[y]] /\ DOMAIN out = Address
        BY <1>1 DEF Broadcast, Types
      <3> QED
        BY <1>6, <3>1
    <2> QED
      BY <1>1, <1>2, <1>3, <1>4, <1>5, <2>1 DEF Types
  (* A telegram that does not concern n leaves what is under way of n where it is. *)
  <1>8. ASSUME NEW n \in Node, NEW y \in Do31, ~Concerns(t, n), Answer(y, t) # None, Concerns(Answer(y, t), n)
        PROVE  Lies(n, y, 0) /\ Answer(y, t) = do31[y].retry
    <2>1. CASE do31[y].retry # None
      <3>1. Answer(y, t) = do31[y].retry
        BY <1>1, <2>1, AnswerIs
      <3> QED
        BY <1>8, <2>1, <3>1 DEF Lies
    <2>2. CASE do31[y].retry = None
      <3>1. t.type = "ReqSwitchState" /\ Answer(y, t) = Telegram("RespSwitchState", y, t.from, t.state)
        BY <1>1, <1>8, <2>2, AnswerIs
      <3>2. t.from = n
        BY <1>8, <3>1 DEF Concerns, Telegram
      <3> QED
        BY <1>8, <3>1, <3>2 DEF Concerns
    <2> QED
      BY <2>1, <2>2
  <1>9. ASSUME NEW n \in Node, NEW y \in Address, ~Concerns(t, n)
        PROVE  Moved(n, y)
    <2>1. Single(n)
      BY DEF PanelInv, UnderWay
    <2>2. ASSUME Lies(n, y, 0)' PROVE Lies(n, y, 0) /\ do31'[y].retry = do31[y].retry /\ y \in refusing
      <3>1. y \in Do31 /\ do31'[y].retry # None /\ Concerns(do31'[y].retry, n)
        BY <2>2 DEF Lies
      <3>2. y \in refusing /\ do31'[y].retry = Answer(y, t)
        BY <1>2, <3>1
      <3> QED
        BY <1>8, <1>9, <3>1, <3>2
    <2>3. PICK drop \in {0, 1} :
                 /\ out'[y] \in Seq(Telegrams) /\ Len(out[y]) \in Nat /\ DOMAIN out[y] = 1 .. Len(out[y])
                 /\ \A k \in DOMAIN out'[y] :
                      \/ k + drop \in DOMAIN out[y] /\ out'[y][k] = out[y][k + drop]
                      \/ /\ k = (Len(out[y]) - drop) + 1 /\ y \in Do31 \ refusing
                         /\ out'[y][k] = Answer(y, t) /\ Answer(y, t) # None
      BY <1>6
    <2>4. ASSUME NEW k \in DOMAIN out'[y]
          PROVE  \/ k + drop \in DOMAIN out[y] /\ out'[y][k] = out[y][k + drop]
                 \/ /\ k = (Len(out[y]) - drop) + 1
                    /\ Concerns(out'[y][k], n) => /\ Lies(n, y, 0) /\ ~Lies(n, y, 0)'
                                                  /\ out'[y][k] = do31[y].retry
      BY <1>8, <1>9, <2>2, <2>3
    <2>5. DOMAIN out'[y] \subseteq Nat
      BY <2>3
    <2>6. drop \in {0, 1} /\ Len(out[y]) \in Nat /\ DOMAIN out[y] = 1 .. Len(out[y])
      BY <2>3
    <2>7. Lies(n, y, 0)' => Lies(n, y, 0) /\ do31'[y].retry = do31[y].retry
      BY <2>2
    <2> QED
      BY <2>1, <2>4, <2>5, <2>6, <2>7, Moves
  <1>10. ASSUME NEW n \in Node, ~Concerns(t, n)
         PROVE  UnderWay(n)' /\ ConfirmedBy(n)'
    <2>1. switch'[n] = switch[n]
      BY <1>4, <1>10 DEF Concerns
    <2>2. \A d \in Do31 : do31'[d].sw8[n] = do31[d].sw8[n]
      BY <1>2, <1>10 DEF Concerns
    <2>3. UnderWay(n)'
      BY <1>9, <1>10, <2>1, <2>2, StaysUnderWay DEF PanelInv
    <2>4. ASSUME NEW d \in Do31, <<d, n>> \notin forgetful' PROVE <<d, n>> \notin forgetful
      <3>1. t.type # "ReqSwitchState" \/ t.from # n
        BY <1>10 DEF Concerns
      <3> QED
        BY <1>5, <2>4, <3>1
    <2>5. ConfirmedBy(n)'
      BY <2>1, <2>2, <2>4, StaysConfirmed DEF PanelInv
    <2> QED
      BY <2>3, <2>5
  (* One that does is all that is under way of n. *)
  <1>11. ASSUME NEW n \in Node, Concerns(t, n)
         PROVE  /\ Waiting(n) /\ Current(n, x, t)
                /\ \A y \in Address : \A k \in Nat : Lies(n, y, k) => y = x /\ k = 1
    <2>1. out[x] \in Seq(Telegrams)
      BY <1>1 DEF Types
    <2>2. t = Head(out[x]) /\ Head(out[x]) = out[x][1] /\ 1 \in DOMAIN out[x]
      BY <1>11, <2>1 DEF Concerns
    <2>3. Lies(n, x, 1) /\ Lying(x, 1) = t
      BY <1>11, <2>2 DEF Lies, Lying
    <2>4. 1 \in Nat
      OBVIOUS
    <2> QED
      BY <2>3, <2>4 DEF PanelInv, UnderWay, Single
  <1>12. ASSUME NEW n \in Node, Concerns(t, n), NEW y \in Address, NEW k \in Nat, Lies(n, y, k)'
         PROVE  /\ y \in Do31 /\ do31[y].retry = None /\ t.type = "ReqSwitchState" /\ t.to = y
                /\ Lying(y, k)' = Telegram("RespSwitchState", y, t.from, t.state)
                /\ \/ k = 0 /\ y \in refusing
                   \/ k = Len(out[y]) + (IF y = x THEN 0 ELSE 1) /\ y \notin refusing
    <2>1. \A l \in Nat : Lies(n, y, l) => y = x /\ l = 1
      BY <1>11, <1>12
    <2>2. PICK a : a = Answer(y, t)
      OBVIOUS
    <2>3. /\ y \in Do31 /\ a # None /\ Lying(y, k)' = a /\ Concerns(a, n)
          /\ \/ k = 0 /\ y \in refusing
             \/ k = Len(out[y]) + (IF y = x THEN 0 ELSE 1) /\ y \notin refusing
      <3>1. CASE k = 0
        <4>1. y \in Do31 /\ do31'[y].retry # None /\ Concerns(do31'[y].retry, n)
          BY <1>12, <3>1 DEF Lies
        <4>2. y \in refusing /\ do31'[y].retry = a
          BY <1>2, <2>2, <4>1
        <4> QED
          BY <3>1, <4>1, <4>2 DEF Lying
      <3>2. CASE k # 0
        <4>1. k \in DOMAIN out'[y] /\ Concerns(out'[y][k], n)
          BY <1>12, <3>2 DEF Lies
        <4>2. PICK drop \in {0, 1} :
                 /\ drop = 1 <=> y = x
                 /\ Len(out[y]) \in Nat
                 /\ \/ k + drop \in DOMAIN out[y] /\ out'[y][k] = out[y][k + drop]
                    \/ /\ k = (Len(out[y]) - drop) + 1 /\ y \in Do31 \ refusing
                       /\ out'[y][k] = Answer(y, t) /\ Answer(y, t) # None
          BY <1>6, <4>1
        <4>3. ~(k + drop \in DOMAIN out[y] /\ out'[y][k] = out[y][k + drop])
          <5> SUFFICES ASSUME k + drop \in DOMAIN out[y], out'[y][k] = out[y][k + drop] PROVE FALSE
            OBVIOUS
          <5>1. k + drop \in Nat /\ k + drop # 0
            BY <3>2, <4>2
          <5>2. Lies(n, y, k + drop)
            BY <4>1, <5>1 DEF Lies
          <5>3. y = x /\ k + drop = 1
            BY <2>1, <5>1, <5>2
          <5> QED
            BY <3>2, <4>2, <5>3
        <4>4. k = Len(out[y]) + (IF y = x THEN 0 ELSE 1)
          <5>1. PICK m : m = Len(out[y])
            OBVIOUS
          <5>2. m \in Nat /\ k = (m - drop) + 1 /\ drop \in {0, 1} /\ (drop = 1 <=> y = x)
            BY <4>2, <4>3, <5>1
          <5>3. CASE y = x
            BY <5>1, <5>2, <5>3
          <5>4. CASE y # x
            BY <5>1, <5>2, <5>4
          <5> QED
            BY <5>3, <5>4
        <4> QED
          BY <2>2, <3>2, <4>1, <4>2, <4>3, <4>4 DEF Lying
      <3> QED
        BY <3>1, <3>2
    <2>4. do31[y].retry = None
      <3> SUFFICES ASSUME do31[y].retry # None PROVE FALSE
        OBVIOUS
      <3>1. a = do31[y].retry
        BY <1>1, <2>2, <2>3, AnswerIs
      <3>2. Lies(n, y, 0)
        BY <2>3, <3>1 DEF Lies
      <3> QED
        BY <2>1, <3>2
    <2>5. t.type = "ReqSwitchState" /\ t.to = y /\ a = Telegram("RespSwitchState", y, t.from, t.state)
      BY <1>1, <2>2, <2>3, <2>4, AnswerIs
    <2> QED
      BY <2>3, <2>4, <2>5
  <1>13. ASSUME NEW n \in Node, Concerns(t, n)
         PROVE  UnderWay(n)'
    <2>1. Single(n)'
      BY <1>12, <1>13 DEF Single
    <2>2. ASSUME NEW y \in Address, NEW k \in Nat, Lies(n, y, k)'
          PROVE  Waiting(n)' /\ Current(n, y, Lying(y, k))'
      <3>1. /\ y \in Do31 /\ do31[y].retry = None /\ t.type = "ReqSwitchState" /\ t.to = y
            /\ Lying(y, k)' = Telegram("RespSwitchState", y, t.from, t.state)
        BY <1>12, <1>13, <2>2
      <3>2. switch'[n] = switch[n]
        BY <1>4, <3>1
      <3>3. t.from = n
        BY <1>13, <3>1 DEF Concerns
      <3>4. do31'[y].sw8[n] = t.state
        BY <1>2, <3>1, <3>3
      <3>5. Waiting(n) /\ t.state = switch[n].actual /\ t.to = ClientList[switch[n].client]
        BY <1>11, <1>13, <3>1 DEF Current
      <3> QED
        BY <3>1, <3>2, <3>4, <3>5 DEF Waiting, Current, Telegram
    <2> QED
      BY <2>1, <2>2 DEF UnderWay
  <1>14. ASSUME NEW n \in Node, Concerns(t, n)
         PROVE  ConfirmedBy(n)'
    <2>1. ConfirmedBy(n) /\ switch[n] \in Switches
      BY <1>1 DEF PanelInv, Types
    <2>2. Current(n, x, t)
      BY <1>11, <1>14
    <2>3. CASE t.type = "ReqSwitchState"
      <3>1. t.from = n /\ t.state = switch[n].actual /\ switch'[n] = switch[n]
        BY <1>4, <1>14, <2>2, <2>3 DEF Concerns, Current
      <3>2. ASSUME NEW i \in Client, switch'[n].state[i] = "ConfirmationOK"
            PROVE  /\ ClientList[i] \in Do31
                   /\ <<ClientList[i], n>> \notin forgetful' => do31'[ClientList[i]].sw8[n] = switch'[n].actual
        <4>1. /\ ClientList[i] \in Do31
              /\ <<ClientList[i], n>> \notin forgetful => do31[ClientList[i]].sw8[n] = switch[n].actual
          BY <2>1, <3>1, <3>2 DEF ConfirmedBy
        <4>2. CASE do31[ClientList[i]].retry = None /\ t.to = ClientList[i]
          <5>1. do31'[ClientList[i]].sw8[n] = t.state
            BY <1>2, <2>3, <3>1, <4>1, <4>2
          <5> QED
            BY <3>1, <4>1, <5>1
        <4>3. CASE ~(do31[ClientList[i]].retry = None /\ t.to = ClientList[i])
          <5>1. do31'[ClientList[i]].sw8[n] = do31[ClientList[i]].sw8[n]
            BY <1>2, <4>1, <4>3
          <5>2. <<ClientList[i], n>> \notin forgetful' => <<ClientList[i], n>> \notin forgetful
            BY <1>5, <4>3
          <5> QED
            BY <3>1, <4>1, <5>1, <5>2
        <4> QED
          BY <4>2, <4>3
      <3> QED
        BY <3>2 DEF ConfirmedBy
    <2>4. CASE t.type = "RespSwitchState"
      <3>1. /\ t.to = n /\ t.from = x /\ x \in Do31 /\ do31[x].sw8[n] = switch[n].actual
        BY <1>14, <2>2, <2>4 DEF Concerns, Current
      <3>2. switch'[n] = Confirmation(switch[n], t)
        BY <1>4, <2>4, <3>1
      <3>3. /\ switch'[n].actual = switch[n].actual
            /\ \A i \in Client : switch'[n].state[i] = "ConfirmationOK" =>
                 switch[n].state[i] = "ConfirmationOK" \/ ClientList[i] = x
        <4>1. PICK c : c = Confirmation(switch[n], t)
          OBVIOUS
        <4>2. /\ c.actual = switch[n].actual
              /\ \A i \in Client : c.state[i] = "ConfirmationOK" =>
                   switch[n].state[i] = "ConfirmationOK" \/ (ClientList[i] = t.from /\ t.state = switch[n].actual)
          BY <2>1, <4>1, ConfirmationIs
        <4>3. switch'[n] = c
          BY <3>2, <4>1
        <4> QED
          BY <3>1, <4>2, <4>3
      <3>4. \A d \in Do31 : do31'[d].sw8[n] = do31[d].sw8[n]
        BY <1>2, <2>4
      <3>5. forgetful' = forgetful
        BY <1>5, <2>4
      <3> QED
        BY <2>1, <3>1, <3>3, <3>4, <3>5 DEF ConfirmedBy
    <2> QED
      BY <1>14, <2>3, <2>4 DEF Concerns
  <1>15. ASSUME NEW n \in Node PROVE WiredOnly(n)'
    <2>1. WiredOnly(n) /\ switch'[n].old = switch[n].old /\ switch'[n].actual = switch[n].actual /\ input' = input
          /\ Wired(n)' = Wired(n)
      BY <1>3, <1>4 DEF PanelInv, Wired
    <2>2. ASSUME NEW d \in Do31 PROVE do31'[d].sw8[n] \subseteq Wired(n)
      <3>1. CASE t.type = "ReqSwitchState" /\ t.from = n
        <4>1. t.state = switch[n].actual
          BY <1>11, <3>1 DEF Concerns, Current
        <4>2. do31'[d].sw8[n] = t.state \/ do31'[d].sw8[n] = do31[d].sw8[n]
          BY <1>2
        <4> QED
          BY <2>1, <4>1, <4>2 DEF WiredOnly
      <3>2. CASE ~(t.type = "ReqSwitchState" /\ t.from = n)
        <4>1. do31'[d].sw8[n] = do31[d].sw8[n]
          BY <1>2, <3>2
        <4> QED
          BY <2>1, <4>1 DEF WiredOnly
      <3> QED
        BY <3>1, <3>2
    <2> QED
      BY <2>1, <2>2 DEF WiredOnly
  <1> QED
    BY <1>2, <1>7, <1>10, <1>13, <1>14, <1>15 DEF PanelInv

-----------------------------------------------------------------------------
LEMMA TransmitStep ==
  ASSUME PanelInv, NEW x \in Address, Transmit(x)
  PROVE  PanelInv'
  <1>1. PICK refusing \in SUBSET {d \in Do31 : Answer(d, Head(out[x])) # None} :
          Broadcast(x, Head(out[x]), refusing)
    BY DEF Transmit
  <1>2. out[x] # <<>> /\ out[x] \in Seq(Telegrams)
    BY DEF Transmit, PanelInv, Types
  <1>3. Head(out[x]) \in Telegrams
    BY <1>2
  <1>4. refusing \in SUBSET Do31 /\ \A d \in refusing : Answer(d, Head(out[x])) # None
    BY <1>1
  <1> QED
    BY <1>1, <1>2, <1>3, <1>4, BroadcastStep

LEMMA GarbleStep ==
  ASSUME PanelInv, NEW x \in Address, Garble(x)
  PROVE  PanelInv'
  <1>1. PICK t, refusing : t = Telegram("Garbled", x, Do31, {}) /\ refusing = {d \in Do31 : do31[d].retry # None}
    OBVIOUS
  <1>2. out[x] # <<>> /\ Broadcast(x, t, refusing)
    BY <1>1 DEF Garble
  <1>3. t \in Telegrams /\ t.type = "Garbled"
    BY <1>1 DEF Telegrams, Telegram
  <1>4. refusing \in SUBSET Do31 /\ \A d \in refusing : Answer(d, t) # None
    <2>1. Types
      BY DEF PanelInv
    <2> QED
      BY <1>1, <1>3, <2>1, AnswerIs
  <1> QED
    BY <1>2, <1>3, <1>4, BroadcastStep

(* Steps that change a buffer and no switch *)
LEMMA BufferStep ==
  ASSUME PanelInv, Types', UNCHANGED <<inputType, input, switch, forgetful>>,
         \A d \in Do31 : do31'[d].sw8 = do31[d].sw8 /\ ListRight(do31'[d]),
         \A n \in Node : \A y \in Address : Moved(n, y)
  PROVE  PanelInv'
  <1>1. ASSUME NEW n \in Node PROVE WiredOnly(n)' /\ UnderWay(n)' /\ ConfirmedBy(n)'
    <2>1. WiredOnly(n) /\ UnderWay(n) /\ ConfirmedBy(n)
      BY DEF PanelInv
    <2>2. UnderWay(n)'
      BY <2>1, StaysUnderWay
    <2>3. WiredOnly(n)'
      BY <2>1 DEF WiredOnly, Wired
    <2>4. ConfirmedBy(n)'
      BY <2>1, StaysConfirmed
    <2> QED
      BY <2>2, <2>3, <2>4
  <1> QED
    BY <1>1 DEF PanelInv

LEMMA LoseStep ==
  ASSUME PanelInv, NEW x \in Address, Lose(x)
  PROVE  PanelInv'
  <1>1. /\ out[x] # <<>> /\ out' = [out EXCEPT ![x] = Tail(@)]
        /\ UNCHANGED <<inputType, input, switch, sequence, do31, ran, forgetful>>
    BY DEF Lose, observed
  <1>2. Types /\ out[x] \in Seq(Telegrams)
    BY DEF PanelInv, Types
  <1>3. /\ Tail(out[x]) \in Seq(Telegrams) /\ Len(Tail(out[x])) = Len(out[x]) - 1
        /\ \A k \in 1 .. Len(Tail(out[x])) : Tail(out[x])[k] = out[x][k + 1]
    BY <1>1, <1>2, HeadTailProperties
  <1>4. out'[x] = Tail(out[x]) /\ \A y \in Address \ {x} : out'[y] = out[y]
    BY <1>1, <1>2 DEF Types
  <1>5. Types'
    BY <1>1, <1>2, <1>3 DEF Types
  <1>6. ASSUME NEW n \in Node, NEW y \in Address PROVE Moved(n, y)
    <2>1. Single(n)
      BY DEF PanelInv, UnderWay
    <2>2. Lies(n, y, 0)' => Lies(n, y, 0) /\ do31'[y].retry = do31[y].retry
      BY <1>1 DEF Lies
    <2>3. CASE y = x
      <3>1. PICK one \in {0, 1} : one = 1
        OBVIOUS
      <3>2. PICK m, l : m = Len(out[y]) /\ l = Len(out'[y])
        OBVIOUS
      <3>3. out'[y] = Tail(out[y]) /\ out[y] \in Seq(Telegrams) /\ out'[y] \in Seq(Telegrams)
        BY <1>2, <1>3, <1>4, <2>3
      <3>4. m \in Nat /\ l \in Nat /\ l = m - 1 /\ DOMAIN out[y] = 1 .. m /\ DOMAIN out'[y] = 1 .. l
        BY <1>3, <2>3, <3>2, <3>3
      <3>5. ASSUME NEW k \in 1 .. l PROVE k + one \in 1 .. m /\ k \in Nat
        BY <3>1, <3>4
      <3>6. \A k \in 1 .. l : out'[y][k] = out[y][k + one]
        BY <1>3, <2>3, <3>1, <3>2, <3>3
      <3>7. \A k \in DOMAIN out'[y] : k + one \in DOMAIN out[y] /\ out'[y][k] = out[y][k + one]
        BY <3>4, <3>5, <3>6
      <3>8. Len(out[y]) \in Nat /\ DOMAIN out[y] = 1 .. Len(out[y]) /\ DOMAIN out'[y] \subseteq Nat
        BY <3>2, <3>4, <3>5
      <3> QED
        BY <2>1, <2>2, <3>1, <3>7, <3>8, Moves
    <2>4. CASE y # x
      BY <1>2, <1>4, <2>1, <2>2, <2>4, StaysMoved
    <2> QED
      BY <2>3, <2>4
  <1>7. ASSUME NEW d \in Do31 PROVE do31'[d].sw8 = do31[d].sw8 /\ ListRight(do31'[d])
    BY <1>1 DEF PanelInv
  <1> QED
    BY <1>1, <1>5, <1>6, <1>7, BufferStep

LEMMA AppendIs ==
  ASSUME NEW S, NEW s \in Seq(S), NEW e \in S
  PROVE  /\ Append(s, e) \in Seq(S) /\ Len(Append(s, e)) = Len(s) + 1
         /\ \A k \in 1 .. Len(s) : Append(s, e)[k] = s[k]
         /\ Append(s, e)[Len(s) + 1] = e
  BY AppendProperties

(* A telegram that is added concerns no switch, or was refused before. *)
LEMMA AppendMoved ==
  ASSUME Types, NEW n \in Node, Single(n), NEW x \in Address, NEW t \in Telegrams,
         out' = [out EXCEPT ![x] = Append(@, t)],
         Concerns(t, n) => Lies(n, x, 0) /\ ~Lies(n, x, 0)' /\ t = do31[x].retry,
         \A y \in Address : Lies(n, y, 0)' => Lies(n, y, 0) /\ do31'[y].retry = do31[y].retry,
         NEW y \in Address
  PROVE  Moved(n, y)
  <1>1. out[x] \in Seq(Telegrams)
    BY DEF Types
  <1>2. out'[x] = Append(out[x], t) /\ \A z \in Address \ {x} : out'[z] = out[z]
    BY DEF Types
  <1>3. CASE y = x
    <2>1. PICK none \in {0, 1} : none = 0
      OBVIOUS
    <2>2. /\ Append(out[x], t) \in Seq(Telegrams) /\ Len(Append(out[x], t)) = Len(out[x]) + 1
          /\ \A k \in 1 .. Len(out[x]) : Append(out[x], t)[k] = out[x][k]
          /\ Append(out[x], t)[Len(out[x]) + 1] = t
      BY <1>1, AppendIs
    <2>3. Len(out[y]) \in Nat /\ DOMAIN out[y] = 1 .. Len(out[y]) /\ DOMAIN out'[y] = 1 .. Len(out[y]) + 1
      BY <1>1, <1>2, <1>3, <2>2
    <2>4. ASSUME NEW k \in DOMAIN out'[y]
          PROVE  \/ k + none \in DOMAIN out[y] /\ out'[y][k] = out[y][k + none]
                 \/ k = (Len(out[y]) - none) + 1 /\ out'[y][k] = t
      <3>1. CASE k <= Len(out[y])
        BY <1>2, <1>3, <2>1, <2>2, <2>3, <3>1
      <3>2. CASE ~(k <= Len(out[y]))
        <4>1. k = Len(out[y]) + 1
          BY <2>3, <3>2
        <4> QED
          BY <1>2, <1>3, <2>1, <2>2, <2>3, <4>1
      <3> QED
        BY <3>1, <3>2
    <2>5. DOMAIN out'[y] \subseteq Nat
      BY <2>3
    <2>6. Len(out[y]) \in Nat /\ DOMAIN out[y] = 1 .. Len(out[y])
      BY <2>3
    <2> QED
      BY <1>3, <2>1, <2>4, <2>5, <2>6, Moves
  <1>4. CASE y # x
    BY <1>2, <1>4, StaysMoved
  <1> QED
    BY <1>3, <1>4

LEMMA RetryStep ==
  ASSUME PanelInv, NEW d \in Do31, Retry(d)
  PROVE  PanelInv'
  <1>1. PICK t : t = do31[d].retry
    OBVIOUS
  <1>2. /\ t # None /\ out' = [out EXCEPT ![d] = Append(@, t)] /\ do31' = [do31 EXCEPT ![d].retry = None]
        /\ UNCHANGED <<inputType, input, switch, sequence, ran, forgetful>>
    BY <1>1 DEF Retry, observed
  <1>3. Types /\ d \in Address
    BY DEF PanelInv, Address
  <1>4. t \in Telegrams /\ do31[d] \in Receivers /\ out[d] \in Seq(Telegrams)
    BY <1>1, <1>2, <1>3 DEF Types, Receivers
  <1>5. /\ do31' \in [Do31 -> Receivers] /\ do31'[d].retry = None
        /\ \A e \in Do31 \ {d} : do31'[e] = do31[e]
        /\ do31'[d].sw8 = do31[d].sw8 /\ do31'[d].list = do31[d].list /\ do31'[d].pressed = do31[d].pressed
        /\ do31'[d].unlisted = do31[d].unlisted
    BY <1>2, <1>3, <1>4 DEF Types, Receivers
  <1>6. Append(out[d], t) \in Seq(Telegrams)
    BY <1>4, AppendIs
  <1>7. Types'
    BY <1>2, <1>3, <1>5, <1>6 DEF Types
  <1>8. ASSUME NEW n \in Node, NEW y \in Address PROVE Moved(n, y)
    <2>1. Single(n)
      BY DEF PanelInv, UnderWay
    <2>2. \A z \in Address : Lies(n, z, 0)' => Lies(n, z, 0) /\ do31'[z].retry = do31[z].retry
      BY <1>5 DEF Lies
    <2>3. Concerns(t, n) => Lies(n, d, 0) /\ ~Lies(n, d, 0)' /\ t = do31[d].retry
      BY <1>1, <1>2, <1>5 DEF Lies
    <2> QED
      BY <1>2, <1>3, <1>4, <2>1, <2>2, <2>3, AppendMoved
  <1>9. ASSUME NEW e \in Do31 PROVE do31'[e].sw8 = do31[e].sw8 /\ ListRight(do31'[e])
    BY <1>5 DEF PanelInv, ListRight
  <1> QED
    BY <1>2, <1>7, <1>8, <1>9, BufferStep

LEMMA RepeatIs ==
  ASSUME NEW n \in Node, NEW q \in Sequences, REPEAT_DIFF \in Nat
  PROVE  LET r == Repeat(n, q) IN [state |-> r.state, start |-> r.start, stamp |-> r.stamp] \in Sequences
  <1>0. 0 \in Nat /\ q.state \in {"OFF", "ON", "TIMEOUT"} /\ q.start \in Nat /\ q.stamp \in Nat
    BY DEF Sequences
  <1>1. CASE q.state = "OFF" /\ input[n] # {}
    <2>1. Repeat(n, q) = [state |-> "ON", start |-> 0, stamp |-> 0, send |-> TRUE]
      BY <1>1 DEF Repeat
    <2> QED
      BY <1>0, <2>1 DEF Sequences
  <1>2. CASE q.state = "ON" /\ input[n] # {} /\ q.start < REPEAT_TIMEOUT /\ q.stamp >= REPEAT_DIFF
    <2>0. ~(q.start >= REPEAT_TIMEOUT) /\ q.state # "OFF"
      BY <1>0, <1>2, PanelBounds
    <2>1. Repeat(n, q) = [state |-> "ON", start |-> q.start, stamp |-> 0, send |-> TRUE]
      BY <1>2, <2>0 DEF Repeat
    <2> QED
      BY <1>0, <2>1 DEF Sequences
  <1>3. CASE q.state = "ON" /\ input[n] # {} /\ q.start >= REPEAT_TIMEOUT
    <2>1. ~(q.start < REPEAT_TIMEOUT)
      BY <1>0, <1>3, PanelBounds
    <2>2. Repeat(n, q) = [state |-> "TIMEOUT", start |-> 0, stamp |-> 0, send |-> FALSE]
      BY <1>3, <2>1 DEF Repeat
    <2> QED
      BY <1>0, <2>2 DEF Sequences
  <1>4. CASE q.state # "OFF" /\ input[n] = {}
    <2>1. Repeat(n, q) = [state |-> "OFF", start |-> 0, stamp |-> 0, send |-> FALSE]
      BY <1>4 DEF Repeat
    <2> QED
      BY <1>0, <2>1 DEF Sequences
  <1>5. CASE /\ ~(q.state = "OFF" /\ input[n] # {})
             /\ ~(q.state = "ON" /\ input[n] # {} /\ q.start < REPEAT_TIMEOUT /\ q.stamp >= REPEAT_DIFF)
             /\ ~(q.state = "ON" /\ input[n] # {} /\ q.start >= REPEAT_TIMEOUT)
             /\ ~(q.state # "OFF" /\ input[n] = {})
    <2>1. Repeat(n, q) = [state |-> q.state, start |-> q.start, stamp |-> q.stamp, send |-> FALSE]
      BY <1>5 DEF Repeat
    <2> QED
      BY <1>0, <2>1 DEF Sequences
  <1> QED
    BY <1>1, <1>2, <1>3, <1>4, <1>5

LEMMA ButtonStep ==
  ASSUME PanelInv, NEW n \in Node, ProcessButton(n)
  PROVE  PanelInv'
  <1>1. PICK q : q = Repeat(n, sequence[n])
    OBVIOUS
  <1>2. PICK t : t = Telegram("ButtonPressed", n, Do31, input[n])
    OBVIOUS
  <1>3. /\ sequence' = [sequence EXCEPT ![n] = [state |-> q.state, start |-> q.start, stamp |-> q.stamp]]
        /\ out' = [out EXCEPT ![n] = IF q.send THEN Append(@, t) ELSE @]
        /\ ran' = ran \union {n} /\ UNCHANGED <<inputType, input, switch, do31, forgetful>>
    BY <1>1, <1>2 DEF ProcessButton, observed
  <1>4. Types /\ n \in Address
    BY DEF PanelInv, Address
  <1>5. sequence' \in [Node -> Sequences]
    <2>1. [state |-> q.state, start |-> q.start, stamp |-> q.stamp] \in Sequences
      BY <1>1, <1>4, PanelBounds, RepeatIs DEF Types
    <2> QED
      BY <1>3, <1>4, <2>1 DEF Types
  <1>6. t \in Telegrams /\ out[n] \in Seq(Telegrams)
    BY <1>2, <1>4 DEF Telegrams, Telegram, Types
  <1>7. out' = out \/ out' = [out EXCEPT ![n] = Append(@, t)]
    BY <1>3, <1>4 DEF Types
  <1>8. Types'
    <2>1. Append(out[n], t) \in Seq(Telegrams)
      BY <1>6, AppendIs
    <2>2. out' \in [Address -> Seq(Telegrams)]
      BY <1>4, <1>7, <2>1 DEF Types
    <2> QED
      BY <1>3, <1>4, <1>5, <2>2 DEF Types
  <1>9. ASSUME NEW m \in Node, NEW y \in Address PROVE Moved(m, y)
    <2>1. Single(m)
      BY DEF PanelInv, UnderWay
    <2>2. \A z \in Address : Lies(m, z, 0)' => Lies(m, z, 0) /\ do31'[z].retry = do31[z].retry
      BY <1>3 DEF Lies
    <2>3. CASE out' = out
      BY <1>4, <2>1, <2>2, <2>3, StaysMoved
    <2>4. CASE out' = [out EXCEPT ![n] = Append(@, t)]
      <3>1. ~Concerns(t, m)
        BY <1>2 DEF Concerns, Telegram
      <3> QED
        BY <1>4, <1>6, <2>1, <2>2, <2>4, <3>1, AppendMoved
    <2> QED
      BY <1>7, <2>3, <2>4
  <1>10. ASSUME NEW d \in Do31 PROVE do31'[d].sw8 = do31[d].sw8 /\ ListRight(do31'[d])
    BY <1>3 DEF PanelInv
  <1> QED
    BY <1>3, <1>8, <1>9, <1>10, BufferStep

(* Steps after which nothing is under way, and that touch no confirmation *)
LEMMA SilentStep ==
  ASSUME NEW n \in Node, \A x \in Address : \A k \in Nat : ~Lies(n, x, k)'
  PROVE  UnderWay(n)'
  BY DEF UnderWay, Single

LEMMA FreshIs ==
  FreshDo31 \in Receivers /\ ListRight(FreshDo31) /\ \A n \in Node : FreshDo31.sw8[n] = {}
  <1>1. IsFiniteSet({}) /\ Cardinality({}) = 0
    BY FS_EmptySet
  <1>2. {} \in Lists /\ Keys({}) = {}
    BY <1>1 DEF Lists, Keys
  <1>3. 0 <= BUTTON_MAX_NUM_ACTIVE
    BY PanelBounds
  <1> QED
    BY <1>1, <1>2, <1>3 DEF FreshDo31, Receivers, ListRight

LEMMA RestartStep ==
  ASSUME PanelInv, NEW d \in Do31, Restart(d)
  PROVE  PanelInv'
  <1>1. /\ do31' = [do31 EXCEPT ![d] = FreshDo31] /\ out' = [out EXCEPT ![d] = <<>>]
        /\ forgetful' = forgetful \union ({d} \X Node) /\ UNCHANGED <<inputType, input, switch, sequence, ran>>
    BY DEF Restart
  <1>2. Types /\ d \in Address
    BY DEF PanelInv, Address
  <1>3. FreshDo31 \in Receivers /\ ListRight(FreshDo31) /\ \A n \in Node : FreshDo31.sw8[n] = {}
    BY FreshIs
  <1>4. /\ do31' \in [Do31 -> Receivers] /\ do31'[d] = FreshDo31
        /\ \A e \in Do31 \ {d} : do31'[e] = do31[e]
        /\ out'[d] = <<>> /\ \A y \in Address \ {d} : out'[y] = out[y]
    BY <1>1, <1>2, <1>3 DEF Types
  <1>5. Types'
    <2>1. <<>> \in Seq(Telegrams)
      OBVIOUS
    <2>2. out' \in [Address -> Seq(Telegrams)]
      BY <1>1, <1>2, <2>1 DEF Types
    <2>3. forgetful' \subseteq Do31 \X Node
      BY <1>1, <1>2 DEF Types
    <2> QED
      BY <1>1, <1>2, <1>4, <2>2, <2>3 DEF Types
  <1>6. ASSUME NEW n \in Node, NEW k \in Nat PROVE ~Lies(n, d, k)'
    <2>1. do31'[d].retry = None
      BY <1>4 DEF FreshDo31
    <2>2. DOMAIN out'[d] = {}
      BY <1>4
    <2> QED
      BY <2>1, <2>2 DEF Lies
  <1>7. ASSUME NEW n \in Node PROVE WiredOnly(n)' /\ UnderWay(n)' /\ ConfirmedBy(n)'
    <2>1. WiredOnly(n) /\ UnderWay(n) /\ ConfirmedBy(n) /\ Single(n)
      BY DEF PanelInv, UnderWay
    <2>2. ASSUME NEW y \in Address PROVE Moved(n, y)
      <3>1. CASE y = d
        BY <1>6, <3>1 DEF Moved
      <3>2. CASE y # d
        <4>1. Lies(n, y, 0)' => Lies(n, y, 0) /\ do31'[y].retry = do31[y].retry
          BY <1>4, <3>2 DEF Lies
        <4> QED
          BY <1>2, <1>4, <2>1, <3>2, <4>1, StaysMoved
      <3> QED
        BY <3>1, <3>2
    <2>3. ASSUME NEW y \in Do31, NEW k \in Nat, Lies(n, y, k)' PROVE do31'[y].sw8[n] = do31[y].sw8[n]
      <3>1. y # d
        BY <1>6, <2>3
      <3> QED
        BY <1>4, <3>1
    <2>4. UnderWay(n)'
      BY <1>1, <2>1, <2>2, <2>3, StaysUnderWay
    <2>5. ASSUME NEW e \in Do31 PROVE do31'[e].sw8[n] = do31[e].sw8[n] \/ (e = d /\ do31'[e].sw8[n] = {})
      BY <1>3, <1>4
    <2>6. WiredOnly(n)'
      BY <1>1, <2>1, <2>5 DEF WiredOnly, Wired
    <2>7. ASSUME NEW e \in Do31, <<e, n>> \notin forgetful'
          PROVE  <<e, n>> \notin forgetful /\ do31'[e].sw8[n] = do31[e].sw8[n]
      <3>1. <<e, n>> \notin {d} \X Node
        BY <1>1, <2>7
      <3>2. e # d
        BY <3>1
      <3> QED
        BY <1>1, <2>5, <2>7, <3>2
    <2>8. ConfirmedBy(n)'
      BY <1>1, <2>1, <2>7, StaysConfirmed
    <2> QED
      BY <2>4, <2>6, <2>8
  <1>8. ASSUME NEW e \in Do31 PROVE ListRight(do31'[e])
    BY <1>3, <1>4 DEF PanelInv
  <1> QED
    BY <1>5, <1>7, <1>8 DEF PanelInv

LEMMA SameBuffers ==
  ASSUME Types, UNCHANGED out, \A d \in Do31 : do31'[d].retry = do31[d].retry,
         NEW n \in Node, Single(n), NEW y \in Address
  PROVE  Moved(n, y)
  <1>1. Lies(n, y, 0)' => Lies(n, y, 0) /\ do31'[y].retry = do31[y].retry
    BY DEF Lies
  <1> QED
    BY <1>1, StaysMoved

LEMMA ChangeStep ==
  ASSUME PanelInv, NEW n \in Node, Change(n)
  PROVE  PanelInv'
  <1>1. PICK s \in SUBSET Wired(n) : input' = [input EXCEPT ![n] = s]
    BY DEF Change
  <1>2. ran' = ran \ {n} /\ UNCHANGED <<inputType, switch, sequence, out, do31, forgetful>>
    BY DEF Change
  <1>3. Types
    BY DEF PanelInv
  <1>4. Wired(n) \subseteq Numbers
    BY PanelBounds DEF Wired
  <1>5. Types'
    BY <1>1, <1>2, <1>3, <1>4 DEF Types
  <1>6. ASSUME NEW m \in Node PROVE WiredOnly(m)' /\ UnderWay(m)' /\ ConfirmedBy(m)'
    <2>1. WiredOnly(m) /\ UnderWay(m) /\ ConfirmedBy(m) /\ Single(m)
      BY DEF PanelInv, UnderWay
    <2>2. \A y \in Address : Moved(m, y)
      BY <1>2, <1>3, <2>1, SameBuffers
    <2>3. UnderWay(m)'
      BY <1>2, <2>1, <2>2, StaysUnderWay
    <2>4. input'[m] \subseteq Wired(m)
      BY <1>1, <1>3, <2>1 DEF Types, WiredOnly
    <2>5. WiredOnly(m)'
      BY <1>2, <2>1, <2>4 DEF WiredOnly, Wired
    <2>6. ConfirmedBy(m)'
      BY <1>2, <2>1, StaysConfirmed
    <2> QED
      BY <2>3, <2>5, <2>6
  <1>7. ASSUME NEW d \in Do31 PROVE ListRight(do31'[d])
    BY <1>2 DEF PanelInv
  <1> QED
    BY <1>5, <1>6, <1>7 DEF PanelInv

LEMMA CheckButtonStep ==
  ASSUME PanelInv, NEW d \in Do31, CheckButton(d)
  PROVE  PanelInv'
  <1>1. PICK key \in Overdue(do31[d].list) :
          do31' = [do31 EXCEPT ![d].list = Released(@, key), ![d].pressed = @ \ {key}]
    BY DEF CheckButton
  <1>2. UNCHANGED <<inputType, input, switch, sequence, out, ran, forgetful>>
    BY DEF CheckButton, observed
  <1>3. Types /\ do31[d] \in Receivers /\ do31[d].list \in Lists /\ ListRight(do31[d])
    BY DEF PanelInv, Types, Receivers
  <1>4. PICK list : list = Released(do31[d].list, key)
    OBVIOUS
  <1>5. list \in Lists /\ Cardinality(list) <= Cardinality(do31[d].list) /\ Keys(list) = Keys(do31[d].list) \ {key}
    BY <1>3, <1>4, ReleasedIs
  <1>6. Cardinality(list) <= BUTTON_MAX_NUM_ACTIVE
    <2>1. IsFiniteSet(do31[d].list) /\ IsFiniteSet(list)
      BY <1>3, <1>5 DEF Lists
    <2>2. Cardinality(do31[d].list) \in Nat /\ Cardinality(list) \in Nat
      BY <2>1, FS_CardinalityType
    <2>3. Cardinality(do31[d].list) <= BUTTON_MAX_NUM_ACTIVE
      BY <1>3 DEF ListRight
    <2> QED
      BY <1>5, <2>2, <2>3, PanelBounds
  <1>7. /\ do31' \in [Do31 -> Receivers] /\ \A e \in Do31 \ {d} : do31'[e] = do31[e]
        /\ do31'[d].sw8 = do31[d].sw8 /\ do31'[d].retry = do31[d].retry /\ do31'[d].unlisted = do31[d].unlisted
        /\ do31'[d].list = list /\ do31'[d].pressed = do31[d].pressed \ {key}
    BY <1>1, <1>3, <1>4, <1>5 DEF Types, Receivers
  <1>8. key \in Keys(do31[d].list)
    BY DEF Overdue, Keys
  <1>9. ListRight(do31'[d])
    BY <1>3, <1>5, <1>6, <1>7, <1>8 DEF ListRight
  <1>10. Types'
    BY <1>2, <1>3, <1>7 DEF Types
  <1>11. ASSUME NEW e \in Do31
         PROVE  do31'[e].sw8 = do31[e].sw8 /\ do31'[e].retry = do31[e].retry /\ ListRight(do31'[e])
    BY <1>7, <1>9 DEF PanelInv
  <1>12. ASSUME NEW n \in Node, NEW y \in Address PROVE Moved(n, y)
    BY <1>2, <1>3, <1>11, SameBuffers DEF PanelInv, UnderWay
  <1> QED
    BY <1>2, <1>10, <1>11, <1>12, BufferStep

LEMMA TickStep ==
  ASSUME PanelInv, Tick
  PROVE  PanelInv'
  <1> DEFINE r == RESPONSE_TIMEOUT1 + RESPONSE_TIMEOUT2
  <1>1. /\ \A x \in DOMAIN out : out[x] = <<>>
        /\ \A d \in Do31 : do31[d].retry = None
        /\ switch' = [n \in Node |-> IF switch[n].client = NoClient THEN switch[n] ELSE
              [switch[n] EXCEPT !.request = AtMost(@ + 1, r), !.change = AtMost(@ + 1, RETRY_TIMEOUT2)]]
        /\ sequence' = [n \in Node |-> IF sequence[n].state # "ON" THEN sequence[n] ELSE
              [sequence[n] EXCEPT !.start = AtMost(@ + 1, REPEAT_TIMEOUT), !.stamp = AtMost(@ + 1, REPEAT_DIFF)]]
        /\ do31' = [d \in Do31 |-> [do31[d] EXCEPT !.list = Aged(@)]]
        /\ ran' = {} /\ UNCHANGED <<inputType, input, out, forgetful>>
    BY DEF Tick, observed
  <1>2. Types /\ r \in Nat
    BY PanelBounds DEF PanelInv
  <1>3. ASSUME NEW i \in Nat, NEW max \in Nat PROVE AtMost(i + 1, max) \in Nat
    BY DEF AtMost
  <1> HIDE DEF r
  <1>4. ASSUME NEW n \in Node
        PROVE  /\ switch'[n] \in Switches /\ switch'[n].state = switch[n].state
               /\ switch'[n].actual = switch[n].actual /\ switch'[n].old = switch[n].old
    <2>1. switch[n] \in Switches
      BY <1>2 DEF Types
    <2>2. AtMost(switch[n].request + 1, r) \in Nat /\ AtMost(switch[n].change + 1, RETRY_TIMEOUT2) \in Nat
      BY <1>2, <1>3, <2>1, PanelBounds DEF Switches
    <2>3. CASE switch[n].client = NoClient
      BY <1>1, <2>1, <2>3
    <2>4. CASE switch[n].client # NoClient
      <3>1. switch'[n] = [switch[n] EXCEPT !.request = AtMost(@ + 1, r), !.change = AtMost(@ + 1, RETRY_TIMEOUT2)]
        BY <1>1, <2>4
      <3> QED
        BY <2>1, <2>2, <3>1 DEF Switches
    <2> QED
      BY <2>3, <2>4
  <1>5. ASSUME NEW n \in Node PROVE sequence'[n] \in Sequences
    <2>1. sequence[n] \in Sequences
      BY <1>2 DEF Types
    <2>2. AtMost(sequence[n].start + 1, REPEAT_TIMEOUT) \in Nat /\ AtMost(sequence[n].stamp + 1, REPEAT_DIFF) \in Nat
      BY <1>3, <2>1, PanelBounds DEF Sequences
    <2> QED
      BY <1>1, <2>1, <2>2 DEF Sequences
  <1>6. ASSUME NEW d \in Do31
        PROVE  /\ do31'[d] \in Receivers /\ ListRight(do31'[d]) /\ do31'[d].sw8 = do31[d].sw8
               /\ do31'[d].retry = None
    <2>1. do31[d] \in Receivers /\ do31[d].list \in Lists /\ ListRight(do31[d])
      BY <1>2 DEF PanelInv, Types, Receivers
    <2>2. PICK list : list = Aged(do31[d].list)
      OBVIOUS
    <2>3. list \in Lists /\ Cardinality(list) <= Cardinality(do31[d].list) /\ Keys(list) = Keys(do31[d].list)
      BY <2>1, <2>2, AgedIs
    <2>4. Cardinality(list) <= BUTTON_MAX_NUM_ACTIVE
      <3>1. IsFiniteSet(do31[d].list) /\ IsFiniteSet(list)
        BY <2>1, <2>3 DEF Lists
      <3>2. Cardinality(do31[d].list) \in Nat /\ Cardinality(list) \in Nat
        BY <3>1, FS_CardinalityType
      <3>3. Cardinality(do31[d].list) <= BUTTON_MAX_NUM_ACTIVE
        BY <2>1 DEF ListRight
      <3> QED
        BY <2>3, <3>2, <3>3, PanelBounds
    <2>5. /\ do31'[d] \in Receivers /\ do31'[d].list = list /\ do31'[d].sw8 = do31[d].sw8
          /\ do31'[d].pressed = do31[d].pressed /\ do31'[d].unlisted = do31[d].unlisted
          /\ do31'[d].retry = do31[d].retry
      BY <1>1, <2>1, <2>2, <2>3 DEF Receivers
    <2> QED
      BY <1>1, <2>1, <2>3, <2>4, <2>5 DEF ListRight
  <1>7. Types'
    <2>1. switch' \in [Node -> Switches]
      BY <1>1, <1>4
    <2>2. sequence' \in [Node -> Sequences]
      BY <1>1, <1>5
    <2>3. do31' \in [Do31 -> Receivers]
      BY <1>1, <1>6
    <2> QED
      BY <1>1, <1>2, <2>1, <2>2, <2>3 DEF Types
  <1>8. ASSUME NEW n \in Node PROVE WiredOnly(n)' /\ UnderWay(n)' /\ ConfirmedBy(n)'
    <2>1. WiredOnly(n) /\ ConfirmedBy(n)
      BY DEF PanelInv
    <2>2. ASSUME NEW x \in Address, NEW k \in Nat PROVE ~Lies(n, x, k)'
      <3>1. out'[x] = <<>>
        BY <1>1, <1>2 DEF Types
      <3>2. DOMAIN out'[x] = {}
        BY <3>1
      <3> QED
        BY <1>6, <3>2 DEF Lies
    <2>3. UnderWay(n)'
      BY <2>2, SilentStep
    <2>4. WiredOnly(n)'
      BY <1>1, <1>4, <1>6, <2>1 DEF WiredOnly, Wired
    <2>5. ConfirmedBy(n)'
      BY <1>1, <1>4, <1>6, <2>1, StaysConfirmed
    <2> QED
      BY <2>3, <2>4, <2>5
  <1> QED
    BY <1>6, <1>7, <1>8 DEF PanelInv

-----------------------------------------------------------------------------
LEMMA PanelInit == Init => PanelInv
  <1> SUFFICES ASSUME Init PROVE PanelInv
    OBVIOUS
  <1>1. NoSwitch \in Switches
    BY PanelBounds DEF NoSwitch, Switches, ClientStates
  <1>2. FreshDo31 \in Receivers /\ ListRight(FreshDo31)
    BY FreshIs
  <1>3. inputType \in InputTypes /\ input \in [Node -> SUBSET Numbers] /\ \A n \in Node : input[n] \subseteq Wired(n)
    <2>1. \A n \in Node : input[n] \in {{}, Wired(n)} /\ Wired(n) \subseteq Numbers
      BY PanelBounds DEF Init, Wired
    <2>2. inputType \in InputTypes /\ input \in [Node -> SUBSET {1, 2}]
      BY DEF Init
    <2> QED
      BY <2>1, <2>2 DEF Numbers
  <1>4. /\ switch = [n \in Node |-> NoSwitch] /\ out = [x \in Address |-> <<>>]
        /\ do31 = [d \in Do31 |-> FreshDo31] /\ ran = {} /\ forgetful = {}
        /\ sequence = [n \in Node |-> [state |-> "OFF", start |-> 0, stamp |-> 0]]
    BY DEF Init, Address
  <1>5. Types
    <2>1. <<>> \in Seq(Telegrams) /\ [state |-> "OFF", start |-> 0, stamp |-> 0] \in Sequences
      BY DEF Sequences
    <2> QED
      BY <1>1, <1>2, <1>3, <1>4, <2>1 DEF Types
  <1>6. ASSUME NEW n \in Node PROVE WiredOnly(n) /\ UnderWay(n) /\ ConfirmedBy(n)
    <2>1. WiredOnly(n)
      BY <1>3, <1>4, FreshIs DEF WiredOnly, NoSwitch
    <2>2. ASSUME NEW x \in Address, NEW k \in Nat PROVE ~Lies(n, x, k)
      <3>1. DOMAIN out[x] = {}
        BY <1>4
      <3>2. x \in Do31 => do31[x].retry = None
        BY <1>4 DEF FreshDo31
      <3> QED
        BY <3>1, <3>2 DEF Lies
    <2>3. UnderWay(n)
      BY <2>2 DEF UnderWay, Single
    <2>4. ConfirmedBy(n)
      BY <1>4 DEF ConfirmedBy, NoSwitch
    <2> QED
      BY <2>1, <2>3, <2>4
  <1>7. ASSUME NEW d \in Do31 PROVE ListRight(do31[d])
    BY <1>2, <1>4
  <1> QED
    BY <1>5, <1>6, <1>7 DEF PanelInv

LEMMA PanelStep == PanelInv /\ [Next]_vars => PanelInv'
  <1> SUFFICES ASSUME PanelInv, [Next]_vars PROVE PanelInv'
    OBVIOUS
  <1>1. ASSUME NEW n \in Node, Change(n) \/ ProcessSwitch(n) \/ ProcessButton(n) PROVE PanelInv'
    BY <1>1, ChangeStep, SwitchStep, ButtonStep
  <1>2. ASSUME NEW x \in Node \union Do31, Transmit(x) \/ Garble(x) \/ Lose(x) PROVE PanelInv'
    BY <1>2, TransmitStep, GarbleStep, LoseStep DEF Address
  <1>3. ASSUME NEW d \in Do31, Retry(d) \/ CheckButton(d) \/ Restart(d) PROVE PanelInv'
    BY <1>3, RetryStep, CheckButtonStep, RestartStep
  <1>4. CASE Tick
    BY <1>4, TickStep
  <1>5. CASE UNCHANGED vars
    <2>1. UNCHANGED <<inputType, input, switch, sequence, out, do31, ran, forgetful>>
      BY <1>5 DEF vars, observed
    <2>2. Types /\ Types'
      BY <2>1 DEF PanelInv, Types
    <2>3. ASSUME NEW n \in Node, NEW y \in Address PROVE Moved(n, y)
      BY <2>1, <2>2, SameBuffers DEF PanelInv, UnderWay
    <2>4. \A d \in Do31 : do31'[d].sw8 = do31[d].sw8 /\ ListRight(do31'[d])
      BY <2>1 DEF PanelInv
    <2> QED
      BY <2>1, <2>2, <2>3, <2>4, BufferStep
  <1> QED
    BY <1>1, <1>2, <1>3, <1>4, <1>5 DEF Next

(* What the nodes and the DO31s remember has its type, the list of active      *)
(* buttons never outgrows its array, and every button in it is one that the    *)
(* application was told of (ButtonNew, ProcessSwitch, ProcessBus).             *)
THEOREM PanelTyped == Spec => []TypeOK
  <1>1. PanelInv => TypeOK
    BY DEF PanelInv, Types, WiredOnly, ListRight, TypeOK, Switches, Sequences
  <1> QED
    BY <1>1, PanelInit, PanelStep, PTL DEF Spec

(* A client of a switch that has confirmed acts on the state that the switch   *)
(* has, unless it was restarted since, for any number of switches and clients, *)
(* losses, garbled telegrams, refused responses and restarts (ProcessSwitch).  *)
THEOREM ConfirmationsHold == Spec => []Confirmed
  <1>1. PanelInv => Confirmed
    BY DEF PanelInv, ConfirmedBy, Confirmed
  <1> QED
    BY <1>1, PanelInit, PanelStep, PTL DEF Spec
-----------------------------------------------------------------------------
(* How long a DO31 may not have heard of a button that stays closed: a repetition *)
(* is due after REPEAT_DIFF ticks, and each loss costs it one more.  A response    *)
(* that waits to be sent is a loss, too, and the next telegram will be dropped.    *)
Budget == REPEAT_DIFF * count.lost

Allowed(d, n) ==
  IF sequence[n].stamp = 0 THEN Budget + (IF out[n] # <<>> /\ do31[d].retry = None THEN REPEAT_DIFF ELSE 0)
  ELSE (sequence[n].stamp + Budget) - (IF do31[d].retry = None THEN 0 ELSE REPEAT_DIFF)

Counted ==
  count \in [changes : Nat, lost : Nat, garbled : Nat, restarts : Nat] /\ count.lost <= MaxLost

Refused(d) == do31[d].retry # None => count.lost > 0 /\ do31[d].retry.type # "ButtonPressed"

(* Button nodes send what their buttons are, and no other node does. *)
Announces(x, t) ==
  IF x \in Node /\ inputType[x] = "button" THEN t.type = "ButtonPressed" /\ t.from = x
  ELSE t.type # "ButtonPressed"

Announced(x) == \A j \in DOMAIN out[x] : Announces(x, out[x][j])

Repeating(n) ==
  LET q == sequence[n] IN
  /\ q.stamp <= REPEAT_DIFF
  /\ q.state # "ON" \/ out[n] # <<>> => q.stamp = 0
  /\ n \in ran /\ q.state = "ON" => q.stamp < REPEAT_DIFF
  /\ n \in ran /\ q.state = "OFF" => input[n] = {}

(* What is queued while the entry of a button ages says that it is closed. *)
Kept(d, n, k) ==
  /\ <<n, k>> \in do31[d].pressed
  /\ \A e \in do31[d].list : e.key = <<n, k>> =>
       /\ e.age <= Allowed(d, n)
       /\ e.age > 0 => \A j \in DOMAIN out[n] : k \in out[n][j].state

SteadyKept(d, n, k) ==
  <<d, n, k>> \in steady =>
    /\ inputType[n] = "button" /\ k \in input[n]
    /\ sequence[n].state # "TIMEOUT" => Kept(d, n, k)

HeldInv ==
  /\ Counted /\ steady \subseteq Do31 \X Node \X Numbers
  /\ \A d \in Do31 : Refused(d)
  /\ \A x \in Address : Announced(x)
  /\ \A n \in Node : inputType[n] = "button" => Repeating(n)
  /\ \A d \in Do31, n \in Node, k \in Numbers : SteadyKept(d, n, k)

(* The repetitions come often enough for the losses; with the 48 and 100 ms of  *)
(* the code, for one.                                                           *)
Timely == REPEAT_DIFF > 0 /\ (MaxLost + 1) * REPEAT_DIFF <= BUTTON_TIMEOUT

LEMMA Product ==
  ASSUME NEW a \in Nat, NEW b \in Nat
  PROVE  a * b \in Nat /\ a * (b + 1) = a * b + a /\ (b > 0 => a * b >= a)
  <1>1. \A c \in Nat : a * c \in Nat /\ a * (c + 1) = a * c + a
    OBVIOUS
  <1>2. ASSUME b > 0 PROVE a * b >= a
    <2>1. PICK c \in Nat : b = c + 1
      <3>1. b - 1 \in Nat /\ b = (b - 1) + 1
        BY <1>2
      <3> QED
        BY <3>1
    <2>2. PICK p : p = a * c
      OBVIOUS
    <2>3. p \in Nat /\ a * b = p + a
      BY <1>1, <2>1, <2>2
    <2> QED
      BY <2>3
  <1> QED
    BY <1>1, <1>2

LEMMA BudgetIs ==
  ASSUME Counted
  PROVE  Budget \in Nat /\ (count.lost > 0 => Budget >= REPEAT_DIFF)
  <1>1. REPEAT_DIFF \in Nat /\ count.lost \in Nat
    BY PanelBounds DEF Counted
  <1> QED
    BY <1>1, Product DEF Budget

LEMMA BudgetStep ==
  ASSUME Counted
  PROVE  /\ count'.lost = count.lost => Budget' = Budget
         /\ count'.lost = count.lost + 1 => Budget' = Budget + REPEAT_DIFF
  <1>1. REPEAT_DIFF \in Nat /\ count.lost \in Nat
    BY PanelBounds DEF Counted
  <1> QED
    BY <1>1, Product DEF Budget

LEMMA BudgetEnough ==
  ASSUME Counted, Timely
  PROVE  Budget + REPEAT_DIFF <= BUTTON_TIMEOUT
  <1>1. REPEAT_DIFF \in Nat /\ count.lost \in Nat /\ MaxLost \in Nat /\ count.lost <= MaxLost
    BY PanelBounds, PanelAssumption DEF Counted
  <1>2. \A a, b, c \in Nat : b <= c => a * (b + 1) <= (c + 1) * a
    OBVIOUS
  <1>3. REPEAT_DIFF * (count.lost + 1) <= (MaxLost + 1) * REPEAT_DIFF
    BY <1>1, <1>2
  <1>4. Budget + REPEAT_DIFF = REPEAT_DIFF * (count.lost + 1) /\ Budget + REPEAT_DIFF \in Nat
    BY <1>1, Product DEF Budget
  <1>5. (MaxLost + 1) * REPEAT_DIFF \in Nat /\ BUTTON_TIMEOUT \in Nat
    BY <1>1, Product, ButtonAssumption
  <1>6. PICK p, q : p = Budget + REPEAT_DIFF /\ q = (MaxLost + 1) * REPEAT_DIFF
    OBVIOUS
  <1>7. p <= q /\ q <= BUTTON_TIMEOUT /\ p \in Nat /\ q \in Nat
    BY <1>3, <1>4, <1>5, <1>6 DEF Timely
  <1>8. p <= BUTTON_TIMEOUT
    BY <1>5, <1>7
  <1> QED
    BY <1>6, <1>8

(* What is allowed is never negative, and never more than the DO31 allows. *)
LEMMA AllowedIs ==
  ASSUME Counted, NEW d \in Do31, Refused(d), NEW n \in Node, sequence[n].stamp \in Nat
  PROVE  /\ Allowed(d, n) \in Nat
         /\ sequence[n].stamp <= REPEAT_DIFF => Allowed(d, n) <= Budget + REPEAT_DIFF
  <1>1. /\ Budget \in Nat /\ REPEAT_DIFF \in Nat
        /\ do31[d].retry # None => Budget >= REPEAT_DIFF
    BY BudgetIs, PanelBounds DEF Refused
  <1> HIDE DEF Budget
  <1> QED
    BY <1>1 DEF Allowed

LEMMA AllowedNext ==
  ASSUME Counted', NEW d \in Do31, Refused(d)', NEW n \in Node, sequence'[n].stamp \in Nat
  PROVE  Allowed(d, n)' \in Nat
  <1>1. /\ REPEAT_DIFF \in Nat /\ count'.lost \in Nat /\ MaxLost \in Nat
        /\ do31'[d].retry # None => count'.lost > 0
    BY PanelBounds, PanelAssumption DEF Counted, Refused
  <1>2. PICK b : b = REPEAT_DIFF * count'.lost
    OBVIOUS
  <1>3. b \in Nat /\ (do31'[d].retry # None => b >= REPEAT_DIFF)
    BY <1>1, <1>2, Product
  <1>4. Budget' = b
    BY <1>2 DEF Budget
  <1> QED
    BY <1>1, <1>3, <1>4 DEF Allowed

LEMMA AllowedGrows ==
  ASSUME Counted, Counted', NEW d \in Do31, Refused(d), NEW n \in Node, sequence[n].stamp \in Nat,
         sequence'[n] = sequence[n],
         \/ count'.lost = count.lost + 1
         \/ /\ count'.lost = count.lost /\ (do31'[d].retry # None => do31[d].retry # None)
            /\ out[n] # <<>> /\ do31[d].retry = None => out'[n] # <<>>
  PROVE  Allowed(d, n) <= Allowed(d, n)'
  <1>1. /\ Budget \in Nat /\ REPEAT_DIFF \in Nat
        /\ count'.lost = count.lost => Budget' = Budget
        /\ count'.lost = count.lost + 1 => Budget' = Budget + REPEAT_DIFF
    BY BudgetIs, BudgetStep, PanelBounds
  <1>2. PICK b, c : b = Budget /\ c = Budget'
    OBVIOUS
  <1>3. CASE count'.lost = count.lost + 1
    <2>1. b \in Nat /\ c = b + REPEAT_DIFF
      BY <1>1, <1>2, <1>3
    <2>2. CASE sequence[n].stamp = 0
      BY <1>1, <1>2, <2>1, <2>2 DEF Allowed
    <2>3. CASE sequence[n].stamp # 0
      BY <1>1, <1>2, <2>1, <2>3 DEF Allowed
    <2> QED
      BY <2>2, <2>3
  <1>4. CASE /\ count'.lost = count.lost /\ (do31'[d].retry # None => do31[d].retry # None)
             /\ out[n] # <<>> /\ do31[d].retry = None => out'[n] # <<>>
    <2>1. b \in Nat /\ c = b
      BY <1>1, <1>2, <1>4
    <2>2. CASE sequence[n].stamp = 0
      BY <1>1, <1>2, <1>4, <2>1, <2>2 DEF Allowed
    <2>3. CASE sequence[n].stamp # 0
      BY <1>1, <1>2, <1>4, <2>1, <2>3 DEF Allowed
    <2> QED
      BY <2>2, <2>3
  <1> QED
    BY <1>3, <1>4

LEMMA Stamps ==
  ASSUME Types, NEW n \in Node
  PROVE  /\ sequence[n] \in Sequences /\ sequence[n].stamp \in Nat
         /\ \A d \in Do31 : \A e \in do31[d].list : e.age \in Nat
  <1>1. sequence[n] \in Sequences
    BY DEF Types
  <1>2. ASSUME NEW d \in Do31, NEW e \in do31[d].list PROVE e.age \in Nat
    <2>1. do31[d].list \in Lists
      BY DEF Types, Receivers
    <2> QED
      BY <2>1 DEF Lists
  <1> QED
    BY <1>1, <1>2 DEF Sequences

(* A button that is heard of is kept, and so is one whose entry stays. *)
LEMMA KeptAnew ==
  ASSUME Types', Counted', NEW d \in Do31, Refused(d)', NEW n \in Node, NEW k \in Numbers,
         <<n, k>> \in do31'[d].pressed,
         \A e \in do31'[d].list : e.key = <<n, k>> => e.age = 0
  PROVE  Kept(d, n, k)'
  <1>1. Allowed(d, n)' \in Nat
    <2>1. sequence'[n].stamp \in Nat
      BY DEF Types, Sequences
    <2> QED
      BY <2>1, AllowedNext
  <1> QED
    BY <1>1 DEF Kept

LEMMA KeptStays ==
  ASSUME Types, Types', Counted, Counted', NEW d \in Do31, Refused(d), Refused(d)', NEW n \in Node, NEW k \in Numbers,
         Kept(d, n, k), <<n, k>> \in do31'[d].pressed,
         \A e \in do31'[d].list : e.key = <<n, k>> => e \in do31[d].list \/ e.age = 0,
         \A j \in DOMAIN out'[n] : \E l \in DOMAIN out[n] : out'[n][j] = out[n][l],
         sequence'[n] = sequence[n],
         \/ count'.lost = count.lost + 1
         \/ /\ count'.lost = count.lost /\ (do31'[d].retry # None => do31[d].retry # None)
            /\ out[n] # <<>> /\ do31[d].retry = None => out'[n] # <<>>
  PROVE  Kept(d, n, k)'
  <1>1. sequence[n].stamp \in Nat /\ sequence'[n].stamp \in Nat
    BY DEF Types, Sequences
  <1>2. Allowed(d, n) \in Nat /\ Allowed(d, n)' \in Nat
    BY <1>1, AllowedIs, AllowedNext
  <1>3. Allowed(d, n) <= Allowed(d, n)'
    BY <1>1, AllowedGrows
  <1>4. ASSUME NEW e \in do31'[d].list, e.key = <<n, k>>
        PROVE  e.age <= Allowed(d, n)' /\ (e.age > 0 => \A j \in DOMAIN out'[n] : k \in out'[n][j].state)
    <2>1. CASE e.age = 0
      BY <1>2, <2>1
    <2>2. CASE e \in do31[d].list
      <3>1. e.age \in Nat /\ e.age <= Allowed(d, n)
        BY <1>4, <2>2, Stamps DEF Kept
      <3>2. e.age <= Allowed(d, n)'
        <4> HIDE DEF Allowed
        <4> QED
          BY <1>2, <1>3, <3>1
      <3>3. e.age > 0 => \A j \in DOMAIN out[n] : k \in out[n][j].state
        BY <1>4, <2>2 DEF Kept
      <3> QED
        BY <3>2, <3>3
    <2> QED
      BY <1>4, <2>1, <2>2
  <1> QED
    BY <1>4 DEF Kept
LEMMA LostOne ==
  ASSUME Counted, count.lost < MaxLost, Count("lost")
  PROVE  Counted' /\ count'.lost = count.lost + 1
  <1>1. count.lost \in Nat /\ MaxLost \in Nat
    BY PanelAssumption DEF Counted
  <1>2. count' = [count EXCEPT !.lost = count.lost + 1]
    BY DEF Count
  <1> QED
    BY <1>1, <1>2 DEF Counted

LEMMA LostNone ==
  ASSUME Counted, NEW what \in {"changes", "garbled", "restarts"}, Count(what) \/ UNCHANGED count
  PROVE  Counted' /\ count'.lost = count.lost
  <1>1. CASE UNCHANGED count
    BY <1>1 DEF Counted
  <1>2. CASE Count(what)
    <2>1. CASE what = "changes"
      BY <1>2, <2>1 DEF Counted, Count
    <2>2. CASE what = "garbled"
      BY <1>2, <2>2 DEF Counted, Count
    <2>3. CASE what = "restarts"
      BY <1>2, <2>3 DEF Counted, Count
    <2> QED
      BY <2>1, <2>2, <2>3
  <1> QED
    BY <1>1, <1>2

(* Entries are only refreshed or removed when a DO31 hears a telegram. *)
LEMMA EnteredEntries ==
  ASSUME NEW list, NEW n, NEW state \in SUBSET Numbers, NEW k \in Numbers, NEW e \in Entered(list, n, state)
  PROVE  e \in list \/ e.age = 0
  BY DEF Entered, Noted, Entry

LEMMA EnteredFresh ==
  ASSUME NEW list, NEW n, NEW state \in SUBSET Numbers, NEW k \in state, NEW e \in Entered(list, n, state),
         e.key = <<n, k>>
  PROVE  e.age = 0
  <1>1. ASSUME NEW l, NEW key, NEW f \in Noted(l, key), f.key = key PROVE f.age = 0
    BY <1>1 DEF Noted, Entry, IsNew, Keys
  <1>2. PICK first : first = IF 1 \in state THEN Noted(list, <<n, 1>>) ELSE list
    OBVIOUS
  <1>3. Entered(list, n, state) = IF 2 \in state THEN Noted(first, <<n, 2>>) ELSE first
    BY <1>2 DEF Entered
  <1>4. CASE k = 2
    BY <1>1, <1>3, <1>4
  <1>5. CASE k = 1
    <2>1. e \in first \/ e.age = 0
      BY <1>3 DEF Noted, Entry
    <2>2. first = Noted(list, <<n, 1>>)
      BY <1>2, <1>5
    <2> QED
      BY <1>1, <1>5, <2>1, <2>2
  <1> QED
    BY <1>4, <1>5 DEF Numbers

LEMMA HeardEntries ==
  ASSUME Types, NEW d \in Do31, NEW t \in Telegrams, NEW n \in Node, NEW k \in Numbers
  PROVE  LET r == do31[d]
             h == Heard(d, t)
             of == {e \in h.list : e.key = <<n, k>>}
         IN
         /\ <<n, k>> \in r.pressed => <<n, k>> \in h.pressed
         /\ \A e \in of : e \in r.list \/ e.age = 0
         /\ r.retry = None /\ t.type = "Garbled" => \A e \in of : e.age = 0
         /\ r.retry = None /\ t.type = "ButtonPressed" /\ t.from = n /\ k \in t.state =>
              <<n, k>> \in h.pressed /\ \A e \in of : e.age = 0
  <1>1. do31[d] \in Receivers /\ t.state \in SUBSET Numbers
    BY DEF Types, Telegrams
  <1>2. CASE do31[d].retry # None
    BY <1>2 DEF Heard
  <1>3. CASE do31[d].retry = None /\ t.type = "Garbled"
    <2>1. Heard(d, t) = [do31[d] EXCEPT !.list = Refreshed(@)]
      BY <1>3 DEF Heard
    <2>2. Heard(d, t).list = Refreshed(do31[d].list) /\ Heard(d, t).pressed = do31[d].pressed
      BY <1>1, <2>1 DEF Receivers
    <2>3. \A e \in Heard(d, t).list : e.age = 0
      BY <2>2 DEF Refreshed, Entry
    <2> QED
      BY <1>3, <2>2, <2>3
  <1>4. CASE do31[d].retry = None /\ t.type = "ButtonPressed"
    <2>1. Heard(d, t) = Told(do31[d], t.from, t.state)
      BY <1>4 DEF Heard
    <2>2. /\ Heard(d, t).list = Entered(do31[d].list, t.from, t.state)
          /\ Heard(d, t).pressed = do31[d].pressed \union {<<t.from, j>> : j \in t.state}
      BY <1>1, <2>1 DEF Told, Receivers
    <2>3. \A e \in Heard(d, t).list : e \in do31[d].list \/ e.age = 0
      BY <1>1, <2>2, EnteredEntries
    <2>4. t.from = n /\ k \in t.state => \A e \in Heard(d, t).list : e.key = <<n, k>> => e.age = 0
      BY <1>1, <2>2, EnteredFresh
    <2> QED
      BY <1>4, <2>2, <2>3, <2>4
  <1>5. CASE do31[d].retry = None /\ t.type \notin {"Garbled", "ButtonPressed"}
    <2>1. Heard(d, t).list = do31[d].list /\ Heard(d, t).pressed = do31[d].pressed
      <3>1. CASE t.type = "ReqSwitchState" /\ t.to = d
        <4>1. Heard(d, t) = [do31[d] EXCEPT !.sw8[t.from] = t.state]
          BY <1>5, <3>1 DEF Heard
        <4> QED
          BY <1>1, <4>1 DEF Receivers
      <3>2. CASE ~(t.type = "ReqSwitchState" /\ t.to = d)
        BY <1>5, <3>2 DEF Heard
      <3> QED
        BY <3>1, <3>2
    <2> QED
      BY <1>5, <2>1
  <1> QED
    BY <1>2, <1>3, <1>4, <1>5

(* What is sent is announced, and a response announces no button. *)
LEMMA HeadAnnounced ==
  ASSUME Types, NEW x \in Address, Announced(x), out[x] # <<>>
  PROVE  Announces(x, Head(out[x])) /\ 1 \in DOMAIN out[x] /\ Head(out[x]) = out[x][1]
  <1>1. out[x] \in Seq(Telegrams)
    BY DEF Types
  <1>2. PICK m : m = Len(out[x])
    OBVIOUS
  <1>3. m \in Nat /\ m # 0 /\ DOMAIN out[x] = 1 .. m
    BY <1>1, <1>2
  <1>4. 1 \in DOMAIN out[x]
    BY <1>3
  <1>5. Head(out[x]) = out[x][1]
    BY <1>1
  <1> QED
    BY <1>4, <1>5 DEF Announced

LEMMA BroadcastHeld ==
  ASSUME PanelInv, PanelInv', HeldInv, NEW x \in Address, out[x] # <<>>, NEW t \in Telegrams, NEW refusing \in SUBSET Do31,
         t = Head(out[x]) \/ t.type = "Garbled", \A d \in refusing : Answer(d, t) # None,
         Broadcast(x, t, refusing), Counted',
         \/ count'.lost = count.lost + 1
         \/ count'.lost = count.lost /\ \A d \in refusing : do31[d].retry # None
  PROVE  HeldInv'
  <1>1. Types /\ Types' /\ Counted /\ Node \intersect Do31 = {}
    BY PanelAssumption DEF PanelInv, HeldInv
  <1>2. UNCHANGED <<inputType, input, sequence, ran>>
    BY DEF Broadcast
  <1>3. ASSUME NEW d \in Do31
        PROVE  /\ do31'[d].retry = IF d \in refusing THEN Answer(d, t) ELSE None
               /\ do31'[d].list = Heard(d, t).list /\ do31'[d].pressed = Heard(d, t).pressed
    <2>1. Heard(d, t) \in Receivers
      BY <1>1, HeardIs DEF PanelInv
    <2>2. PICK a : a = IF d \in refusing THEN Answer(d, t) ELSE None
      OBVIOUS
    <2>3. do31'[d] = [Heard(d, t) EXCEPT !.retry = a]
      BY <2>2 DEF Broadcast
    <2> QED
      BY <2>1, <2>2, <2>3 DEF Receivers
  <1>4. ASSUME NEW d \in Do31, Answer(d, t) # None
        PROVE  Answer(d, t).type # "ButtonPressed"
    <2>1. CASE do31[d].retry # None
      BY <1>1, <2>1, AnswerIs DEF HeldInv, Refused
    <2>2. CASE do31[d].retry = None
      <3>1. Answer(d, t) = Telegram("RespSwitchState", d, t.from, t.state)
        BY <1>1, <1>4, <2>2, AnswerIs
      <3> QED
        BY <3>1 DEF Telegram
    <2> QED
      BY <2>1, <2>2
  <1>5. ASSUME NEW d \in Do31 PROVE Refused(d)'
    <2> SUFFICES ASSUME do31'[d].retry # None
                 PROVE  count'.lost > 0 /\ do31'[d].retry.type # "ButtonPressed"
      BY DEF Refused
    <2>1. d \in refusing /\ do31'[d].retry = Answer(d, t)
      BY <1>3
    <2>2. count.lost \in Nat
      BY <1>1 DEF Counted
    <2>3. CASE count'.lost = count.lost + 1
      BY <1>4, <2>1, <2>2, <2>3
    <2>4. CASE count'.lost = count.lost /\ \A e \in refusing : do31[e].retry # None
      BY <1>4, <2>1, <2>2, <2>4 DEF HeldInv, Refused
    <2> QED
      BY <2>3, <2>4
  <1>6. ASSUME NEW y \in Address, NEW j \in DOMAIN out'[y]
        PROVE  \/ \E l \in DOMAIN out[y] : out'[y][j] = out[y][l]
               \/ y \in Do31 /\ out'[y][j] = Answer(y, t) /\ Answer(y, t) # None
    <2>1. PICK drop \in {0, 1} : drop = 1 <=> y = x
      <3>1. CASE y = x
        BY <3>1
      <3>2. CASE y # x
        BY <3>2
      <3> QED
        BY <3>1, <3>2
    <2> QED
      BY <1>1, <2>1, BroadcastBuffers
  <1>7. ASSUME NEW y \in Address PROVE Announced(y)'
    <2>1. Announced(y)
      BY DEF HeldInv
    <2>2. ASSUME NEW j \in DOMAIN out'[y] PROVE Announces(y, out'[y][j])
      <3>1. CASE \E l \in DOMAIN out[y] : out'[y][j] = out[y][l]
        BY <2>1, <3>1 DEF Announced
      <3>2. CASE y \in Do31 /\ out'[y][j] = Answer(y, t) /\ Answer(y, t) # None
        BY <1>1, <1>4, <3>2 DEF Announces
      <3> QED
        BY <1>6, <3>1, <3>2
    <2> QED
      BY <1>2, <2>2 DEF Announced, Announces
  <1>8. ASSUME NEW n \in Node
        PROVE  /\ n # x => out'[n] = out[n]
               /\ \A j \in DOMAIN out'[n] : \E l \in DOMAIN out[n] : out'[n][j] = out[n][l]
    <2>1. n \in Address /\ n \notin Do31 /\ out[n] \in Seq(Telegrams) /\ n \in DOMAIN out
      BY <1>1 DEF Address, Types
    <2>2. n # x => out'[n] = out[n] \o <<>>
      BY <2>1 DEF Broadcast
    <2>3. out[n] \o <<>> = out[n]
      BY <2>1
    <2> QED
      BY <1>6, <2>1, <2>2, <2>3
  <1>9. ASSUME NEW n \in Node, inputType'[n] = "button" PROVE Repeating(n)'
    <2>1. Repeating(n)
      BY <1>2, <1>9 DEF HeldInv
    <2>2. out'[n] # <<>> => out[n] # <<>>
      BY <1>8
    <2> QED
      BY <1>2, <2>1, <2>2 DEF Repeating
  <1>10. steady' = steady \union {key \in Do31 \X Node \X Numbers :
           t.type = "ButtonPressed" /\ key[2] = t.from /\ key[3] \in t.state \intersect input[t.from]
           /\ do31[key[1]].retry = None}
    BY DEF Broadcast, Numbers
  <1>11. steady' \subseteq Do31 \X Node \X Numbers
    BY <1>10 DEF HeldInv
  <1>12. t.type = "ButtonPressed" =>
           x \in Node /\ t.from = x /\ inputType[x] = "button" /\ 1 \in DOMAIN out[x] /\ t = out[x][1]
    BY <1>1, HeadAnnounced DEF HeldInv, Announces
  <1>13. ASSUME NEW d \in Do31, NEW n \in Node, NEW k \in Numbers PROVE SteadyKept(d, n, k)'
    <2> SUFFICES ASSUME <<d, n, k>> \in steady'
                 PROVE  /\ inputType[n] = "button" /\ k \in input[n]
                        /\ sequence[n].state # "TIMEOUT" => Kept(d, n, k)'
      BY <1>2 DEF SteadyKept
    <2> DEFINE Tells == do31[d].retry = None /\ t.type = "ButtonPressed" /\ t.from = n
               of == {e \in do31'[d].list : e.key = <<n, k>>}
    <2>1. SteadyKept(d, n, k) /\ Refused(d) /\ Refused(d)'
      BY <1>5 DEF HeldInv
    <2>2. <<d, n, k>> \in steady \/ (Tells /\ k \in t.state /\ k \in input[n])
      BY <1>10
    <2>3. inputType[n] = "button" /\ k \in input[n]
      BY <1>12, <2>1, <2>2 DEF SteadyKept
    <2>4. /\ <<n, k>> \in do31[d].pressed => <<n, k>> \in do31'[d].pressed
          /\ \A e \in of : e \in do31[d].list \/ e.age = 0
          /\ do31[d].retry = None /\ t.type = "Garbled" => \A e \in of : e.age = 0
          /\ Tells /\ k \in t.state => <<n, k>> \in do31'[d].pressed /\ \A e \in of : e.age = 0
      <3>1. LET r == do31[d]
                h == Heard(d, t)
                list == {e \in h.list : e.key = <<n, k>>}
            IN
            /\ <<n, k>> \in r.pressed => <<n, k>> \in h.pressed
            /\ \A e \in list : e \in r.list \/ e.age = 0
            /\ r.retry = None /\ t.type = "Garbled" => \A e \in list : e.age = 0
            /\ r.retry = None /\ t.type = "ButtonPressed" /\ t.from = n /\ k \in t.state =>
                 <<n, k>> \in h.pressed /\ \A e \in list : e.age = 0
        BY <1>1, HeardEntries
      <3> QED
        BY <1>3, <3>1
    <2>5. ASSUME sequence[n].state # "TIMEOUT" PROVE Kept(d, n, k)'
      <3>1. CASE Tells /\ k \in t.state
        BY <1>1, <2>1, <2>4, <3>1, KeptAnew
      <3>2. CASE ~(Tells /\ k \in t.state)
        <4>1. Kept(d, n, k) /\ <<n, k>> \in do31'[d].pressed
          BY <2>1, <2>2, <2>4, <2>5, <3>2 DEF SteadyKept, Kept
        <4>2. CASE Tells
          <5>1. n = x /\ k \notin out[n][1].state /\ 1 \in DOMAIN out[n]
            BY <1>12, <3>2, <4>2
          <5>2. ASSUME NEW e \in of PROVE e.age = 0
            <6>1. CASE e \in do31[d].list
              <7>1. e.age \in Nat /\ ~(e.age > 0)
                BY <1>1, <4>1, <5>1, <6>1, Stamps DEF Kept
              <7> QED
                BY <7>1
            <6> QED
              BY <2>4, <6>1
          <5> QED
            BY <1>1, <2>1, <4>1, <5>2, KeptAnew
        <4>3. CASE do31[d].retry = None /\ t.type = "Garbled"
          BY <1>1, <2>1, <2>4, <4>1, <4>3, KeptAnew
        <4>4. CASE ~Tells /\ ~(do31[d].retry = None /\ t.type = "Garbled")
          <5>1. do31[d].retry = None => n # x
            <6> SUFFICES ASSUME do31[d].retry = None, n = x PROVE FALSE
              OBVIOUS
            <6>1. t = Head(out[x])
              BY <4>4
            <6>2. t.type = "ButtonPressed" /\ t.from = n
              BY <1>1, <2>3, <6>1, HeadAnnounced DEF HeldInv, Announces
            <6> QED
              BY <4>4, <6>2
          <5>2. /\ do31[d].retry = None => out'[n] = out[n]
                /\ \A j \in DOMAIN out'[n] : \E l \in DOMAIN out[n] : out'[n][j] = out[n][l]
            BY <1>8, <5>1
          <5>3. do31'[d].retry # None => d \in refusing
            BY <1>3
          <5>4. sequence'[n] = sequence[n]
            BY <1>2
          <5>5. \/ count'.lost = count.lost + 1
                \/ /\ count'.lost = count.lost /\ (do31'[d].retry # None => do31[d].retry # None)
                   /\ out[n] # <<>> /\ do31[d].retry = None => out'[n] # <<>>
            BY <5>2, <5>3
          <5>6. \A e \in do31'[d].list : e.key = <<n, k>> => e \in do31[d].list \/ e.age = 0
            BY <2>4
          <5> QED
            BY <1>1, <2>1, <4>1, <5>2, <5>4, <5>5, <5>6, KeptStays
        <4> QED
          BY <4>2, <4>3, <4>4
      <3> QED
        BY <3>1, <3>2
    <2> QED
      BY <2>3, <2>5
  <1> QED
    BY <1>1, <1>5, <1>7, <1>9, <1>11, <1>13 DEF HeldInv

LEMMA TransmitHeld ==
  ASSUME PanelInv, PanelInv', HeldInv, NEW x \in Address, Transmit(x)
  PROVE  HeldInv'
  <1>1. PICK refusing \in SUBSET {d \in Do31 : Answer(d, Head(out[x])) # None} :
          Refusing(refusing) /\ Broadcast(x, Head(out[x]), refusing)
    BY DEF Transmit
  <1>2. out[x] # <<>> /\ out[x] \in Seq(Telegrams) /\ Counted
    BY DEF Transmit, PanelInv, Types, HeldInv
  <1>3. Head(out[x]) \in Telegrams
    BY <1>2
  <1>4. refusing \in SUBSET Do31 /\ \A d \in refusing : Answer(d, Head(out[x])) # None
    BY <1>1
  <1>5. /\ Counted'
        /\ \/ count'.lost = count.lost + 1
           \/ count'.lost = count.lost /\ \A d \in refusing : do31[d].retry # None
    <2>1. CASE refusing = {}
      <3>1. UNCHANGED count
        BY <1>1, <2>1 DEF Refusing
      <3> QED
        BY <1>2, <2>1, <3>1, LostNone
    <2>2. CASE refusing # {}
      <3>1. count.lost < MaxLost /\ Count("lost")
        BY <1>1, <2>2 DEF Refusing
      <3> QED
        BY <1>2, <3>1, LostOne
    <2> QED
      BY <2>1, <2>2
  <1> QED
    BY <1>1, <1>2, <1>3, <1>4, <1>5, BroadcastHeld

LEMMA GarbleHeld ==
  ASSUME PanelInv, PanelInv', HeldInv, NEW x \in Address, Garble(x)
  PROVE  HeldInv'
  <1>1. PICK t, refusing : t = Telegram("Garbled", x, Do31, {}) /\ refusing = {d \in Do31 : do31[d].retry # None}
    OBVIOUS
  <1>2. out[x] # <<>> /\ Broadcast(x, t, refusing) /\ Count("garbled")
    BY <1>1 DEF Garble
  <1>3. t \in Telegrams /\ t.type = "Garbled"
    BY <1>1 DEF Telegrams, Telegram
  <1>4. refusing \in SUBSET Do31 /\ \A d \in refusing : Answer(d, t) # None /\ do31[d].retry # None
    <2>1. Types
      BY DEF PanelInv
    <2> QED
      BY <1>1, <1>3, <2>1, AnswerIs
  <1>5. Counted' /\ count'.lost = count.lost
    BY <1>2, LostNone DEF HeldInv
  <1> QED
    BY <1>2, <1>3, <1>4, <1>5, BroadcastHeld
(* Steps that no button node takes, and in which no DO31 hears anything *)
LEMMA QuietHeld ==
  ASSUME PanelInv, PanelInv', HeldInv, Counted', UNCHANGED <<inputType, sequence>>, steady' \subseteq steady,
         \A x \in Address : \A j \in DOMAIN out'[x] :
           (\E l \in DOMAIN out[x] : out'[x][j] = out[x][l]) \/ Announces(x, out'[x][j]),
         \A n \in Node : inputType[n] = "button" =>
           /\ n \in ran' => n \in ran /\ input'[n] = input[n]
           /\ out'[n] # <<>> => out[n] # <<>>
           /\ \A j \in DOMAIN out'[n] : \E l \in DOMAIN out[n] : out'[n][j] = out[n][l],
         \A d \in Do31 : Refused(d)',
         \A d \in Do31, n \in Node, k \in Numbers : <<d, n, k>> \in steady' =>
           /\ k \in input'[n] /\ do31'[d].list = do31[d].list /\ do31'[d].pressed = do31[d].pressed
           /\ \/ count'.lost = count.lost + 1
              \/ /\ count'.lost = count.lost /\ (do31'[d].retry # None => do31[d].retry # None)
                 /\ out[n] # <<>> /\ do31[d].retry = None => out'[n] # <<>>
  PROVE  HeldInv'
  <1>1. Types /\ Types' /\ Counted /\ steady' \subseteq Do31 \X Node \X Numbers
    BY DEF PanelInv, HeldInv
  <1>2. ASSUME NEW x \in Address PROVE Announced(x)'
    <2>1. Announced(x)
      BY DEF HeldInv
    <2>2. ASSUME NEW j \in DOMAIN out'[x] PROVE Announces(x, out'[x][j])
      BY <2>1 DEF Announced
    <2> QED
      BY <2>2 DEF Announced, Announces
  <1>3. ASSUME NEW n \in Node, inputType'[n] = "button" PROVE Repeating(n)'
    <2>1. Repeating(n) /\ inputType[n] = "button"
      BY <1>3 DEF HeldInv
    <2> QED
      BY <2>1 DEF Repeating
  <1>4. ASSUME NEW d \in Do31, NEW n \in Node, NEW k \in Numbers PROVE SteadyKept(d, n, k)'
    <2> SUFFICES ASSUME <<d, n, k>> \in steady'
                 PROVE  /\ inputType[n] = "button" /\ k \in input'[n]
                        /\ sequence[n].state # "TIMEOUT" => Kept(d, n, k)'
      BY DEF SteadyKept
    <2>1. SteadyKept(d, n, k) /\ Refused(d) /\ Refused(d)' /\ <<d, n, k>> \in steady
      BY DEF HeldInv
    <2>2. inputType[n] = "button" /\ (sequence[n].state # "TIMEOUT" => Kept(d, n, k))
      BY <2>1 DEF SteadyKept
    <2>3. ASSUME Kept(d, n, k) PROVE Kept(d, n, k)'
      <3>1. <<n, k>> \in do31'[d].pressed /\ sequence'[n] = sequence[n]
        BY <2>3 DEF Kept
      <3> QED
        BY <1>1, <2>1, <2>2, <2>3, <3>1, KeptStays
    <2> QED
      BY <2>2, <2>3
  <1> QED
    BY <1>1, <1>2, <1>3, <1>4 DEF HeldInv

LEMMA LoseHeld ==
  ASSUME PanelInv, PanelInv', HeldInv, NEW x \in Address, Lose(x)
  PROVE  HeldInv'
  <1>1. /\ out[x] # <<>> /\ out' = [out EXCEPT ![x] = Tail(@)] /\ count.lost < MaxLost /\ Count("lost")
        /\ UNCHANGED <<inputType, input, switch, sequence, do31, ran, steady>>
    BY DEF Lose, observed
  <1>2. Types /\ out[x] \in Seq(Telegrams) /\ Counted
    BY DEF PanelInv, Types, HeldInv
  <1>3. Counted' /\ count'.lost = count.lost + 1
    BY <1>1, <1>2, LostOne
  <1>4. PICK m : m = Len(out[x])
    OBVIOUS
  <1>5. /\ m \in Nat /\ DOMAIN Tail(out[x]) = 1 .. m - 1 /\ DOMAIN out[x] = 1 .. m
        /\ \A j \in 1 .. m - 1 : Tail(out[x])[j] = out[x][j + 1]
    BY <1>1, <1>2, <1>4, HeadTailProperties
  <1>6. \A j \in 1 .. m - 1 : j + 1 \in 1 .. m
    BY <1>5
  <1>7. \A j \in DOMAIN Tail(out[x]) : \E l \in DOMAIN out[x] : Tail(out[x])[j] = out[x][l]
    BY <1>5, <1>6
  <1>8. out'[x] = Tail(out[x]) /\ \A y \in Address \ {x} : out'[y] = out[y]
    BY <1>1, <1>2 DEF Types
  <1>9. \A y \in Address : \A j \in DOMAIN out'[y] : \E l \in DOMAIN out[y] : out'[y][j] = out[y][l]
    <2> SUFFICES ASSUME NEW y \in Address, NEW j \in DOMAIN out'[y]
                 PROVE  \E l \in DOMAIN out[y] : out'[y][j] = out[y][l]
      OBVIOUS
    <2>1. CASE y = x
      BY <1>7, <1>8, <2>1
    <2>2. CASE y # x
      BY <1>8, <2>2
    <2> QED
      BY <2>1, <2>2
  <1>10. \A n \in Node : n \in Address /\ (out'[n] # <<>> => out[n] # <<>>)
    BY <1>1, <1>8 DEF Address
  <1>11. ASSUME NEW d \in Do31 PROVE Refused(d)'
    <2>1. Refused(d) /\ count.lost \in Nat
      BY <1>2 DEF HeldInv, Counted
    <2> QED
      BY <1>1, <1>3, <2>1 DEF Refused
  <1>12. ASSUME NEW d \in Do31, NEW n \in Node, NEW k \in Numbers, <<d, n, k>> \in steady'
         PROVE  k \in input'[n] /\ do31'[d].list = do31[d].list /\ do31'[d].pressed = do31[d].pressed
    BY <1>1, <1>12 DEF HeldInv, SteadyKept
  <1> QED
    BY <1>1, <1>3, <1>9, <1>10, <1>11, <1>12, QuietHeld

LEMMA RetryHeld ==
  ASSUME PanelInv, PanelInv', HeldInv, NEW d \in Do31, Retry(d)
  PROVE  HeldInv'
  <1>1. PICK t : t = do31[d].retry
    OBVIOUS
  <1>2. /\ t # None /\ out' = [out EXCEPT ![d] = Append(@, t)] /\ do31' = [do31 EXCEPT ![d].retry = None]
        /\ UNCHANGED <<inputType, input, sequence, ran, steady, count>>
    BY <1>1 DEF Retry, observed
  <1>3. Types /\ d \in Address /\ d \notin Node
    BY PanelAssumption DEF PanelInv, Address
  <1>4. t \in Telegrams /\ do31[d] \in Receivers /\ out[d] \in Seq(Telegrams) /\ t.type # "ButtonPressed"
    BY <1>1, <1>2, <1>3 DEF Types, Receivers, HeldInv, Refused
  <1>5. /\ do31'[d].retry = None /\ do31'[d].list = do31[d].list /\ do31'[d].pressed = do31[d].pressed
        /\ \A e \in Do31 \ {d} : do31'[e] = do31[e]
    BY <1>2, <1>3, <1>4 DEF Types, Receivers
  <1>6. out'[d] = Append(out[d], t) /\ \A y \in Address \ {d} : out'[y] = out[y]
    BY <1>2, <1>3 DEF Types
  <1>7. \A j \in DOMAIN Append(out[d], t) :
          (j \in DOMAIN out[d] /\ Append(out[d], t)[j] = out[d][j]) \/ Append(out[d], t)[j] = t
    <2>1. PICK m : m = Len(out[d])
      OBVIOUS
    <2>2. /\ m \in Nat /\ DOMAIN out[d] = 1 .. m /\ DOMAIN Append(out[d], t) = 1 .. m + 1
          /\ \A j \in 1 .. m : Append(out[d], t)[j] = out[d][j]
          /\ Append(out[d], t)[m + 1] = t
      BY <1>4, <2>1, AppendIs
    <2>3. \A j \in 1 .. m + 1 : j \in 1 .. m \/ j = m + 1
      BY <2>2
    <2> QED
      BY <2>2, <2>3
  <1>8. Announces(d, t)
    BY <1>3, <1>4 DEF Announces
  <1>9. \A x \in Address : \A j \in DOMAIN out'[x] :
          (\E l \in DOMAIN out[x] : out'[x][j] = out[x][l]) \/ Announces(x, out'[x][j])
    BY <1>6, <1>7, <1>8
  <1>10. \A n \in Node : out'[n] = out[n]
    BY <1>3, <1>6 DEF Address
  <1>11. Counted' /\ count'.lost = count.lost
    BY <1>2, LostNone DEF HeldInv
  <1>12. \A e \in Do31 : Refused(e)'
    BY <1>2, <1>5 DEF HeldInv, Refused
  <1>13. ASSUME NEW e \in Do31, NEW n \in Node, NEW k \in Numbers, <<e, n, k>> \in steady'
         PROVE  k \in input'[n] /\ do31'[e].list = do31[e].list /\ do31'[e].pressed = do31[e].pressed
                /\ (do31'[e].retry # None => do31[e].retry # None)
    BY <1>2, <1>5, <1>13 DEF HeldInv, SteadyKept
  <1> QED
    BY <1>2, <1>9, <1>10, <1>11, <1>12, <1>13, QuietHeld

LEMMA RestartHeld ==
  ASSUME PanelInv, PanelInv', HeldInv, NEW d \in Do31, Restart(d)
  PROVE  HeldInv'
  <1>1. /\ do31' = [do31 EXCEPT ![d] = FreshDo31] /\ out' = [out EXCEPT ![d] = <<>>]
        /\ steady' = {key \in steady : key[1] # d} /\ Count("restarts")
        /\ UNCHANGED <<inputType, input, sequence, ran>>
    BY DEF Restart
  <1>2. Types /\ d \in Address /\ d \notin Node
    BY PanelAssumption DEF PanelInv, Address
  <1>3. /\ do31'[d].retry = None /\ \A e \in Do31 \ {d} : do31'[e] = do31[e]
        /\ out'[d] = <<>> /\ \A y \in Address \ {d} : out'[y] = out[y]
    BY <1>1, <1>2 DEF Types, FreshDo31
  <1>4. Counted' /\ count'.lost = count.lost
    BY <1>1, LostNone DEF HeldInv
  <1>5. \A x \in Address : \A j \in DOMAIN out'[x] : \E l \in DOMAIN out[x] : out'[x][j] = out[x][l]
    BY <1>3
  <1>6. \A n \in Node : out'[n] = out[n]
    BY <1>2, <1>3 DEF Address
  <1>7. ASSUME NEW e \in Do31 PROVE Refused(e)'
    <2>1. Refused(e)
      BY DEF HeldInv
    <2> QED
      BY <1>3, <1>4, <2>1 DEF Refused
  <1>8. ASSUME NEW e \in Do31, NEW n \in Node, NEW k \in Numbers, <<e, n, k>> \in steady'
        PROVE  k \in input'[n] /\ do31'[e] = do31[e]
    <2>1. <<e, n, k>> \in steady /\ e # d
      BY <1>1, <1>8
    <2> QED
      BY <1>1, <1>3, <2>1 DEF HeldInv, SteadyKept
  <1> QED
    BY <1>1, <1>4, <1>5, <1>6, <1>7, <1>8, QuietHeld

LEMMA ChangeHeld ==
  ASSUME PanelInv, PanelInv', HeldInv, NEW n \in Node, Change(n)
  PROVE  HeldInv'
  <1>1. PICK s \in SUBSET Wired(n) : input' = [input EXCEPT ![n] = s]
    BY DEF Change
  <1>2. /\ ran' = ran \ {n} /\ Count("changes") /\ steady' = {key \in steady : key[2] = n => key[3] \in input'[n]}
        /\ UNCHANGED <<inputType, sequence, out, do31>>
    BY DEF Change
  <1>3. Counted' /\ count'.lost = count.lost
    BY <1>2, LostNone DEF HeldInv
  <1>4. \A m \in Node \ {n} : input'[m] = input[m]
    BY <1>1 DEF PanelInv, Types
  <1>5. \A e \in Do31 : Refused(e)'
    BY <1>2, <1>3 DEF HeldInv, Refused
  <1>6. ASSUME NEW e \in Do31, NEW m \in Node, NEW k \in Numbers, <<e, m, k>> \in steady'
        PROVE  k \in input'[m]
    <2>1. <<e, m, k>> \in steady /\ (m = n => k \in input'[n])
      BY <1>2, <1>6
    <2>2. k \in input[m]
      BY <2>1 DEF HeldInv, SteadyKept
    <2> QED
      BY <1>4, <2>1, <2>2
  <1>7. steady' \subseteq steady
    BY <1>2
  <1> QED
    BY <1>2, <1>3, <1>4, <1>5, <1>6, <1>7, QuietHeld

LEMMA SwitchHeld ==
  ASSUME PanelInv, PanelInv', HeldInv, NEW n \in Node, ProcessSwitch(n)
  PROVE  HeldInv'
  <1>1. inputType[n] = "switch" /\ ran' = ran \union {n} /\ UNCHANGED <<inputType, input, sequence, do31, steady, count>>
    BY DEF ProcessSwitch, observed
  <1>2. PICK e \in Seq(Telegrams) :
          /\ out' = [out EXCEPT ![n] = @ \o e]
          /\ e = <<>> \/ (Len(e) = 1 /\ e[1].type = "ReqSwitchState")
    <2>1. PICK e \in Seq(Telegrams) :
            /\ out' = [out EXCEPT ![n] = @ \o e]
            /\ \/ e = <<>> /\ (Waiting(n) => switch'[n] = switch[n])
               \/ /\ ~Waiting(n) /\ Waiting(n)' /\ Len(e) = 1
                  /\ e[1] = Telegram("ReqSwitchState", n, ClientList[switch'[n].client], switch'[n].actual)
      BY SwitchRuns
    <2>2. e = <<>> \/ (Len(e) = 1 /\ e[1].type = "ReqSwitchState")
      BY <2>1 DEF Telegram
    <2> QED
      BY <2>1, <2>2
  <1>3. Types /\ n \in Address /\ out[n] \in Seq(Telegrams)
    BY DEF PanelInv, Types, Address
  <1>4. out'[n] = out[n] \o e /\ \A y \in Address \ {n} : out'[y] = out[y]
    BY <1>2, <1>3 DEF Types
  <1>5. ASSUME NEW j \in DOMAIN out'[n]
        PROVE  (j \in DOMAIN out[n] /\ out'[n][j] = out[n][j]) \/ Announces(n, out'[n][j])
    <2>1. CASE e = <<>>
      BY <1>3, <1>4, <2>1
    <2>2. CASE Len(e) = 1 /\ e[1].type = "ReqSwitchState"
      <3>1. PICK m : m = Len(out[n])
        OBVIOUS
      <3>2. /\ m \in Nat /\ DOMAIN out[n] = 1 .. m /\ DOMAIN out'[n] = 1 .. m + 1
            /\ \A i \in 1 .. m + 1 : out'[n][i] = IF i <= m THEN out[n][i] ELSE e[i - m]
        <4>1. /\ out'[n] \in Seq(Telegrams) /\ Len(out'[n]) = m + 1 /\ m \in Nat
              /\ \A i \in 1 .. m + 1 : out'[n][i] = IF i <= m THEN out[n][i] ELSE e[i - m]
          <5>1. PICK s : s = out[n]
            OBVIOUS
          <5>2. s \in Seq(Telegrams) /\ e \in Seq(Telegrams) /\ out'[n] = s \o e
            BY <1>2, <1>3, <1>4, <5>1
          <5>3. /\ s \o e \in Seq(Telegrams) /\ Len(s \o e) = Len(s) + Len(e)
                /\ \A i \in 1 .. Len(s) + Len(e) : (s \o e)[i] = IF i <= Len(s) THEN s[i] ELSE e[i - Len(s)]
            BY <5>2, ConcatProperties
          <5> QED
            BY <2>2, <3>1, <5>1, <5>2, <5>3
        <4> QED
          BY <1>3, <3>1, <4>1
      <3>3. CASE j <= m
        BY <3>2, <3>3
      <3>4. CASE ~(j <= m)
        <4>1. j - m = 1 /\ out'[n][j] = e[1]
          BY <3>2, <3>4
        <4> QED
          BY <1>1, <2>2, <4>1 DEF Announces
      <3> QED
        BY <3>3, <3>4
    <2> QED
      BY <1>2, <2>1, <2>2
  <1>6. \A x \in Address : \A j \in DOMAIN out'[x] :
          (\E l \in DOMAIN out[x] : out'[x][j] = out[x][l]) \/ Announces(x, out'[x][j])
    BY <1>4, <1>5
  <1>7. \A m \in Node : inputType[m] = "button" => m # n /\ out'[m] = out[m]
    BY <1>1, <1>4 DEF Address
  <1>8. Counted' /\ count'.lost = count.lost
    BY <1>1, LostNone DEF HeldInv
  <1>9. \A d \in Do31 : Refused(d)'
    BY <1>1 DEF HeldInv, Refused
  <1>10. ASSUME NEW d \in Do31, NEW m \in Node, NEW k \in Numbers, <<d, m, k>> \in steady'
         PROVE  k \in input'[m] /\ out'[m] = out[m]
    BY <1>1, <1>7, <1>10 DEF HeldInv, SteadyKept
  <1>11. \A m \in Node : inputType[m] = "button" => (m \in ran' => m \in ran)
    BY <1>1, <1>7
  <1> QED
    BY <1>1, <1>6, <1>7, <1>8, <1>9, <1>10, <1>11, QuietHeld
(* A repetition comes before the entry is overdue. *)
LEMMA NotOverdue ==
  ASSUME PanelInv, HeldInv, Timely, NEW d \in Do31, NEW n \in Node, NEW k \in Numbers, <<d, n, k>> \in steady,
         sequence[n].state # "TIMEOUT"
  PROVE  <<n, k>> \notin Overdue(do31[d].list)
  <1>1. Types /\ Counted /\ Refused(d) /\ SteadyKept(d, n, k)
    BY DEF PanelInv, HeldInv
  <1>2. Repeating(n) /\ Kept(d, n, k)
    BY <1>1 DEF HeldInv, SteadyKept
  <1>3. sequence[n].stamp \in Nat /\ sequence[n].stamp <= REPEAT_DIFF /\ Budget + REPEAT_DIFF <= BUTTON_TIMEOUT
    BY <1>1, <1>2, Stamps, BudgetEnough DEF Repeating
  <1>4. Allowed(d, n) \in Nat /\ Allowed(d, n) <= Budget + REPEAT_DIFF
    BY <1>1, <1>3, AllowedIs
  <1>5. PICK a, b : a = Allowed(d, n) /\ b = Budget + REPEAT_DIFF
    OBVIOUS
  <1>6. b \in Nat /\ BUTTON_TIMEOUT \in Nat
    BY <1>1, <1>5, BudgetIs, PanelBounds, ButtonAssumption
  <1>7. ASSUME NEW e \in do31[d].list, e.key = <<n, k>> PROVE ~(e.age > BUTTON_TIMEOUT)
    <2>1. e.age \in Nat /\ e.age <= a
      BY <1>1, <1>2, <1>5, <1>7, Stamps DEF Kept
    <2>2. a \in Nat /\ a <= b /\ b <= BUTTON_TIMEOUT
      BY <1>3, <1>4, <1>5
    <2> QED
      BY <1>6, <2>1, <2>2
  <1> QED
    BY <1>7 DEF Overdue

LEMMA CheckButtonHeld ==
  ASSUME PanelInv, PanelInv', HeldInv, Timely, NEW d \in Do31, CheckButton(d)
  PROVE  HeldInv'
  <1>1. PICK key \in Overdue(do31[d].list) :
          do31' = [do31 EXCEPT ![d].list = Released(@, key), ![d].pressed = @ \ {key}]
    BY DEF CheckButton
  <1>2. UNCHANGED <<inputType, input, sequence, out, ran, steady, count>>
    BY DEF CheckButton, observed
  <1>3. Types /\ Types' /\ Counted /\ do31[d] \in Receivers
    BY DEF PanelInv, Types, HeldInv
  <1>4. /\ \A e \in Do31 \ {d} : do31'[e] = do31[e]
        /\ do31'[d].retry = do31[d].retry /\ do31'[d].pressed = do31[d].pressed \ {key}
        /\ do31'[d].list \subseteq do31[d].list
    BY <1>1, <1>3 DEF Types, Receivers, Released
  <1>5. Counted' /\ count'.lost = count.lost
    BY <1>2, LostNone DEF HeldInv
  <1>6. ASSUME NEW e \in Do31 PROVE Refused(e) /\ Refused(e)' /\ do31'[e].retry = do31[e].retry
    BY <1>2, <1>4 DEF HeldInv, Refused
  <1>7. \A x \in Address : Announced(x)'
    BY <1>2 DEF HeldInv, Announced, Announces
  <1>8. \A n \in Node : inputType'[n] = "button" => Repeating(n)'
    BY <1>2 DEF HeldInv, Repeating
  <1>9. ASSUME NEW e \in Do31, NEW n \in Node, NEW k \in Numbers PROVE SteadyKept(e, n, k)'
    <2> SUFFICES ASSUME <<e, n, k>> \in steady
                 PROVE  /\ inputType[n] = "button" /\ k \in input[n]
                        /\ sequence[n].state # "TIMEOUT" => Kept(e, n, k)'
      BY <1>2 DEF SteadyKept
    <2>1. /\ inputType[n] = "button" /\ k \in input[n]
          /\ sequence[n].state # "TIMEOUT" => Kept(e, n, k)
      BY DEF HeldInv, SteadyKept
    <2>2. ASSUME sequence[n].state # "TIMEOUT" PROVE Kept(e, n, k)'
      <3>1. e = d => key # <<n, k>>
        BY <2>2, NotOverdue
      <3>2. <<n, k>> \in do31'[e].pressed /\ do31'[e].list \subseteq do31[e].list
        BY <1>4, <2>1, <2>2, <3>1 DEF Kept
      <3>3. sequence'[n] = sequence[n] /\ out'[n] = out[n]
        BY <1>2
      <3> QED
        BY <1>3, <1>5, <1>6, <2>1, <2>2, <3>2, <3>3, KeptStays
    <2> QED
      BY <2>1, <2>2
  <1> QED
    BY <1>2, <1>5, <1>6, <1>7, <1>8, <1>9 DEF HeldInv

(* What ProcessButton makes of its state q: it sends, gives up, is released or waits. *)
Sends(n, q, r) ==
  /\ r.send = TRUE /\ r.state = "ON" /\ r.stamp = 0 /\ input[n] # {}
  /\ q.state = "OFF" \/ (q.state = "ON" /\ q.stamp >= REPEAT_DIFF)

Waits(n, q, r) ==
  /\ r.send = FALSE /\ r.state = q.state /\ r.stamp = q.stamp
  /\ q.state = "ON" => q.stamp < REPEAT_DIFF
  /\ q.state = "OFF" => input[n] = {}

Repeats(n, q, r) ==
  \/ Sends(n, q, r)
  \/ r.send = FALSE /\ r.state = "TIMEOUT" /\ r.stamp = 0
  \/ r.send = FALSE /\ r.state = "OFF" /\ r.stamp = 0 /\ input[n] = {}
  \/ Waits(n, q, r)

LEMMA RepeatCases ==
  ASSUME NEW n \in Node, NEW q \in Sequences
  PROVE  Repeats(n, q, Repeat(n, q))
  <1>1. /\ q.state \in {"OFF", "ON", "TIMEOUT"} /\ q.start \in Nat /\ q.stamp \in Nat
        /\ REPEAT_DIFF \in Nat /\ REPEAT_TIMEOUT \in Nat
    BY PanelBounds DEF Sequences
  <1>2. CASE q.state = "OFF"
    <2>1. CASE input[n] = {}
      BY <1>1, <1>2, <2>1 DEF Repeat, Repeats, Sends, Waits
    <2>2. CASE input[n] # {}
      BY <1>1, <1>2, <2>2 DEF Repeat, Repeats, Sends, Waits
    <2> QED
      BY <2>1, <2>2
  <1>3. CASE q.state = "TIMEOUT"
    <2>1. CASE input[n] = {}
      BY <1>1, <1>3, <2>1 DEF Repeat, Repeats, Sends, Waits
    <2>2. CASE input[n] # {}
      BY <1>1, <1>3, <2>2 DEF Repeat, Repeats, Sends, Waits
    <2> QED
      BY <2>1, <2>2
  <1>4. CASE q.state = "ON"
    <2>1. CASE input[n] = {}
      BY <1>1, <1>4, <2>1 DEF Repeat, Repeats, Sends, Waits
    <2>2. CASE input[n] # {} /\ q.start >= REPEAT_TIMEOUT
      <3>1. ~(q.start < REPEAT_TIMEOUT)
        BY <1>1, <2>2
      <3> QED
        BY <1>1, <1>4, <2>2, <3>1 DEF Repeat, Repeats, Sends, Waits
    <2>3. CASE input[n] # {} /\ q.start < REPEAT_TIMEOUT
      <3>1. ~(q.start >= REPEAT_TIMEOUT)
        BY <1>1, <2>3
      <3>2. CASE q.stamp >= REPEAT_DIFF
        BY <1>1, <1>4, <2>3, <3>1, <3>2 DEF Repeat, Repeats, Sends, Waits
      <3>3. CASE ~(q.stamp >= REPEAT_DIFF)
        <4>1. q.stamp < REPEAT_DIFF
          BY <1>1, <3>3
        <4>2. Repeat(n, q) = [state |-> q.state, start |-> q.start, stamp |-> q.stamp, send |-> FALSE]
          BY <1>4, <2>3, <3>1, <3>3 DEF Repeat
        <4> QED
          BY <1>4, <4>1, <4>2 DEF Repeats, Waits
      <3> QED
        BY <3>2, <3>3
    <2>4. q.start >= REPEAT_TIMEOUT \/ q.start < REPEAT_TIMEOUT
      BY <1>1
    <2> QED
      BY <2>1, <2>2, <2>3, <2>4
  <1> QED
    BY <1>1, <1>2, <1>3, <1>4

LEMMA ButtonHeld ==
  ASSUME PanelInv, PanelInv', HeldInv, Timely, NEW n \in Node, ProcessButton(n)
  PROVE  HeldInv'
  <1>1. PICK r : r = Repeat(n, sequence[n])
    OBVIOUS
  <1>2. PICK t : t = Telegram("ButtonPressed", n, Do31, input[n])
    OBVIOUS
  <1>3. /\ inputType[n] = "button"
        /\ sequence' = [sequence EXCEPT ![n] = [state |-> r.state, start |-> r.start, stamp |-> r.stamp]]
        /\ out' = [out EXCEPT ![n] = IF r.send THEN Append(@, t) ELSE @]
        /\ ran' = ran \union {n} /\ UNCHANGED <<inputType, input, do31, steady, count>>
    BY <1>1, <1>2 DEF ProcessButton, observed
  <1>4. Types /\ Types' /\ Counted /\ n \in Address /\ out[n] \in Seq(Telegrams) /\ sequence[n] \in Sequences
    BY DEF PanelInv, Types, HeldInv, Address
  <1>5. PICK q : q = sequence[n]
    OBVIOUS
  <1>6. /\ q.stamp \in Nat /\ q.stamp <= REPEAT_DIFF /\ REPEAT_DIFF \in Nat \ {0}
        /\ q.state # "ON" \/ out[n] # <<>> => q.stamp = 0
    BY <1>3, <1>4, <1>5, PanelBounds DEF HeldInv, Repeating, Sequences, Timely
  <1>7. /\ sequence'[n].state = r.state /\ sequence'[n].stamp = r.stamp
        /\ \A m \in Node \ {n} : sequence'[m] = sequence[m]
        /\ out'[n] = (IF r.send THEN Append(out[n], t) ELSE out[n]) /\ \A y \in Address \ {n} : out'[y] = out[y]
    BY <1>3, <1>4 DEF Types
  <1>8. Repeats(n, q, r)
    BY <1>1, <1>4, <1>5, RepeatCases
  <1>9. Counted' /\ count'.lost = count.lost
    BY <1>3, LostNone DEF HeldInv
  <1>10. \A d \in Do31 : Refused(d) /\ Refused(d)'
    BY <1>3 DEF HeldInv, Refused
  <1>11. /\ \A j \in DOMAIN out'[n] : (j \in DOMAIN out[n] /\ out'[n][j] = out[n][j]) \/ (r.send = TRUE /\ out'[n][j] = t)
         /\ r.send = TRUE => out'[n] # <<>>
    <2>1. CASE r.send = TRUE
      <3>1. PICK m : m = Len(out[n])
        OBVIOUS
      <3>2. /\ m \in Nat /\ DOMAIN out[n] = 1 .. m /\ DOMAIN Append(out[n], t) = 1 .. m + 1
            /\ \A j \in 1 .. m : Append(out[n], t)[j] = out[n][j]
            /\ Append(out[n], t)[m + 1] = t
        <4>1. out'[n] \in Seq(Telegrams) /\ out'[n] = Append(out[n], t)
          BY <1>4, <1>7, <2>1 DEF Types
        <4>2. out[n] \in Seq(Telegrams \union {t}) /\ t \in Telegrams \union {t}
          BY <1>4
        <4> QED
          BY <3>1, <4>1, <4>2, AppendIs
      <3>3. \A j \in 1 .. m + 1 : j \in 1 .. m \/ j = m + 1
        BY <3>2
      <3>4. 1 \in DOMAIN Append(out[n], t) /\ out'[n] = Append(out[n], t)
        BY <1>7, <2>1, <3>2
      <3>5. out'[n] # <<>>
        BY <3>4
      <3> QED
        BY <2>1, <3>2, <3>3, <3>4, <3>5
    <2>2. CASE r.send # TRUE
      <3>1. r.send = FALSE
        BY <1>8, <2>2 DEF Repeats, Sends, Waits
      <3>2. out'[n] = out[n]
        BY <1>7, <3>1
      <3> QED
        BY <2>2, <3>2
    <2> QED
      BY <2>1, <2>2
  <1>12. t.type = "ButtonPressed" /\ t.from = n /\ t.state = input[n]
    BY <1>2 DEF Telegram
  <1>13. ASSUME NEW x \in Address PROVE Announced(x)'
    <2>1. Announced(x)
      BY DEF HeldInv
    <2>2. ASSUME NEW j \in DOMAIN out'[x] PROVE Announces(x, out'[x][j])
      <3>1. CASE x = n
        BY <1>3, <1>11, <1>12, <2>1, <3>1 DEF Announced, Announces
      <3>2. CASE x # n
        BY <1>7, <2>1, <3>2 DEF Announced
      <3> QED
        BY <3>1, <3>2
    <2> QED
      BY <1>3, <2>2 DEF Announced, Announces
  <1>14. ASSUME NEW m \in Node, inputType'[m] = "button" PROVE Repeating(m)'
    <2>1. CASE m = n
      <3>1. r.stamp <= REPEAT_DIFF
        BY <1>6, <1>8 DEF Repeats, Sends, Waits
      <3>2. r.state # "ON" \/ out'[n] # <<>> => r.stamp = 0
        <4>1. CASE r.stamp = q.stamp /\ r.send = FALSE /\ r.state = q.state
          BY <1>6, <1>7, <4>1
        <4>2. CASE r.stamp = 0
          BY <4>2
        <4> QED
          BY <1>8, <4>1, <4>2 DEF Repeats, Sends, Waits
      <3>3. r.state = "ON" => r.stamp < REPEAT_DIFF
        BY <1>6, <1>8 DEF Repeats, Sends, Waits
      <3>4. r.state = "OFF" => input[n] = {}
        BY <1>8 DEF Repeats, Sends, Waits
      <3> QED
        BY <1>3, <1>7, <2>1, <3>1, <3>2, <3>3, <3>4 DEF Repeating
    <2>2. CASE m # n
      <3>1. Repeating(m) /\ out'[m] = out[m] /\ sequence'[m] = sequence[m] /\ (m \in ran' => m \in ran)
        BY <1>3, <1>7, <1>14, <2>2 DEF HeldInv, Address
      <3> QED
        BY <1>3, <3>1 DEF Repeating
    <2> QED
      BY <2>1, <2>2
  <1>15. ASSUME NEW d \in Do31, NEW m \in Node, NEW k \in Numbers PROVE SteadyKept(d, m, k)'
    <2> SUFFICES ASSUME <<d, m, k>> \in steady
                 PROVE  /\ inputType[m] = "button" /\ k \in input[m]
                        /\ sequence'[m].state # "TIMEOUT" => Kept(d, m, k)'
      BY <1>3 DEF SteadyKept
    <2>1. /\ inputType[m] = "button" /\ k \in input[m]
          /\ sequence[m].state # "TIMEOUT" => Kept(d, m, k)
      BY DEF HeldInv, SteadyKept
    <2>2. ASSUME m # n, sequence'[m].state # "TIMEOUT" PROVE Kept(d, m, k)'
      <3>1. sequence'[m] = sequence[m] /\ out'[m] = out[m] /\ m \in Address
        BY <1>7, <2>2 DEF Address
      <3>2. Kept(d, m, k) /\ Allowed(d, m)' = Allowed(d, m)
        BY <1>3, <2>1, <2>2, <3>1 DEF Allowed, Budget
      <3> QED
        BY <1>3, <3>1, <3>2 DEF Kept
    <2>3. ASSUME m = n, r.state # "TIMEOUT" PROVE Kept(d, n, k)'
      <3>1. q.state # "TIMEOUT"
        BY <1>8, <2>1, <2>3 DEF Repeats, Sends, Waits
      <3>2. Kept(d, n, k)
        BY <1>5, <2>1, <2>3, <3>1
      <3>3. PICK b, w : b = Budget /\ w = (IF do31[d].retry = None THEN 0 ELSE REPEAT_DIFF)
        OBVIOUS
      <3>4. b \in Nat /\ Budget' = b
        BY <1>3, <1>4, <3>3, BudgetIs DEF Budget
      <3>5. Allowed(d, n) <= Allowed(d, n)' /\ Allowed(d, n) \in Nat /\ Allowed(d, n)' \in Nat
        <4>1. Allowed(d, n) \in Nat /\ Allowed(d, n)' \in Nat
          <5>1. sequence[n].stamp \in Nat /\ sequence'[n].stamp \in Nat
            BY <1>4 DEF Types, Sequences
          <5> QED
            BY <1>4, <1>9, <1>10, <5>1, AllowedIs, AllowedNext
        <4>2. CASE r.send = TRUE
          <5>1. r.stamp = 0 /\ out'[n] # <<>> /\ (q.stamp = 0 \/ q.stamp = REPEAT_DIFF)
            BY <1>6, <1>8, <1>11, <4>2 DEF Repeats, Sends, Waits
          <5>2. Allowed(d, n)' = b + (IF do31[d].retry = None THEN REPEAT_DIFF ELSE 0)
            BY <1>3, <1>7, <3>4, <5>1 DEF Allowed
          <5>3. CASE q.stamp = 0
            <6>1. Allowed(d, n) = b + (IF out[n] # <<>> /\ do31[d].retry = None THEN REPEAT_DIFF ELSE 0)
              BY <1>5, <3>3, <5>3 DEF Allowed
            <6> QED
              BY <1>6, <3>4, <5>2, <6>1
          <5>4. CASE q.stamp = REPEAT_DIFF
            <6>1. q.stamp # 0
              BY <1>6, <5>4
            <6>2. Allowed(d, n) = (REPEAT_DIFF + b) - (IF do31[d].retry = None THEN 0 ELSE REPEAT_DIFF)
              BY <1>5, <3>3, <5>4, <6>1 DEF Allowed
            <6> QED
              BY <1>6, <3>4, <5>2, <6>2
          <5> QED
            BY <5>1, <5>3, <5>4
        <4>3. CASE r.send = FALSE
          <5>1. r.state = q.state /\ r.stamp = q.stamp
            BY <1>8, <2>1, <2>3, <4>3 DEF Repeats, Sends, Waits
          <5>2. out'[n] = out[n]
            BY <1>7, <4>3
          <5>3. Allowed(d, n)' = Allowed(d, n)
            <6>1. sequence'[n].stamp = sequence[n].stamp /\ do31' = do31 /\ Budget' = Budget
              BY <1>3, <1>5, <1>7, <3>3, <3>4, <5>1
            <6> HIDE DEF Budget
            <6> QED
              BY <5>2, <6>1 DEF Allowed
          <5> QED
            BY <4>1, <5>3
        <4> QED
          BY <1>8, <4>1, <4>2, <4>3 DEF Repeats, Sends, Waits
      <3>6. ASSUME NEW e \in do31[d].list, e.key = <<n, k>>
            PROVE  e.age <= Allowed(d, n)' /\ (e.age > 0 => \A j \in DOMAIN out'[n] : k \in out'[n][j].state)
        <4>1. e.age \in Nat /\ e.age <= Allowed(d, n) /\ (e.age > 0 => \A j \in DOMAIN out[n] : k \in out[n][j].state)
          BY <1>4, <3>2, <3>6, Stamps DEF Kept
        <4>2. PICK a, c : a = Allowed(d, n) /\ c = Allowed(d, n)'
          OBVIOUS
        <4>3. e.age <= c
          BY <3>5, <4>1, <4>2
        <4> QED
          BY <1>11, <1>12, <2>1, <2>3, <4>1, <4>2, <4>3
      <3> QED
        BY <1>3, <3>2, <3>6 DEF Kept
    <2> QED
      BY <1>7, <2>1, <2>2, <2>3
  <1> QED
    BY <1>3, <1>9, <1>10, <1>13, <1>14, <1>15 DEF HeldInv
(* A tick brings the entries of steady buttons and their nodes' time stamps *)
(* forward together: what was to be sent has been sent.                     *)
LEMMA TickHeld ==
  ASSUME PanelInv, PanelInv', HeldInv, Timely, Tick
  PROVE  HeldInv'
  <1>1. /\ \A n \in Node \ ran : inputType[n] = "absent"
        /\ \A x \in DOMAIN out : out[x] = <<>>
        /\ \A d \in Do31 : do31[d].retry = None
        /\ sequence' = [n \in Node |-> IF sequence[n].state # "ON" THEN sequence[n] ELSE
              [sequence[n] EXCEPT !.start = AtMost(@ + 1, REPEAT_TIMEOUT), !.stamp = AtMost(@ + 1, REPEAT_DIFF)]]
        /\ do31' = [d \in Do31 |-> [do31[d] EXCEPT !.list = Aged(@)]]
        /\ ran' = {} /\ UNCHANGED <<inputType, input, out, steady, count>>
    BY DEF Tick, observed
  <1>2. Types /\ Types' /\ Counted /\ REPEAT_DIFF \in Nat \ {0} /\ Address = DOMAIN out
    BY PanelBounds DEF PanelInv, HeldInv, Timely, Types
  <1>3. Counted' /\ count'.lost = count.lost
    BY <1>1, LostNone DEF HeldInv
  <1>4. ASSUME NEW d \in Do31
        PROVE  /\ do31'[d].retry = None /\ do31'[d].list = Aged(do31[d].list)
               /\ do31'[d].pressed = do31[d].pressed
    <2>1. do31[d] \in Receivers
      BY <1>2 DEF Types
    <2> QED
      BY <1>1, <2>1 DEF Receivers
  <1>5. \A d \in Do31 : Refused(d)'
    BY <1>4 DEF Refused
  <1>6. \A x \in Address : Announced(x)'
    BY <1>1 DEF HeldInv, Announced, Announces
  <1>7. ASSUME NEW n \in Node
        PROVE  /\ sequence[n].state # "ON" => sequence'[n] = sequence[n]
               /\ sequence[n].state = "ON" =>
                    sequence'[n].state = "ON" /\ sequence'[n].stamp = AtMost(sequence[n].stamp + 1, REPEAT_DIFF)
    <2>1. sequence[n] \in Sequences
      BY <1>2 DEF Types
    <2> QED
      BY <1>1, <2>1 DEF Sequences
  <1>8. ASSUME NEW n \in Node, inputType[n] = "button"
        PROVE  /\ Repeating(n) /\ n \in ran /\ out[n] = <<>> /\ sequence[n].stamp \in Nat
               /\ sequence[n].state = "ON" => sequence'[n].stamp = sequence[n].stamp + 1
    <2>1. Repeating(n) /\ n \in ran /\ out[n] = <<>> /\ sequence[n].stamp \in Nat
      BY <1>1, <1>2, <1>8, Stamps DEF HeldInv, Address
    <2>2. ASSUME sequence[n].state = "ON" PROVE sequence'[n].stamp = sequence[n].stamp + 1
      <3>1. PICK s : s = sequence[n].stamp
        OBVIOUS
      <3>2. s \in Nat /\ s < REPEAT_DIFF
        BY <2>1, <2>2, <3>1 DEF Repeating
      <3>3. AtMost(s + 1, REPEAT_DIFF) = s + 1
        BY <1>2, <3>2 DEF AtMost
      <3> QED
        BY <1>7, <2>2, <3>1, <3>3
    <2> QED
      BY <2>1, <2>2
  <1>9. ASSUME NEW n \in Node, inputType'[n] = "button" PROVE Repeating(n)'
    <2>1. inputType[n] = "button"
      BY <1>1, <1>9
    <2>2. CASE sequence[n].state = "ON"
      <3>1. PICK s : s = sequence[n].stamp
        OBVIOUS
      <3>2. s \in Nat /\ s < REPEAT_DIFF /\ sequence'[n].stamp = s + 1
        BY <1>8, <2>1, <2>2, <3>1 DEF Repeating
      <3>3. s + 1 <= REPEAT_DIFF
        BY <1>2, <3>2
      <3> QED
        BY <1>1, <1>7, <1>8, <2>1, <2>2, <3>2, <3>3 DEF Repeating
    <2>3. CASE sequence[n].state # "ON"
      BY <1>1, <1>7, <1>8, <2>1, <2>3 DEF Repeating
    <2> QED
      BY <2>2, <2>3
  <1>10. ASSUME NEW d \in Do31, NEW n \in Node, NEW k \in Numbers PROVE SteadyKept(d, n, k)'
    <2> SUFFICES ASSUME <<d, n, k>> \in steady
                 PROVE  /\ inputType[n] = "button" /\ k \in input[n]
                        /\ sequence'[n].state # "TIMEOUT" => Kept(d, n, k)'
      BY <1>1 DEF SteadyKept
    <2>1. /\ inputType[n] = "button" /\ k \in input[n]
          /\ sequence[n].state # "TIMEOUT" => Kept(d, n, k)
      BY DEF HeldInv, SteadyKept
    <2>2. ASSUME sequence'[n].state # "TIMEOUT" PROVE Kept(d, n, k)'
      <3>1. sequence[n].state = "ON" /\ sequence'[n].stamp = sequence[n].stamp + 1 /\ out[n] = <<>>
        <4>1. sequence[n].state # "OFF"
          BY <1>8, <2>1 DEF Repeating
        <4>2. sequence[n].state \in {"OFF", "ON", "TIMEOUT"}
          BY <1>2, Stamps DEF Sequences
        <4>3. sequence[n].state # "TIMEOUT"
          BY <1>7, <2>2
        <4> QED
          BY <1>8, <2>1, <4>1, <4>2, <4>3
      <3>2. Kept(d, n, k)
        BY <2>1, <3>1
      <3>3. PICK b, s : b = Budget /\ s = sequence[n].stamp
        OBVIOUS
      <3>4. b \in Nat /\ Budget' = b /\ s \in Nat /\ sequence'[n].stamp = s + 1 /\ s + 1 # 0
        <4>1. s \in Nat /\ sequence'[n].stamp = s + 1
          BY <1>8, <2>1, <3>1, <3>3
        <4> QED
          <5>1. s + 1 # 0
            BY <4>1
          <5>2. b \in Nat
            BY <1>2, <3>3, BudgetIs
          <5>3. Budget' = Budget
            BY <1>1 DEF Budget
          <5> QED
            BY <3>3, <4>1, <5>1, <5>2, <5>3
      <3>5. Allowed(d, n) = s + b
        <4>1. do31[d].retry = None
          BY <1>1
        <4> QED
          BY <3>1, <3>3, <3>4, <4>1 DEF Allowed
      <3>6. Allowed(d, n)' = (s + 1) + b
        <4>1. sequence'[n].stamp = s + 1 /\ s + 1 # 0 /\ do31'[d].retry = None
          BY <1>4, <3>4
        <4>2. Allowed(d, n)' = ((s + 1) + Budget') - 0
          BY <4>1 DEF Allowed
        <4> QED
          BY <3>4, <4>2
      <3>7. ASSUME NEW e \in do31'[d].list, e.key = <<n, k>> PROVE e.age <= Allowed(d, n)'
        <4>1. PICK f \in do31[d].list : e = Entry(f.key, f.age + 1)
          BY <1>4 DEF Aged
        <4>2. f.key = <<n, k>> /\ e.age = f.age + 1
          BY <3>7, <4>1 DEF Entry
        <4>3. f.age \in Nat /\ f.age <= s + b
          BY <1>2, <3>2, <3>5, <4>2, Stamps DEF Kept
        <4> QED
          BY <3>4, <3>6, <4>2, <4>3
      <3>8. DOMAIN out'[n] = {} /\ <<n, k>> \in do31'[d].pressed
        <4>1. out'[n] = <<>>
          BY <1>1, <3>1
        <4>2. <<n, k>> \in do31'[d].pressed
          BY <1>4, <3>2 DEF Kept
        <4> QED
          BY <4>1, <4>2
      <3> QED
        BY <3>7, <3>8 DEF Kept
    <2> QED
      BY <2>1, <2>2
  <1> QED
    BY <1>1, <1>3, <1>5, <1>6, <1>9, <1>10 DEF HeldInv

LEMMA HeldInit == Init => HeldInv
  <1> SUFFICES ASSUME Init PROVE HeldInv
    OBVIOUS
  <1>1. /\ out = [x \in Address |-> <<>>] /\ do31 = [d \in Do31 |-> FreshDo31] /\ ran = {} /\ steady = {}
        /\ sequence = [n \in Node |-> [state |-> "OFF", start |-> 0, stamp |-> 0]]
        /\ count = [changes |-> 0, lost |-> 0, garbled |-> 0, restarts |-> 0]
    BY DEF Init, Address
  <1>2. Counted
    BY <1>1, PanelAssumption DEF Counted
  <1>3. \A d \in Do31 : Refused(d)
    BY <1>1 DEF Refused, FreshDo31
  <1>4. \A x \in Address : Announced(x)
    BY <1>1 DEF Announced
  <1>5. \A n \in Node : Repeating(n)
    BY <1>1, PanelBounds DEF Repeating
  <1> QED
    BY <1>1, <1>2, <1>3, <1>4, <1>5 DEF HeldInv, SteadyKept

LEMMA HeldStep == PanelInv /\ PanelInv' /\ HeldInv /\ Timely /\ [Next]_vars => HeldInv'
  <1> SUFFICES ASSUME PanelInv, PanelInv', HeldInv, Timely, [Next]_vars PROVE HeldInv'
    OBVIOUS
  <1>1. ASSUME NEW n \in Node, Change(n) \/ ProcessSwitch(n) \/ ProcessButton(n) PROVE HeldInv'
    BY <1>1, ChangeHeld, SwitchHeld, ButtonHeld
  <1>2. ASSUME NEW x \in Node \union Do31, Transmit(x) \/ Garble(x) \/ Lose(x) PROVE HeldInv'
    BY <1>2, TransmitHeld, GarbleHeld, LoseHeld DEF Address
  <1>3. ASSUME NEW d \in Do31, Retry(d) \/ CheckButton(d) \/ Restart(d) PROVE HeldInv'
    BY <1>3, RetryHeld, CheckButtonHeld, RestartHeld
  <1>4. CASE Tick
    BY <1>4, TickHeld
  <1>5. CASE UNCHANGED vars
    <2>1. UNCHANGED <<inputType, input, sequence, out, do31, ran, steady, count>>
      BY <1>5 DEF vars, observed
    <2> QED
      BY <2>1 DEF HeldInv, Counted, Refused, Announced, Announces, Repeating, SteadyKept, Kept, Allowed, Budget
  <1> QED
    BY <1>1, <1>2, <1>3, <1>4, <1>5 DEF Next

(* A button that stays closed stays pressed for the application until its node *)
(* stops repeating it, if the DO31 waits long enough for one repetition more   *)
(* than may be lost, whatever is garbled, refused or dropped while a response  *)
(* waits, and however many buttons there are (ProcessButton, ProcessBus,       *)
(* ButtonReleased).  With the 48 and 100 ms of the code one may be lost.       *)
THEOREM ButtonsHeld ==
  ASSUME Timely
  PROVE  Spec => []Held
  <1>1. PanelInv /\ HeldInv => Held
    <2> SUFFICES ASSUME PanelInv, HeldInv, NEW key \in steady
                 PROVE  <<key[2], key[3]>> \in do31[key[1]].pressed \/ sequence[key[2]].state = "TIMEOUT"
      BY DEF Held
    <2>1. PICK d \in Do31, n \in Node, k \in Numbers : key = <<d, n, k>>
      BY DEF HeldInv
    <2> QED
      BY <2>1 DEF HeldInv, SteadyKept, Kept
  <1>2. Init => PanelInv /\ HeldInv
    BY PanelInit, HeldInit
  <1>3. (PanelInv /\ HeldInv) /\ [Next]_vars => (PanelInv /\ HeldInv)'
    BY Timely, PanelStep, HeldStep
  <1> QED
    BY <1>1, <1>2, <1>3, PTL DEF Spec
=============================================================================
