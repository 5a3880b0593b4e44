------------------------------- MODULE BusVar -------------------------------
(***************************************************************************)
(* bus/busvar.c: the table of variables of a node, and the transactions    *)
(* with which a node reads and writes variables of others.  A handle is    *)
(* the place of its transaction in sVarTransactionFifo.                    *)
(***************************************************************************)
EXTENDS Integers, Sequences

CONSTANTS
  TRANSACTION_FIFO_LEN, TX_RETRIES,
  BUSVAR_NUMVAR,            \* size of the table
  Variables, Persistent,    \* the indices that BusVarAdd was called with
  Wide                      \* a value of another size than the variable's

ASSUME BusVarAssumption ==
  /\ TRANSACTION_FIFO_LEN \in Nat \ {0, 1} /\ TX_RETRIES \in Nat
  /\ BUSVAR_NUMVAR \in Nat /\ Variables \subseteq 0 .. BUSVAR_NUMVAR - 2 /\ Persistent \subseteq Variables

-----------------------------------------------------------------------------
(* Local access.  BusVarNv is EEPROM, and a variable without it starts as 0.    *)
BusVarAdd(nv) == [i \in Variables |-> IF i \in Persistent THEN nv[i] ELSE 0]

(* The last place of the table cannot be used.                                  *)
BusVarRead(mem, i) ==
  IF i >= BUSVAR_NUMVAR - 1 THEN [result |-> "IndexError", data |-> 0] ELSE [result |-> "Success", data |-> mem[i]]

WriteResult(i, data) ==
  CASE i >= BUSVAR_NUMVAR - 1 -> "IndexError" [] data = Wide -> "LengthError" [] OTHER -> "Success"

BusVarWrite(mem, i, data) == IF WriteResult(i, data) = "Success" THEN [mem EXCEPT ![i] = data] ELSE mem

WriteNv(nv, i, data) ==
  IF i \in Persistent /\ WriteResult(i, data) = "Success" THEN [nv EXCEPT ![i] = data] ELSE nv

-----------------------------------------------------------------------------
(* Remote access.  v holds the transactions and the two indices.  The memory   *)
(* that callers supply (buf) and the time that has passed (txTime) are given to *)
(* BusVarProcess by handle.                                                     *)
Place == 0 .. TRANSACTION_FIFO_LEN - 1
Final == {"Timeout", "Ready", "TxError", "Invalid"}

Transaction(addr, idx, dir) == [addr |-> addr, idx |-> idx, dir |-> dir, state |-> "Scheduled", txRetryCnt |-> TX_RETRIES]

NoTransaction == [Transaction(0, 0, "Read") EXCEPT !.state = "Invalid", !.txRetryCnt = 0]

BusVarInit == [fifo |-> [h \in Place |-> NoTransaction], wr |-> 0, rd |-> 0]

Inc(h) == (h + 1) % TRANSACTION_FIFO_LEN

NumFifoFree(v) == (v.rd - v.wr - 1) % TRANSACTION_FIFO_LEN

(* The places from sVarFifoRdIdx to sVarFifoWrIdx, in the order of the scans *)
Queue(v) == [k \in 1 .. (v.wr - v.rd) % TRANSACTION_FIFO_LEN |-> (v.rd + k - 1) % TRANSACTION_FIFO_LEN]
Queued(v) == {Queue(v)[k] : k \in DOMAIN Queue(v)}

(* The first of the places in the queue, or otherwise. *)
First(v, places, otherwise) ==
  LET queue == Queue(v)
      fitting == {k \in DOMAIN queue : queue[k] \in places}
  IN IF fitting = {} THEN otherwise ELSE queue[CHOOSE k \in fitting : \A l \in fitting : k <= l]

BusVarTransactionOpen(v, t) == [v EXCEPT !.fifo[v.wr] = t, !.wr = Inc(v.wr)]

(* The places outside the queue are not read again. *)
Tidy(v) == [v EXCEPT !.fifo = [h \in Place |-> IF h \in Queued(v) THEN @[h] ELSE NoTransaction]]

(* Mutant of Freed: only one transaction is taken out. *)
FreedOne(v) == Tidy(IF v.rd # v.wr /\ v.fifo[v.rd].state = "Invalid" THEN [v EXCEPT !.rd = Inc(v.rd)] ELSE v)

Freed(v) == Tidy([v EXCEPT !.rd = First(v, {h \in Place : v.fifo[h].state # "Invalid"}, v.wr)])

(* The order in which several are closed makes no difference. *)
BusVarTransactionClose(v, handles) ==
  Freed([v EXCEPT !.fifo = [h \in Place |-> IF h \in handles THEN [@[h] EXCEPT !.state = "Invalid"] ELSE @[h]]])

(* Mutant of FitsGet: the index of a response is not compared. *)
FitsGetAny(t, from, index) == t.addr = from

(* A response with an error has length 0 and fits no transaction. *)
FitsGet(t, from, index) == t.addr = from /\ t.idx = index

FitsSet(t, from, index) == t.addr = from /\ t.idx # index

(* The handle that a response is taken for *)
NoHandle == -1
GetTaker(v, from, index) == First(v, {h \in Place : FitsGet(v.fifo[h], from, index)}, NoHandle)
SetTaker(v, from, index) == First(v, {h \in Place : FitsSet(v.fifo[h], from, index)}, NoHandle)

Answered(v, h) == IF h = NoHandle THEN v ELSE [v EXCEPT !.fifo[h].state = "Ready"]

-----------------------------------------------------------------------------
(* Process: p.v, p.msg is sTxMsg, p.sent what BusSend took, p.free whether it   *)
(* takes a telegram now; elapsed holds the transactions whose time has passed.  *)
Request(h, t, data) == [dir |-> t.dir, to |-> t.addr, index |-> t.idx, data |-> data]

Send(p, h, msg) ==
  [p EXCEPT !.msg = msg,
            !.sent = IF p.free THEN <<msg>> ELSE @, !.free = FALSE,
            !.v.fifo[h].state = IF p.free THEN "Waiting" ELSE "TxRetry"]

Retried(p, h) ==
  LET t == p.v.fifo[h] IN
  IF t.txRetryCnt = 0 THEN [p EXCEPT !.v.fifo[h].state = "TxError"]
  ELSE Send(IF p.free THEN p ELSE [p EXCEPT !.v.fifo[h].txRetryCnt = @ - 1], h, p.msg)

Process(p, h, elapsed, data) ==
  LET t == p.v.fifo[h] IN
  CASE t.state = "Scheduled" -> Send(p, h, Request(h, t, data[h]))
    [] t.state = "Waiting" /\ h \in elapsed -> [p EXCEPT !.v.fifo[h].state = "Timeout"]
    [] t.state = "TxRetry" /\ h \in elapsed -> Retried(p, h)
    [] OTHER -> p

BusVarProcess(v, msg, free, elapsed, data) ==
  LET queue == Queue(v)
      p[k \in 0 .. Len(queue)] ==
        IF k = 0 THEN [v |-> v, msg |-> msg, sent |-> <<>>, free |-> free]
        ELSE Process(p[k - 1], queue[k], elapsed, data)
  IN p[Len(queue)]
=============================================================================
