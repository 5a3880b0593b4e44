------------------------------ MODULE TxQueue ------------------------------
(***************************************************************************)
(* tools/mqtt/main.cpp: the requests that the MQTT gateway sends to devices *)
(* for the broker (bus_txq).  One is sent at a time; it leaves the queue    *)
(* when a telegram answers it or its time has passed.                       *)
(***************************************************************************)
EXTENDS Sequences

LL_APPEND(q, ask) == Append(q, [ask |-> ask, sent |-> FALSE])

(* The response does not say what was set. *)
RespSetValue_compare(ask, t) == t.to = ask.from /\ t.from = ask.to

RespSetVar_compare(ask, t) == t.to = ask.from /\ t.from = ask.to /\ t.word = "Success" /\ t.index = ask.index

Compare(ask, t) ==
  \/ ask.type = "SetValue" /\ t.type = "SetValue" /\ RespSetValue_compare(ask, t)
  \/ ask.type = "SetVar" /\ t.type = "SetVar" /\ RespSetVar_compare(ask, t)

(* A pass of serve_bus with the telegram t.  Only what was sent in an earlier  *)
(* pass can expire, and then t is compared with the next request, not sent yet. *)
serve_bus(q, t, expired) ==
  LET due == q # <<>> /\ ~q[1].sent
      sent == IF due THEN [q EXCEPT ![1].sent = TRUE] ELSE q
      left == IF expired THEN Tail(sent) ELSE sent
      answered == left # <<>> /\ Compare(left[1].ask, t)
  IN [queue |-> IF answered THEN Tail(left) ELSE left,
      sent |-> IF due THEN <<q[1].ask>> ELSE <<>>,
      answered |-> IF answered THEN {left[1]} ELSE {}]
=============================================================================
