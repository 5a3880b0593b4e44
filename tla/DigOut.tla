------------------------------- MODULE DigOut -------------------------------
(***************************************************************************)
(* devices/do31/digout.c: the outputs of a DO31 and their delays.  An      *)
(* operation is a call, a record; what the code does with several writes   *)
(* is a sequence of calls, because the power failure interrupt can come    *)
(* between any two of them.                                                *)
(***************************************************************************)
EXTENDS Integers, Sequences

CONSTANT Outputs            \* the numbers of the outputs that are wired

ASSUME OutputsAssumption == Outputs \subseteq 0 .. 30

Kinds == {"NoDelay", "DelayOn", "DelayOff"}

(* d.on is sDigOutShadow, d.kind and d.left are sState: what is delayed, and  *)
(* the ticks until onDelayMs or offDelayMs have passed since startTimeMs.     *)
DigOutInit == [on |-> {}, kind |-> [n \in Outputs |-> "NoDelay"], left |-> [n \in Outputs |-> 0]]

Call(op, n, ticks) == [op |-> op, n |-> n, ticks |-> ticks]

On(n) == Call("On", n, 0)
Off(n) == Call("Off", n, 0)
Toggle(n) == Call("Toggle", n, 0)
DelayCancel(n) == Call("NoDelay", n, 0)
DelayedOn(n, ticks) == Call("DelayOn", n, ticks)

DelayedOff(n, ticks) == <<On(n), Call("DelayOff", n, ticks)>>

Trigger(n, ticks) == DelayedOff(n, ticks)

IsDelayed(d, n) == d.kind[n] # "NoDelay"

Perform(d, call) ==
  CASE call.op = "On" -> [d EXCEPT !.on = @ \union {call.n}]
    [] call.op = "Off" -> [d EXCEPT !.on = @ \ {call.n}]
    [] call.op = "Toggle" -> [d EXCEPT !.on = IF call.n \in @ THEN @ \ {call.n} ELSE @ \union {call.n}]
    [] call.op \in Kinds -> [d EXCEPT !.kind[call.n] = call.op, !.left[call.n] = call.ticks]

StateAllStandard(d) == {n \in d.on : ~IsDelayed(d, n)}

(* DigOutStateCheck of one output *)
StateCheck(d, n) ==
  IF ~IsDelayed(d, n) \/ d.left[n] > 0 THEN <<>>
  ELSE <<IF d.kind[n] = "DelayOn" THEN On(n) ELSE Off(n), DelayCancel(n)>>

(* The main loop serves a delay that has run out before another tick passes. *)
Served(d) == \A n \in Outputs : IsDelayed(d, n) => d.left[n] > 0

Elapsed(d) == [d EXCEPT !.left = [n \in Outputs |-> IF d.left[n] > 0 THEN d.left[n] - 1 ELSE 0]]
=============================================================================
