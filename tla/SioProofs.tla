----------------------------- MODULE SioProofs -----------------------------
(***************************************************************************)
(* Proofs about Sio, for any number of nodes, telegrams and bounds: the    *)
(* types, that no node waits for a timer or a transmitter interrupt that   *)
(* is not running, and that the echo comparison keeps in step.             *)
(***************************************************************************)
EXTENDS Sio, TLAPS, SequenceTheorems

(* What the handlers rely on without checking it, node by node. *)

(* The register enables: never both, and none once the node has stopped. *)
EnablesInv(n) ==
  /\ UDRIE[n] => ~TXCIE[n]
  /\ state[n] \in {"eTxing", "eTxJamming"} => UDRIE[n] \/ TXCIE[n]
  /\ state[n] = "eTxStopped" => ~UDRIE[n] /\ ~TXCIE[n]

(* The counters: a node that may still collide has a retry left, one that is *)
(* still jamming a jam character.                                            *)
CountersInv(n) ==
  /\ state[n] \notin {"eTxJamming", "eTxStopped"} => txRetryCnt[n] < MaxTxRetry
  /\ state[n] = "eTxJamming" /\ UDRIE[n] => txJamCnt[n] < MaxJamCnt
  /\ pc[n] # "ready" => msgs[n] < MaxMsgs

(* The timer: it rests while jamming, runs while the node waits for it, and  *)
(* has not expired if the node stopped while BusSend was copying.            *)
TimerInv(n) ==
  /\ state[n] = "eTxJamming" => ~OCIE[n]
  /\ state[n] \in {"eRxing", "eTxPending"} => OCIE[n]
  /\ Mute(n) => buffered[n] = <<>> /\ txRetryCnt[n] = 0
  /\ state[n] = "eTxStopped" /\ pc[n] = "copy" => OCIE[n] /\ ticks[n] # 0

NodeInv(n) == EnablesInv(n) /\ CountersInv(n) /\ TimerInv(n)

IInv == TypeOK /\ \A n \in Node : NodeInv(n)

-----------------------------------------------------------------------------
(* The constants' types, without the telegrams. *)
LEMMA Bounds ==
  /\ InterChar \in Nat /\ InterChar > 0 /\ BackoffStep \in Nat /\ BackoffStep > 0
  /\ MaxTxRetry \in Nat /\ MaxTxRetry > 0 /\ MaxJamCnt \in Nat /\ MaxJamCnt > 0
  /\ BufSize \in Nat /\ MaxMsgs \in Nat /\ InterChar \in Delays
BY SioAssumption DEF Delays

(* The random delay stays within the range of the last retry. *)
LEMMA DelayBound ==
  ASSUME NEW k \in Nat, NEW m \in Nat, NEW b \in Nat, k <= m
  PROVE  k * b <= b * m
PROOF OBVIOUS

LEMMA SubSeqType ==
  ASSUME NEW S, NEW s \in Seq(S), NEW k \in Nat, k <= Len(s)
  PROVE  SubSeq(s, 1, k) \in Seq(S)
PROOF OBVIOUS

LEMMA EmptyType ==
  ASSUME NEW S
  PROVE  <<>> \in Seq(S) /\ Len(<<>>) = 0
PROOF OBVIOUS

(* Starting the timer enables it, and it is not due unless it already was. *)
LEMMA TimerStarts ==
  ASSUME TypeOK, NEW n \in Node, NEW d \in Nat, d > 0, TimerStart(n, d)
  PROVE  /\ OCIE' \in [Node -> BOOLEAN] /\ ticks' \in [Node -> Nat]
         /\ OCIE'[n] /\ (~OCIE[n] => ticks'[n] # 0)
         /\ \A m \in Node \ {n} : OCIE'[m] = OCIE[m] /\ ticks'[m] = ticks[m]
BY DEF TypeOK, TimerStart, TimerIrq

LEMMA TimerStops ==
  ASSUME TypeOK, NEW n \in Node, TimerStop(n)
  PROVE  /\ OCIE' \in [Node -> BOOLEAN] /\ ticks' \in [Node -> Nat]
         /\ ~OCIE'[n]
         /\ \A m \in Node \ {n} : OCIE'[m] = OCIE[m] /\ ticks'[m] = ticks[m]
BY DEF TypeOK, TimerStop

(* A write to UDR ends in the shift register or in UDR. *)
LEMMA WriteUDRType ==
  ASSUME TypeOK, NEW n \in Node, NEW c \in Char, WriteUDR(n, c)
  PROVE  shift' \in [Node -> Char \cup {None}] /\ UDR' \in [Node -> Char \cup {None}]
BY ZenonT(30) DEF TypeOK, WriteUDR

LEMMA StateNames ==
  /\ "eIdle" \in States /\ "eRxing" \in States /\ "eTxing" \in States
  /\ "eTxStopped" \in States /\ "eTxPending" \in States /\ "eTxJamming" \in States
BY DEF States

LEMMA InitInv == Init => IInv
BY SioAssumption DEF Init, IInv, TypeOK, States, Delays, NodeInv, EnablesInv, CountersInv, TimerInv, Mute, rxEnv, tmr, app, wire

-----------------------------------------------------------------------------
(* A node none of whose variables changes keeps its invariant. *)
LEMMA Frame ==
  ASSUME IInv, NEW m \in Node,
         state'[m] = state[m], txRetryCnt'[m] = txRetryCnt[m], txJamCnt'[m] = txJamCnt[m],
         buffered'[m] = buffered[m], UDRIE'[m] = UDRIE[m], TXCIE'[m] = TXCIE[m],
         OCIE'[m] = OCIE[m], ticks'[m] = ticks[m], pc'[m] = pc[m], msgs'[m] = msgs[m]
  PROVE  NodeInv(m)'
BY DEF IInv, NodeInv, EnablesInv, CountersInv, TimerInv, Mute

(* Each action preserves the invariant. *)
LEMMA WriteCheckStep ==
  ASSUME IInv, NEW n \in Node, WriteCheck(n)
  PROVE  IInv'
<1>1. TypeOK'
  BY Bounds DEF IInv, NodeInv, CountersInv, TypeOK, States, tmr, rxEnv, wire, app, WriteCheck
<1>2. ASSUME NEW m \in Node PROVE NodeInv(m)'
  BY Bounds DEF IInv, NodeInv, EnablesInv, CountersInv, TimerInv, Mute, TypeOK, States, tmr, rxEnv, wire, app, WriteCheck
<1> QED BY <1>1, <1>2 DEF IInv

LEMMA WriteCopyStep ==
  ASSUME IInv, NEW n \in Node, WriteCopy(n)
  PROVE  IInv'
<1>1. PICK k \in Copied(n) :
        /\ buffered' = [buffered EXCEPT ![n] = @ \o SubSeq(Telegram[n], 1, k)]
        /\ pc' = [pc EXCEPT ![n] = IF k = Len(Telegram[n]) THEN "send" ELSE "ready"]
  BY DEF WriteCopy
<1> DEFINE room == BufSize - Len(buffered[n])
           most == IF Len(Telegram[n]) <= room THEN Len(Telegram[n]) ELSE room
<1>2. Telegram[n] \in Seq(Char) /\ k \in Nat /\ k <= Len(Telegram[n]) /\ k <= room
  <2>1. Telegram[n] \in Seq(Char) /\ Len(Telegram[n]) \in Nat
    BY SioAssumption
  <2>2. room \in Nat
    BY Bounds DEF IInv, TypeOK
  <2>3. k \in 0 .. most
    BY <1>1 DEF Copied
  <2> HIDE DEF room
  <2> QED BY <2>1, <2>2, <2>3
<1>3. buffered'[n] \in Seq(Char) /\ Len(buffered'[n]) <= BufSize
  <2>1. SubSeq(Telegram[n], 1, k) \in Seq(Char) /\ Len(SubSeq(Telegram[n], 1, k)) = k
    BY <1>2, SubSeqType
  <2>2. buffered[n] \in Seq(Char) /\ Len(buffered[n]) + k <= BufSize
    BY <1>2, Bounds DEF IInv, TypeOK
  <2> QED BY <1>1, <2>1, <2>2 DEF IInv, TypeOK
<1>4. TypeOK'
  BY <1>1, <1>3 DEF IInv, TypeOK, WriteCopy, tmr, rxEnv, wire
<1>5. ASSUME NEW m \in Node PROVE NodeInv(m)'
  <2>1. ~Mute(n)
    BY DEF IInv, NodeInv, TimerInv, Mute, WriteCopy
  <2> QED BY <1>1, <2>1, ZenonT(30) DEF IInv, NodeInv, EnablesInv, CountersInv, TimerInv, Mute, TypeOK,
                            WriteCopy, tmr, rxEnv, wire
<1> QED BY <1>4, <1>5 DEF IInv

LEMMA SendFromIdleType ==
  ASSUME TypeOK, NEW n \in Node, SendFromIdle(n)
  PROVE  /\ txRxComparePos' \in [Node -> Nat] /\ txBuf' \in [Node -> Seq(Char)]
         /\ \A m \in Node : Len(txBuf'[m]) <= BufSize
         /\ txStartup' \in [Node -> BOOLEAN] /\ UDRIE' \in [Node -> BOOLEAN]
         /\ TXCIE' \in [Node -> BOOLEAN] /\ power' \in [Node -> BOOLEAN]
         /\ UDRIE'[n] /\ TXCIE'[n] => UDRIE[n] /\ TXCIE[n]
         /\ \A m \in Node \ {n} : UDRIE'[m] = UDRIE[m] /\ TXCIE'[m] = TXCIE[m]
<1> DEFINE free == BufSize - Len(txBuf[n])
           len == IF Len(buffered[n]) > free THEN free ELSE Len(buffered[n])
<1>1. SubSeq(buffered[n], 1, len) \in Seq(Char)
  <2>1. buffered[n] \in Seq(Char) /\ len \in Nat /\ len <= Len(buffered[n])
    BY Bounds DEF TypeOK
  <2> QED BY <2>1, SubSeqType
<1>2. txBuf' = [txBuf EXCEPT ![n] = @ \o SubSeq(buffered[n], 1, len)]
  BY DEF SendFromIdle
<1>3. txBuf' \in [Node -> Seq(Char)] /\ \A m \in Node : Len(txBuf'[m]) <= BufSize
  <2>1. Len(SubSeq(buffered[n], 1, len)) = len /\ len <= BufSize - Len(txBuf[n])
    BY Bounds DEF TypeOK
  <2> QED BY <1>1, <1>2, <2>1, Bounds DEF TypeOK
<1> QED BY <1>3 DEF TypeOK, SendFromIdle

LEMMA SioSendBufferStep ==
  ASSUME IInv, NEW n \in Node, SioSendBuffer(n)
  PROVE  IInv'
<1>1. pc' \in [Node -> {"ready", "copy", "send"}] /\ pc'[n] = "ready"
  BY DEF IInv, TypeOK, SioSendBuffer
<1>2. msgs' \in [Node -> 0 .. MaxMsgs]
  <2>1. msgs[n] \in Nat /\ msgs[n] < MaxMsgs /\ msgs \in [Node -> 0 .. MaxMsgs]
    BY Bounds DEF IInv, TypeOK, NodeInv, CountersInv, SioSendBuffer
  <2> QED BY <2>1, Bounds DEF SioSendBuffer
<1>3. \A m \in Node \ {n} : pc'[m] = pc[m] /\ msgs'[m] = msgs[m]
  BY DEF IInv, TypeOK, SioSendBuffer
<1>4. UNCHANGED <<txRetryCnt, txJamCnt, buffered, shift, UDR, TXC, RXC, OCIE, ticks,
                  EIF, EIMSK, begun>>
  BY DEF SioSendBuffer, tmr, rxEnv, wire
<1>5. CASE state[n] = "eIdle"
  <2>1. SendFromIdle(n) /\ UNCHANGED <<state, txDelayTicks>>
    BY <1>5 DEF SioSendBuffer
  <2>2. TypeOK'
    BY <2>1, <1>1, <1>2, <1>4, SendFromIdleType DEF IInv, TypeOK
  <2>3. ASSUME NEW m \in Node PROVE NodeInv(m)'
    <3>1. UDRIE'[n] /\ TXCIE'[n] => UDRIE[n] /\ TXCIE[n]
      BY <2>1, SendFromIdleType DEF IInv
    <3>2. m # n => UDRIE'[m] = UDRIE[m] /\ TXCIE'[m] = TXCIE[m]
      BY <2>1, SendFromIdleType DEF IInv
    <3> QED BY <1>1, <1>3, <1>4, <1>5, <2>1, <3>1, <3>2
            DEF IInv, NodeInv, EnablesInv, CountersInv, TimerInv, Mute
  <2> QED BY <2>2, <2>3 DEF IInv
<1>6. CASE state[n] # "eIdle"
  <2>1. UNCHANGED <<txStartup, txRxComparePos, txBuf, UDRIE, TXCIE, power>>
    BY <1>6 DEF SioSendBuffer
  <2>2. state' = state \/ (state[n] = "eRxing" /\ state' = [state EXCEPT ![n] = "eTxPending"])
    BY <1>6 DEF SioSendBuffer
  <2>3. txDelayTicks' = txDelayTicks \/ txDelayTicks' = [txDelayTicks EXCEPT ![n] = InterChar]
    BY <1>6 DEF SioSendBuffer
  <2>4. state' \in [Node -> States]
    BY <2>2, StateNames, ZenonT(30) DEF IInv, TypeOK
  <2>5. txDelayTicks' \in [Node -> Delays]
    BY <2>3, Bounds DEF IInv, TypeOK
  <2>6. TypeOK'
    BY <1>1, <1>2, <1>4, <2>1, <2>4, <2>5 DEF IInv, TypeOK
  <2>7. ASSUME NEW m \in Node PROVE NodeInv(m)'
    <3>1. state'[m] = state[m] \/ (m = n /\ state[n] = "eRxing" /\ state'[n] = "eTxPending")
      BY <2>2 DEF IInv, TypeOK
    <3> QED BY <1>1, <1>3, <1>4, <2>1, <3>1
            DEF IInv, NodeInv, EnablesInv, CountersInv, TimerInv, Mute
  <2> QED BY <2>6, <2>7 DEF IInv
<1> QED BY <1>5, <1>6

LEMMA EIStep ==
  ASSUME IInv, NEW n \in Node, EI(n)
  PROVE  IInv'
<1>1. /\ OCIE' \in [Node -> BOOLEAN] /\ ticks' \in [Node -> Nat]
      /\ state[n] = "eIdle" => OCIE'[n]
      /\ state[n] # "eIdle" => UNCHANGED tmr
      /\ \A m \in Node \ {n} : OCIE'[m] = OCIE[m] /\ ticks'[m] = ticks[m]
  <2>1. CASE state[n] = "eIdle"
    <3>1. TimerStart(n, InterChar)
      BY <2>1 DEF EI
    <3> QED BY <2>1, <3>1, TimerStarts, Bounds DEF IInv
  <2>2. CASE state[n] # "eIdle"
    BY <2>2 DEF EI, IInv, TypeOK, tmr
  <2> QED BY <2>1, <2>2
<1>2. TypeOK'
  BY <1>1 DEF EI, IInv, TypeOK, States, app, wire
<1>3. ASSUME NEW m \in Node PROVE NodeInv(m)'
  <2>1. UNCHANGED <<txRetryCnt, txJamCnt, buffered, UDRIE, TXCIE, pc, msgs>>
    BY DEF EI, app
  <2>2. CASE m = n /\ state[n] = "eIdle"
    <3>1. state'[m] = "eRxing" /\ OCIE'[m]
      BY <1>1, <2>2 DEF EI, IInv, TypeOK
    <3> QED BY <2>1, <2>2, <3>1
            DEF IInv, NodeInv, EnablesInv, CountersInv, TimerInv, Mute
  <2>3. CASE ~(m = n /\ state[n] = "eIdle")
    <3>1. state'[m] = state[m] /\ OCIE'[m] = OCIE[m] /\ ticks'[m] = ticks[m]
      BY <1>1, <2>3 DEF EI, IInv, TypeOK, tmr
    <3> QED BY <2>1, <3>1 DEF IInv, NodeInv, EnablesInv, CountersInv, TimerInv, Mute
  <2> QED BY <2>2, <2>3
<1> QED BY <1>2, <1>3 DEF IInv

LEMMA TxCompleteStep ==
  ASSUME IInv, NEW n \in Node, TxComplete(n)
  PROVE  IInv'
<1>1. /\ OCIE' \in [Node -> BOOLEAN] /\ ticks' \in [Node -> Nat]
      /\ state[n] = "eTxJamming" => OCIE'[n] /\ ticks'[n] # 0
      /\ state[n] # "eTxJamming" => UNCHANGED tmr
      /\ \A m \in Node \ {n} : OCIE'[m] = OCIE[m] /\ ticks'[m] = ticks[m]
  <2>1. CASE state[n] = "eTxJamming"
    <3>1. TimerStart(n, InterChar) /\ ~OCIE[n]
      BY <2>1 DEF TxComplete, IInv, NodeInv, TimerInv
    <3> QED BY <2>1, <3>1, TimerStarts, Bounds DEF IInv
  <2>2. CASE state[n] # "eTxJamming"
    BY <2>2 DEF TxComplete, IInv, TypeOK, tmr
  <2> QED BY <2>1, <2>2
<1>2. TypeOK'
  BY <1>1 DEF TxComplete, IInv, TypeOK, States, app, wire
<1>3. ASSUME NEW m \in Node PROVE NodeInv(m)'
  BY <1>1, SMTT(30) DEF TxComplete, TxcIrq, IInv, TypeOK, NodeInv, EnablesInv, CountersInv, TimerInv, Mute, app, wire, tmr
<1> QED BY <1>2, <1>3 DEF IInv

LEMMA StartBitStep ==
  ASSUME IInv, NEW n \in Node, StartBit(n)
  PROVE  IInv'
<1>1. TypeOK'
  BY Bounds DEF IInv, NodeInv, CountersInv, TypeOK, States, tmr, rxEnv, wire, app, StartBit
<1>2. ASSUME NEW m \in Node PROVE NodeInv(m)'
  BY Bounds DEF IInv, NodeInv, EnablesInv, CountersInv, TimerInv, Mute, TypeOK, States, tmr, rxEnv, wire, app, StartBit
<1> QED BY <1>1, <1>2 DEF IInv

LEMMA RxTimeoutStep ==
  ASSUME IInv, NEW n \in Node, Timeout(n), RxTimeout(n)
  PROVE  IInv'
<1>1. /\ OCIE' \in [Node -> BOOLEAN] /\ ticks' \in [Node -> Nat] /\ ~OCIE'[n]
      /\ \A m \in Node \ {n} : OCIE'[m] = OCIE[m] /\ ticks'[m] = ticks[m]
  BY TimerStops DEF IInv, RxTimeout
<1>2. /\ state' \in [Node -> States] /\ state[n] = "eRxing" /\ state'[n] = "eIdle"
      /\ \A m \in Node \ {n} : state'[m] = state[m]
  BY StateNames DEF IInv, TypeOK, RxTimeout
<1>3. UNCHANGED <<txStartup, txRetryCnt, txRxComparePos, txJamCnt, txDelayTicks, buffered,
                  txBuf, shift, UDR, UDRIE, TXCIE, TXC, RXC, begun, power, pc, msgs>>
  BY DEF RxTimeout, Timeout, app, wire
<1>4. EIF' \in [Node -> BOOLEAN] /\ EIMSK' \in [Node -> BOOLEAN]
  BY DEF IInv, TypeOK, RxTimeout
<1>5. TypeOK'
  BY <1>1, <1>2, <1>3, <1>4 DEF IInv, TypeOK
<1>6. NodeInv(n)'
  BY <1>1, <1>2, <1>3 DEF IInv, NodeInv, EnablesInv, CountersInv, TimerInv, Mute
<1>7. \A m \in Node \ {n} : NodeInv(m)'
  BY <1>1, <1>2, <1>3, Frame
<1> QED BY <1>5, <1>6, <1>7 DEF IInv

LEMMA StoppedTimeoutStep ==
  ASSUME IInv, NEW n \in Node, Timeout(n), StoppedTimeout(n)
  PROVE  IInv'
<1>1. UNCHANGED <<txStartup, txRxComparePos, txJamCnt, txBuf, shift, UDR, UDRIE, TXCIE,
                  TXC, RXC, EIF, EIMSK, begun, power, pc, msgs>>
  BY DEF StoppedTimeout, Timeout, app, wire, rxEnv
<1>2. state[n] = "eTxStopped" /\ OCIE[n] /\ ticks[n] = 0 /\ pc[n] # "copy"
  BY DEF StoppedTimeout, Timeout, TimerIrq, IInv, NodeInv, TimerInv
<1>3. CASE txRetryCnt[n] < MaxTxRetry
  <2>1. PICK r \in 0 .. txRetryCnt[n] * BackoffStep - 1 :
          /\ state' = [state EXCEPT ![n] = "eTxPending"]
          /\ txDelayTicks' = [txDelayTicks EXCEPT ![n] = InterChar + r]
          /\ ticks' = [ticks EXCEPT ![n] = InterChar + r]
          /\ UNCHANGED <<OCIE, txRetryCnt, buffered>>
    BY <1>3 DEF StoppedTimeout
  <2>2. InterChar + r \in Delays /\ InterChar + r \in Nat
    <3>1. txRetryCnt[n] \in Nat /\ txRetryCnt[n] <= MaxTxRetry
      BY <1>3, Bounds DEF IInv, TypeOK
    <3>2. txRetryCnt[n] * BackoffStep <= BackoffStep * MaxTxRetry
      BY <3>1, DelayBound, Bounds
    <3>3. txRetryCnt[n] * BackoffStep \in Nat /\ BackoffStep * MaxTxRetry \in Nat
      BY <3>1, Bounds
    <3> QED BY <3>2, <3>3, Bounds DEF Delays
  <2>3. TypeOK'
    BY <1>1, <2>1, <2>2, StateNames DEF IInv, TypeOK
  <2>4. NodeInv(n)'
    BY <1>1, <1>2, <1>3, <2>1 DEF IInv, TypeOK, NodeInv, EnablesInv, CountersInv, TimerInv, Mute
  <2>5. \A m \in Node \ {n} : NodeInv(m)'
    BY <1>1, <2>1, Frame DEF IInv, TypeOK
  <2> QED BY <2>3, <2>4, <2>5 DEF IInv
<1>4. CASE ~(txRetryCnt[n] < MaxTxRetry)
  <2>1. /\ buffered' = [buffered EXCEPT ![n] = <<>>]
        /\ txRetryCnt' = [txRetryCnt EXCEPT ![n] = 0]
        /\ TimerStop(n) /\ UNCHANGED <<state, txDelayTicks>>
    BY <1>4 DEF StoppedTimeout
  <2>2. /\ OCIE' \in [Node -> BOOLEAN] /\ ticks' \in [Node -> Nat] /\ ~OCIE'[n]
        /\ \A m \in Node \ {n} : OCIE'[m] = OCIE[m] /\ ticks'[m] = ticks[m]
    BY <2>1, TimerStops DEF IInv
  <2>3. TypeOK'
    <3>1. /\ buffered' \in [Node -> Seq(Char)]
          /\ \A m \in Node : Len(buffered'[m]) <= BufSize
      BY <2>1, EmptyType, Bounds DEF IInv, TypeOK
    <3>2. txRetryCnt' \in [Node -> 0 .. MaxTxRetry]
      BY <2>1, Bounds DEF IInv, TypeOK
    <3> QED BY <1>1, <2>1, <2>2, <3>1, <3>2 DEF IInv, TypeOK
  <2>4. NodeInv(n)'
    BY <1>1, <1>2, <2>1, <2>2
    DEF IInv, TypeOK, NodeInv, EnablesInv, CountersInv, TimerInv, Mute
  <2>5. \A m \in Node \ {n} : NodeInv(m)'
    BY <1>1, <2>1, <2>2, Frame DEF IInv, TypeOK
  <2> QED BY <2>3, <2>4, <2>5 DEF IInv
<1> QED BY <1>3, <1>4

LEMMA PendingTimeoutStep ==
  ASSUME IInv, NEW n \in Node, Timeout(n), PendingTimeout(n)
  PROVE  IInv'
<1>1. /\ OCIE' \in [Node -> BOOLEAN] /\ ticks' \in [Node -> Nat] /\ ~OCIE'[n]
      /\ \A m \in Node \ {n} : OCIE'[m] = OCIE[m] /\ ticks'[m] = ticks[m]
  BY TimerStops DEF IInv, PendingTimeout
<1>2. /\ state' \in [Node -> States] /\ state[n] = "eTxPending" /\ state'[n] = "eIdle"
      /\ \A m \in Node \ {n} : state'[m] = state[m]
  BY StateNames DEF IInv, TypeOK, PendingTimeout
<1>3. UNCHANGED <<txRetryCnt, txJamCnt, txDelayTicks, buffered, shift, UDR, TXC, RXC,
                  EIF, EIMSK, begun, pc, msgs>>
  BY DEF PendingTimeout, Timeout, app, wire, rxEnv
<1>4. SendFromIdle(n)
  BY DEF PendingTimeout
<1>5. TypeOK'
  BY <1>1, <1>2, <1>3, <1>4, SendFromIdleType DEF IInv, TypeOK
<1>6. NodeInv(n)'
  <2>1. UDRIE'[n] /\ TXCIE'[n] => UDRIE[n] /\ TXCIE[n]
    BY <1>4, SendFromIdleType DEF IInv
  <2> QED BY <1>1, <1>2, <1>3, <2>1 DEF IInv, NodeInv, EnablesInv, CountersInv, TimerInv, Mute
<1>7. ASSUME NEW m \in Node \ {n} PROVE NodeInv(m)'
  <2>1. UDRIE'[m] = UDRIE[m] /\ TXCIE'[m] = TXCIE[m]
    BY <1>4, SendFromIdleType DEF IInv
  <2> QED BY <1>1, <1>2, <1>3, <2>1, Frame
<1> QED BY <1>5, <1>6, <1>7 DEF IInv

LEMMA OtherTimeoutStep ==
  ASSUME IInv, NEW n \in Node, Timeout(n), OtherTimeout(n)
  PROVE  IInv'
<1>1. /\ OCIE' \in [Node -> BOOLEAN] /\ ticks' \in [Node -> Nat] /\ ~OCIE'[n]
      /\ \A m \in Node \ {n} : OCIE'[m] = OCIE[m] /\ ticks'[m] = ticks[m]
  BY TimerStops DEF IInv, OtherTimeout
<1>2. /\ state' \in [Node -> States] /\ state[n] \in {"eIdle", "eTxing"} /\ state'[n] = "eIdle"
      /\ \A m \in Node \ {n} : state'[m] = state[m]
  BY StateNames DEF IInv, TypeOK, OtherTimeout, Timeout, TimerIrq, NodeInv, TimerInv
<1>3. UNCHANGED <<txStartup, txRetryCnt, txRxComparePos, txJamCnt, txDelayTicks, buffered,
                  txBuf, shift, UDR, UDRIE, TXCIE, TXC, RXC, EIF, EIMSK, begun, power, pc,
                  msgs>>
  BY DEF OtherTimeout, Timeout, app, wire, rxEnv
<1>4. TypeOK'
  BY <1>1, <1>2, <1>3 DEF IInv, TypeOK
<1>5. NodeInv(n)'
  BY <1>1, <1>2, <1>3 DEF IInv, NodeInv, EnablesInv, CountersInv, TimerInv, Mute
<1>6. \A m \in Node \ {n} : NodeInv(m)'
  BY <1>1, <1>2, <1>3, Frame
<1> QED BY <1>4, <1>5, <1>6 DEF IInv

LEMMA RxEchoStep ==
  ASSUME IInv, NEW n \in Node, RXComplete(n), RxEcho(n)
  PROVE  IInv'
<1>1. UNCHANGED <<state, txStartup, txJamCnt, txDelayTicks, txBuf, shift, UDR, UDRIE,
                  TXCIE, TXC, EIF, EIMSK, begun, power, pc, msgs>>
  BY DEF RxEcho, RXComplete, app, wire, rxEnv
<1>2. state[n] = "eTxing" /\ RXC' \in [Node -> Char \cup {None}]
  BY DEF RxEcho, RXComplete, IInv, TypeOK
<1>3. txRxComparePos' \in [Node -> Nat]
  BY DEF RxEcho, IInv, TypeOK
<1>4. /\ OCIE' \in [Node -> BOOLEAN] /\ ticks' \in [Node -> Nat]
      /\ \A m \in Node \ {n} : OCIE'[m] = OCIE[m] /\ ticks'[m] = ticks[m]
  <2>1. TimerStop(n) \/ TimerStart(n, InterChar)
    BY DEF RxEcho
  <2> QED BY <2>1, TimerStarts, TimerStops, Bounds DEF IInv
<1>5. \/ /\ buffered' = [buffered EXCEPT ![n] = <<>>]
         /\ txRetryCnt' = [txRetryCnt EXCEPT ![n] = 0]
      \/ UNCHANGED <<buffered, txRetryCnt>>
  BY DEF RxEcho
<1>6. /\ buffered' \in [Node -> Seq(Char)]
      /\ \A m \in Node : Len(buffered'[m]) <= BufSize
  <2>1. CASE buffered' = buffered
    BY <2>1 DEF IInv, TypeOK
  <2>2. CASE buffered' = [buffered EXCEPT ![n] = <<>>]
    BY <2>2, EmptyType, Bounds DEF IInv, TypeOK
  <2> QED BY <1>5, <2>1, <2>2
<1>7. txRetryCnt' \in [Node -> 0 .. MaxTxRetry] /\ txRetryCnt'[n] < MaxTxRetry
  <2>1. txRetryCnt[n] < MaxTxRetry /\ txRetryCnt \in [Node -> 0 .. MaxTxRetry]
    BY <1>2 DEF IInv, TypeOK, NodeInv, CountersInv
  <2> QED BY <1>5, <2>1, Bounds
<1>8. TypeOK'
  BY <1>1, <1>2, <1>3, <1>4, <1>6, <1>7 DEF IInv, TypeOK
<1>9. NodeInv(n)'
  BY <1>1, <1>2, <1>7 DEF IInv, NodeInv, EnablesInv, CountersInv, TimerInv, Mute
<1>10. \A m \in Node \ {n} : NodeInv(m)'
  BY <1>1, <1>4, <1>5, Frame DEF IInv, TypeOK
<1> QED BY <1>8, <1>9, <1>10 DEF IInv

LEMMA RxCollisionStep ==
  ASSUME IInv, NEW n \in Node, RXComplete(n), RxCollision(n)
  PROVE  IInv'
<1>1. UNCHANGED <<txStartup, txRxComparePos, txDelayTicks, buffered, UDRIE, TXCIE,
                  EIF, EIMSK, begun, power, pc, msgs>>
  BY DEF RxCollision, RXComplete, app, wire, rxEnv
<1>2. /\ state[n] = "eTxing" /\ state' = [state EXCEPT ![n] = "eTxJamming"]
      /\ txBuf' = [txBuf EXCEPT ![n] = <<>>]
      /\ txRetryCnt' = [txRetryCnt EXCEPT ![n] = @ + 1]
      /\ txJamCnt' = [txJamCnt EXCEPT ![n] = 0]
  BY DEF RxCollision
<1>3. /\ OCIE' \in [Node -> BOOLEAN] /\ ticks' \in [Node -> Nat] /\ ~OCIE'[n]
      /\ \A m \in Node \ {n} : OCIE'[m] = OCIE[m] /\ ticks'[m] = ticks[m]
  BY TimerStops DEF IInv, RxCollision
<1>4. /\ txBuf' \in [Node -> Seq(Char)]
      /\ \A m \in Node : Len(txBuf'[m]) <= BufSize
  BY <1>2, EmptyType, Bounds DEF IInv, TypeOK
<1>5. txRetryCnt' \in [Node -> 0 .. MaxTxRetry]
  <2>1. txRetryCnt[n] < MaxTxRetry /\ txRetryCnt \in [Node -> 0 .. MaxTxRetry]
    BY <1>2 DEF IInv, TypeOK, NodeInv, CountersInv
  <2> QED BY <1>2, <2>1, Bounds
<1>6. txJamCnt' \in [Node -> 0 .. MaxJamCnt] /\ txJamCnt'[n] = 0
  BY <1>2, Bounds DEF IInv, TypeOK
<1>7. /\ shift' \in [Node -> Char \cup {None}] /\ UDR' \in [Node -> Char \cup {None}]
      /\ TXC' \in [Node -> BOOLEAN] /\ RXC' \in [Node -> Char \cup {None}]
  <2>1. WriteUDR(n, Jam) \/ UNCHANGED <<shift, UDR>>
    BY DEF RxCollision
  <2>2. TXC' = TXC \/ TXC' = [TXC EXCEPT ![n] = FALSE]
    BY DEF RxCollision
  <2>3. Jam \in Char
    BY DEF Char
  <2>4. RXC' \in [Node -> Char \cup {None}]
    BY DEF RXComplete, IInv, TypeOK
  <2> QED BY <2>1, <2>2, <2>3, <2>4, WriteUDRType DEF IInv, TypeOK
<1>8. state' \in [Node -> States]
  BY <1>2, StateNames DEF IInv, TypeOK
<1>9. TypeOK'
  BY <1>1, <1>3, <1>4, <1>5, <1>6, <1>7, <1>8 DEF IInv, TypeOK
<1>10. NodeInv(n)'
  <2>1. state'[n] = "eTxJamming"
    BY <1>2 DEF IInv, TypeOK
  <2> QED BY <1>1, <1>2, <1>3, <1>6, <2>1, Bounds
          DEF IInv, NodeInv, EnablesInv, CountersInv, TimerInv, Mute
<1>11. \A m \in Node \ {n} : NodeInv(m)'
  BY <1>1, <1>2, <1>3, Frame DEF IInv, TypeOK
<1> QED BY <1>9, <1>10, <1>11 DEF IInv

LEMMA RxDiscardStep ==
  ASSUME IInv, NEW n \in Node, RXComplete(n), RxDiscard(n)
  PROVE  IInv'
<1>1. UNCHANGED <<state, txStartup, txRetryCnt, txRxComparePos, txJamCnt, txDelayTicks,
                  buffered, txBuf, shift, UDR, UDRIE, TXCIE, TXC, EIF, EIMSK, begun, power,
                  pc, msgs>>
  BY DEF RxDiscard, RXComplete, app, wire, rxEnv
<1>2. RXC' \in [Node -> Char \cup {None}]
  BY DEF RXComplete, IInv, TypeOK
<1>3. /\ OCIE' \in [Node -> BOOLEAN] /\ ticks' \in [Node -> Nat]
      /\ \A m \in Node \ {n} : OCIE'[m] = OCIE[m] /\ ticks'[m] = ticks[m]
      /\ \/ state[n] = "eTxJamming" /\ ~OCIE'[n]
         \/ state[n] = "eTxStopped" /\ OCIE'[n] = OCIE[n] /\ ticks'[n] = ticks[n]
  <2>1. CASE state[n] = "eTxJamming"
    <3>1. TimerStop(n)
      BY <2>1 DEF RxDiscard
    <3> QED BY <2>1, <3>1, TimerStops DEF IInv
  <2>2. CASE state[n] = "eTxStopped"
    BY <2>2 DEF RxDiscard, IInv, TypeOK, tmr
  <2> QED BY <2>1, <2>2 DEF RxDiscard
<1>4. TypeOK'
  BY <1>1, <1>2, <1>3 DEF IInv, TypeOK
<1>5. NodeInv(n)'
  BY <1>1, <1>3 DEF IInv, NodeInv, EnablesInv, CountersInv, TimerInv, Mute
<1>6. \A m \in Node \ {n} : NodeInv(m)'
  BY <1>1, <1>3, Frame
<1> QED BY <1>4, <1>5, <1>6 DEF IInv

LEMMA RxAcceptStep ==
  ASSUME IInv, NEW n \in Node, RXComplete(n), RxAccept(n)
  PROVE  IInv'
<1>1. UNCHANGED <<txStartup, txRetryCnt, txRxComparePos, txJamCnt, txDelayTicks, buffered,
                  txBuf, shift, UDR, UDRIE, TXCIE, TXC, EIF, EIMSK, begun, power, pc, msgs>>
  BY DEF RxAccept, RXComplete, app, wire, rxEnv
<1>2. RXC' \in [Node -> Char \cup {None}]
  BY DEF RXComplete, IInv, TypeOK
<1>3. /\ OCIE' \in [Node -> BOOLEAN] /\ ticks' \in [Node -> Nat] /\ OCIE'[n]
      /\ \A m \in Node \ {n} : OCIE'[m] = OCIE[m] /\ ticks'[m] = ticks[m]
  <2>1. txDelayTicks[n] \in Nat /\ txDelayTicks[n] > 0
    BY Bounds DEF IInv, TypeOK, Delays
  <2>2. TimerStart(n, txDelayTicks[n]) \/ TimerStart(n, InterChar)
    BY DEF RxAccept
  <2> QED BY <2>1, <2>2, TimerStarts, Bounds DEF IInv
<1>4. /\ state' \in [Node -> States]
      /\ state[n] \in {"eTxPending", "eIdle", "eRxing"} /\ state'[n] \in {"eTxPending", "eRxing"}
      /\ \A m \in Node \ {n} : state'[m] = state[m]
  <2>1. \/ state[n] = "eTxPending" /\ state' = state
        \/ state[n] \in {"eIdle", "eRxing"} /\ state' = [state EXCEPT ![n] = "eRxing"]
    BY DEF RxAccept
  <2>2. CASE state[n] = "eTxPending" /\ state' = state
    BY <2>2 DEF IInv, TypeOK
  <2>3. CASE state[n] \in {"eIdle", "eRxing"} /\ state' = [state EXCEPT ![n] = "eRxing"]
    BY <2>3, StateNames DEF IInv, TypeOK
  <2> QED BY <2>1, <2>2, <2>3
<1>5. TypeOK'
  BY <1>1, <1>2, <1>3, <1>4 DEF IInv, TypeOK
<1>6. NodeInv(n)'
  BY <1>1, <1>3, <1>4 DEF IInv, NodeInv, EnablesInv, CountersInv, TimerInv, Mute
<1>7. \A m \in Node \ {n} : NodeInv(m)'
  BY <1>1, <1>3, <1>4, Frame
<1> QED BY <1>5, <1>6, <1>7 DEF IInv

-----------------------------------------------------------------------------
LEMMA SendJamStep ==
  ASSUME IInv, NEW n \in Node, DataRegisterEmpty(n), SendJam(n)
  PROVE  IInv'
<1>1. UNCHANGED <<state, txStartup, txRetryCnt, txRxComparePos, txDelayTicks, buffered, txBuf,
                  TXC, RXC, OCIE, ticks, EIF, EIMSK, begun, power, pc, msgs>>
  BY DEF SendJam, DataRegisterEmpty, tmr, app, wire
<1>2. /\ state[n] = "eTxJamming" /\ UDRIE[n]
      /\ txJamCnt[n] \in Nat /\ txJamCnt[n] < MaxJamCnt
      /\ txJamCnt' = [txJamCnt EXCEPT ![n] = @ + 1]
  BY DEF SendJam, DataRegisterEmpty, UdreIrq, IInv, TypeOK, NodeInv, CountersInv
<1>3. /\ txJamCnt' \in [Node -> 0 .. MaxJamCnt] /\ txJamCnt'[n] = txJamCnt[n] + 1
      /\ \A m \in Node \ {n} : txJamCnt'[m] = txJamCnt[m]
  BY <1>2, Bounds DEF IInv, TypeOK
<1>4. \/ txJamCnt[n] + 1 < MaxJamCnt /\ WriteUDR(n, Jam) /\ UNCHANGED <<TXCIE, UDRIE>>
      \/ /\ TXCIE' = [TXCIE EXCEPT ![n] = TRUE] /\ UDRIE' = [UDRIE EXCEPT ![n] = FALSE]
         /\ UNCHANGED <<shift, UDR>>
  BY DEF SendJam
<1>5. TypeOK'
  <2>1. TXCIE' \in [Node -> BOOLEAN] /\ UDRIE' \in [Node -> BOOLEAN]
    BY <1>4 DEF IInv, TypeOK
  <2>2. shift' \in [Node -> Char \cup {None}] /\ UDR' \in [Node -> Char \cup {None}]
    <3>1. Jam \in Char
      BY DEF Char
    <3> QED BY <1>4, <3>1, WriteUDRType DEF IInv, TypeOK
  <2> QED BY <1>1, <1>3, <2>1, <2>2 DEF IInv, TypeOK
<1>6. NodeInv(n)'
  <2>1. \/ txJamCnt'[n] < MaxJamCnt /\ UDRIE'[n] /\ ~TXCIE'[n]
        \/ TXCIE'[n] /\ ~UDRIE'[n]
    BY <1>2, <1>3, <1>4 DEF IInv, TypeOK, NodeInv, EnablesInv
  <2> QED BY <1>1, <1>2, <2>1 DEF IInv, NodeInv, EnablesInv, CountersInv, TimerInv, Mute
<1>7. \A m \in Node \ {n} : NodeInv(m)'
  <2>1. \A m \in Node \ {n} : UDRIE'[m] = UDRIE[m] /\ TXCIE'[m] = TXCIE[m]
    BY <1>4 DEF IInv, TypeOK
  <2> QED BY <1>1, <1>3, <2>1, Frame
<1> QED BY <1>5, <1>6, <1>7 DEF IInv

LEMMA DeferStep ==
  ASSUME IInv, NEW n \in Node, DataRegisterEmpty(n), Defer(n)
  PROVE  IInv'
<1>1. UNCHANGED <<txRetryCnt, txRxComparePos, txJamCnt, buffered, shift, UDR, TXCIE, TXC,
                  RXC, EIMSK, begun, power, pc, msgs>>
  BY DEF Defer, DataRegisterEmpty, app, wire
<1>2. /\ UDRIE[n] /\ state[n] # "eTxJamming" /\ state' = [state EXCEPT ![n] = "eTxPending"]
      /\ txDelayTicks' = [txDelayTicks EXCEPT ![n] = InterChar]
      /\ txBuf' = [txBuf EXCEPT ![n] = <<>>] /\ UDRIE' = [UDRIE EXCEPT ![n] = FALSE]
      /\ TimerStart(n, InterChar)
  BY DEF Defer, Postpone, DataRegisterEmpty, UdreIrq
<1>3. /\ OCIE' \in [Node -> BOOLEAN] /\ ticks' \in [Node -> Nat] /\ OCIE'[n]
      /\ \A m \in Node \ {n} : OCIE'[m] = OCIE[m] /\ ticks'[m] = ticks[m]
  BY <1>2, TimerStarts, Bounds DEF IInv
<1>4. /\ state' \in [Node -> States] /\ state'[n] = "eTxPending"
      /\ \A m \in Node \ {n} : state'[m] = state[m]
  BY <1>2, StateNames DEF IInv, TypeOK
<1>5. TypeOK'
  <2>1. /\ txBuf' \in [Node -> Seq(Char)]
        /\ \A m \in Node : Len(txBuf'[m]) <= BufSize
    BY <1>2, EmptyType, Bounds DEF IInv, TypeOK
  <2>2. txDelayTicks' \in [Node -> Delays]
    BY <1>2, Bounds DEF IInv, TypeOK
  <2>3. txStartup' \in [Node -> BOOLEAN] /\ EIF' \in [Node -> BOOLEAN]
    BY DEF Defer, IInv, TypeOK
  <2>4. UDRIE' \in [Node -> BOOLEAN]
    BY <1>2 DEF IInv, TypeOK
  <2> QED BY <1>1, <1>3, <1>4, <2>1, <2>2, <2>3, <2>4 DEF IInv, TypeOK
<1>6. NodeInv(n)'
  <2>1. ~UDRIE'[n]
    BY <1>2 DEF IInv, TypeOK
  <2>2. state[n] # "eTxStopped"
    BY <1>2 DEF IInv, NodeInv, EnablesInv
  <2> QED BY <1>1, <1>2, <1>3, <1>4, <2>1, <2>2
          DEF IInv, NodeInv, EnablesInv, CountersInv, TimerInv, Mute
<1>7. \A m \in Node \ {n} : NodeInv(m)'
  <2>1. \A m \in Node \ {n} : UDRIE'[m] = UDRIE[m]
    BY <1>2 DEF IInv, TypeOK
  <2> QED BY <1>1, <1>3, <1>4, <2>1, Frame
<1> QED BY <1>5, <1>6, <1>7 DEF IInv

LEMMA SendNextStep ==
  ASSUME IInv, NEW n \in Node, DataRegisterEmpty(n), SendNext(n)
  PROVE  IInv'
<1>1. UNCHANGED <<txRetryCnt, txRxComparePos, txJamCnt, txDelayTicks, buffered, UDRIE, TXCIE,
                  RXC, OCIE, ticks, EIF, EIMSK, begun, power, pc, msgs>>
  BY DEF SendNext, DataRegisterEmpty, app, wire, tmr
<1>2. /\ UDRIE[n] /\ state[n] \notin {"eTxJamming", "eRxing"} /\ txBuf[n] # <<>>
      /\ state' = [state EXCEPT ![n] = "eTxing"] /\ txBuf' = [txBuf EXCEPT ![n] = Tail(@)]
      /\ WriteUDR(n, Head(txBuf[n]))
  BY DEF SendNext, DataRegisterEmpty, UdreIrq
<1>3. /\ state' \in [Node -> States] /\ state'[n] = "eTxing"
      /\ \A m \in Node \ {n} : state'[m] = state[m]
  BY <1>2, StateNames DEF IInv, TypeOK
<1>4. TypeOK'
  <2>1. /\ Head(txBuf[n]) \in Char /\ Tail(txBuf[n]) \in Seq(Char)
        /\ Len(Tail(txBuf[n])) <= BufSize
    BY <1>2, Bounds DEF IInv, TypeOK
  <2>2. /\ txBuf' \in [Node -> Seq(Char)]
        /\ \A m \in Node : Len(txBuf'[m]) <= BufSize
    BY <1>2, <2>1 DEF IInv, TypeOK
  <2>3. shift' \in [Node -> Char \cup {None}] /\ UDR' \in [Node -> Char \cup {None}]
    BY <1>2, <2>1, WriteUDRType DEF IInv
  <2>4. txStartup' \in [Node -> BOOLEAN] /\ TXC' \in [Node -> BOOLEAN]
    BY DEF SendNext, IInv, TypeOK
  <2> QED BY <1>1, <1>3, <2>2, <2>3, <2>4 DEF IInv, TypeOK
<1>5. NodeInv(n)'
  <2>1. state[n] # "eTxStopped"
    BY <1>2 DEF IInv, NodeInv, EnablesInv
  <2> QED BY <1>1, <1>2, <1>3, <2>1 DEF IInv, NodeInv, EnablesInv, CountersInv, TimerInv, Mute
<1>6. \A m \in Node \ {n} : NodeInv(m)'
  BY <1>1, <1>3, Frame
<1> QED BY <1>4, <1>5, <1>6 DEF IInv

LEMMA LastCharStep ==
  ASSUME IInv, NEW n \in Node, DataRegisterEmpty(n), LastChar(n)
  PROVE  IInv'
<1>1. UNCHANGED <<state, txStartup, txRetryCnt, txRxComparePos, txJamCnt, txDelayTicks,
                  buffered, txBuf, shift, UDR, TXC, RXC, OCIE, ticks, EIF, EIMSK, begun, power,
                  pc, msgs>>
  BY DEF LastChar, DataRegisterEmpty, app, wire, tmr
<1>2. /\ UDRIE[n] /\ state[n] # "eTxJamming"
      /\ TXCIE' = [TXCIE EXCEPT ![n] = TRUE] /\ UDRIE' = [UDRIE EXCEPT ![n] = FALSE]
  BY DEF LastChar, DataRegisterEmpty, UdreIrq
<1>3. /\ TXCIE' \in [Node -> BOOLEAN] /\ UDRIE' \in [Node -> BOOLEAN]
      /\ TXCIE'[n] /\ ~UDRIE'[n]
      /\ \A m \in Node \ {n} : UDRIE'[m] = UDRIE[m] /\ TXCIE'[m] = TXCIE[m]
  BY <1>2 DEF IInv, TypeOK
<1>4. TypeOK'
  BY <1>1, <1>3 DEF IInv, TypeOK
<1>5. NodeInv(n)'
  BY <1>1, <1>2, <1>3 DEF IInv, NodeInv, EnablesInv, CountersInv, TimerInv, Mute
<1>6. \A m \in Node \ {n} : NodeInv(m)'
  BY <1>1, <1>3, Frame
<1> QED BY <1>4, <1>5, <1>6 DEF IInv

(* While a character time passes no handler runs: only the hardware changes. *)
LEMMA TickStep ==
  ASSUME IInv, Tick
  PROVE  IInv'
<1>1. UNCHANGED <<state, txStartup, txRetryCnt, txRxComparePos, txJamCnt, txDelayTicks,
                  buffered, txBuf, UDRIE, TXCIE, OCIE, EIMSK, power, pc, msgs>>
  BY DEF Tick, app
<1>2. \A n \in Node : pc[n] # "copy" /\ (OCIE[n] => ticks[n] # 0)
  BY DEF Tick, Irq, TimerIrq
<1>3. ticks' \in [Node -> Nat]
  BY <1>2 DEF Tick, IInv, TypeOK
<1>4. /\ shift' \in [Node -> Char \cup {None}] /\ UDR' \in [Node -> Char \cup {None}]
      /\ begun' \in [Node -> BOOLEAN]
  BY DEF Tick, IInv, TypeOK
<1>5. TXC' \in [Node -> BOOLEAN]
  BY DEF Tick, IInv, TypeOK
<1>6. EIF' \in [Node -> BOOLEAN]
  BY DEF Tick, Edges, IInv, TypeOK
<1>7. RXC' \in [Node -> Char \cup {None}]
  <2>1. OnWire \subseteq Char
    <3>1. {shift[n] : n \in Driving} \subseteq Char
      BY DEF Driving, IInv, TypeOK
    <3>2. Jam \in Char /\ Garbage \in Char
      BY DEF Char
    <3> QED BY <3>1, <3>2 DEF OnWire
  <2>2. ASSUME NEW v \in Char, NEW hurt, Received(v, hurt)
        PROVE  RXC' \in [Node -> Char \cup {None}]
    <3>1. PICK c \in {Garbage, None} : RXC' = [m \in Node |-> IF m \in hurt THEN c ELSE v]
      BY <2>2 DEF Received
    <3>2. Garbage \in Char
      BY DEF Char
    <3> QED BY <3>1, <3>2
  <2>3. \/ RXC' = RXC
        \/ \E v \in OnWire, hurt \in SUBSET Node : Received(v, hurt)
    BY DEF Tick, Transfer
  <2> QED BY <2>1, <2>2, <2>3 DEF IInv, TypeOK
<1>8. TypeOK'
  BY <1>1, <1>3, <1>4, <1>5, <1>6, <1>7 DEF IInv, TypeOK
<1>9. ASSUME NEW n \in Node PROVE NodeInv(n)'
  BY <1>1, <1>2 DEF IInv, NodeInv, EnablesInv, CountersInv, TimerInv, Mute
<1> QED BY <1>8, <1>9 DEF IInv

-----------------------------------------------------------------------------
LEMMA StutterStep ==
  ASSUME IInv, UNCHANGED vars
  PROVE  IInv'
<1>1. UNCHANGED <<state, txStartup, txRetryCnt, txRxComparePos, txJamCnt, txDelayTicks,
                  buffered, txBuf, shift, UDR, UDRIE, TXCIE, TXC, RXC, OCIE, ticks, EIF, EIMSK,
                  begun, power, pc, msgs>>
  BY DEF vars, tmr, rxEnv, app, wire
<1>2. TypeOK'
  BY <1>1 DEF IInv, TypeOK
<1>3. \A m \in Node : NodeInv(m)'
  BY <1>1, Frame
<1> QED BY <1>2, <1>3 DEF IInv

LEMMA NextInv == IInv /\ [Next]_vars => IInv'
<1> SUFFICES ASSUME IInv, [Next]_vars PROVE IInv'
  OBVIOUS
<1>1. ASSUME NEW n \in Node, Timeout(n) PROVE IInv'
  BY <1>1, RxTimeoutStep, StoppedTimeoutStep, PendingTimeoutStep, OtherTimeoutStep DEF Timeout
<1>2. ASSUME NEW n \in Node, RXComplete(n) PROVE IInv'
  BY <1>2, RxEchoStep, RxCollisionStep, RxDiscardStep, RxAcceptStep DEF RXComplete
<1>3. ASSUME NEW n \in Node, DataRegisterEmpty(n) PROVE IInv'
  BY <1>3, SendJamStep, DeferStep, SendNextStep, LastCharStep DEF DataRegisterEmpty
<1>4. ASSUME NEW n \in Node, Isr(n) PROVE IInv'
  BY <1>1, <1>2, <1>3, <1>4, EIStep, TxCompleteStep DEF Isr
<1>5. ASSUME NEW n \in Node, BusSend(n) PROVE IInv'
  BY <1>5, WriteCheckStep, WriteCopyStep, SioSendBufferStep DEF BusSend
<1> QED BY <1>4, <1>5, StartBitStep, TickStep, StutterStep DEF Next

LEMMA Invariance == Spec => []IInv
BY InitInv, NextInv, PTL DEF Spec

(* The states, the counters and the buffers stay within their bounds: no     *)
(* more than MAX_TX_RETRY retries and MAX_JAM_CNT jam characters are ever    *)
(* counted, and neither transmit buffer is overrun.                          *)
THEOREM TypeCorrect == Spec => []TypeOK
<1>1. IInv => TypeOK
  BY DEF IInv
<1> QED BY <1>1, Invariance, PTL

(* A node that receives, waits to send or has stopped after a jam waits for  *)
(* a timer that runs, unless it has given its telegram up.                   *)
THEOREM TimerAlwaysRuns == Spec => []TimerRuns
<1>1. IInv => TimerRuns
  BY DEF IInv, NodeInv, TimerInv, TimerRuns
<1> QED BY <1>1, Invariance, PTL

(* A node that sends or jams has a transmitter interrupt enabled that will   *)
(* move it on.                                                               *)
THEOREM TransmitterAlwaysRuns == Spec => []TransmitterRuns
<1>1. IInv => TransmitterRuns
  BY DEF IInv, NodeInv, EnablesInv, TransmitterRuns
<1> QED BY <1>1, Invariance, PTL

-----------------------------------------------------------------------------
(* The echo comparison, node by node.                                        *)

(* The UART: characters come from the ring through UDR into the shift        *)
(* register, nothing is behind a character just received, and a node that    *)
(* has stopped waits until what it still sends is out.                       *)
HardwareInv(n) ==
  /\ UDR[n] # None => shift[n] # None
  /\ RXC[n] # None => UDR[n] = None
  /\ txBuf[n] # <<>> => UDRIE[n]
  /\ state[n] \in {"eTxJamming", "eTxStopped"} => txBuf[n] = <<>>
  /\ UDRIE[n] => power[n]
  /\ state[n] = "eTxing" => /\ power[n] /\ ~txStartup[n]
                            /\ TXC[n] <=> shift[n] = None
                            /\ pc[n] = "copy" => RXC[n] = None
  /\ state[n] = "eTxStopped" => /\ UDR[n] # None => OCIE[n] /\ ticks[n] >= 2
                                /\ shift[n] # None => OCIE[n] /\ ticks[n] >= 1

(* Nothing is being sent. *)
Quiet(n) == shift[n] = None /\ UDR[n] = None /\ txBuf[n] = <<>> /\ ~UDRIE[n] /\ ~TXCIE[n]

(* The transmitter holds what follows the first q characters of the telegram. *)
Busy(n) == (IF shift[n] = None THEN 0 ELSE 1) + (IF UDR[n] = None THEN 0 ELSE 1)
At(n, q) ==
  /\ q + Busy(n) <= Len(Telegram[n])
  /\ shift[n] # None => shift[n] = Telegram[n][q + 1]
  /\ UDR[n] # None => UDR[n] = Telegram[n][q + 2]
  /\ txBuf[n] = Rest(n, q + Busy(n))
Sync(n) == At(n, txRxComparePos[n] + Here(n))

(* The send buffer is empty: a node that sends does not time out before the  *)
(* echo of what it is sending, and the main program is copying only while no *)
(* transmission is under way.                                                *)
EmptyInv(n) ==
  /\ state[n] \in {"eIdle", "eRxing", "eTxPending"} => Quiet(n)
  /\ state[n] = "eTxing" /\ OCIE[n] => ticks[n] >= 2 \/ (ticks[n] = 1 /\ RXC[n] # None)
  /\ pc[n] = "copy" => state[n] \in {"eIdle", "eRxing"}

(* The send buffer holds a telegram: the states it goes through in eIdle and *)
(* eRxing.  It is loaded into the ring but not begun, its last characters    *)
(* are going out, or the timer has cut its echo off and it goes on; then a   *)
(* character received brings it back to eTxPending before it falls behind.   *)
Loaded(n) ==
  /\ shift[n] = None /\ UDR[n] = None /\ UDRIE[n]
  /\ txBuf[n] = Telegram[n] /\ txRxComparePos[n] = 0
Ending(n) == txBuf[n] = <<>> /\ ~UDRIE[n] /\ TXCIE[n] /\ (TXC[n] => shift[n] = None)
CutOff(n) ==
  /\ UDRIE[n] /\ (TXC[n] => shift[n] = None)
  /\ \/ state[n] = "eIdle" /\ ~OCIE[n] /\ Sync(n)
     \/ state[n] = "eRxing" /\ OCIE[n] /\ ticks[n] + Here(n) >= 2 /\ Sync(n)
     \/ state[n] = "eRxing" /\ OCIE[n] /\ ticks[n] >= 1 /\ UDR[n] = None /\ RXC[n] = None

FilledInv(n) ==
  /\ state[n] \in {"eIdle", "eRxing"} => Quiet(n) \/ Loaded(n) \/ Ending(n) \/ CutOff(n)
  /\ state[n] = "eTxing" => Sync(n)
  /\ state[n] = "eTxPending" =>
       /\ UDR[n] = None /\ txBuf[n] = <<>> /\ ~UDRIE[n] /\ ~TXCIE[n]
       /\ shift[n] # None => OCIE[n] /\ ticks[n] >= 2
  /\ pc[n] = "send" => state[n] \in {"eIdle", "eRxing"} /\ Quiet(n)

(* As long as nothing was lost, the send buffer is empty, holds the telegram *)
(* or more than that (what BusSend left in it without success).              *)
StepInv(n) ==
  lost = 0 /\ Len(Telegram[n]) <= BufSize =>
    /\ \/ buffered[n] = <<>> /\ EmptyInv(n)
       \/ buffered[n] = Telegram[n] /\ FilledInv(n)
       \/ Len(buffered[n]) > Len(Telegram[n])

SyncInv == lost \in Nat /\ \A n \in Node : HardwareInv(n) /\ StepInv(n)

-----------------------------------------------------------------------------
LEMMA TelegramType ==
  ASSUME NEW n \in Node
  PROVE  /\ Telegram[n] \in Seq(Char) /\ Telegram[n] # <<>>
         /\ Len(Telegram[n]) \in Nat /\ Len(Telegram[n]) > 0
         /\ \A i \in 1 .. Len(Telegram[n]) : Telegram[n][i] \in Char /\ Telegram[n][i] # None
<1>1. Telegram[n] \in Seq(Char) /\ Len(Telegram[n]) > 0 /\ None \notin Char
  BY SioAssumption
<1> QED BY <1>1

(* What is left of a telegram, by its length. *)
LEMMA RestFacts ==
  ASSUME NEW n \in Node, NEW i \in Nat, i <= Len(Telegram[n])
  PROVE  /\ Rest(n, i) \in Seq(Char) /\ Len(Rest(n, i)) = Len(Telegram[n]) - i
         /\ \A j \in 1 .. Len(Telegram[n]) - i : Rest(n, i)[j] = Telegram[n][i + j]
<1>1. Telegram[n] \in Seq(Char) /\ Len(Telegram[n]) \in Nat
  BY TelegramType
<1> QED BY <1>1 DEF Rest

LEMMA RestEnd ==
  ASSUME NEW n \in Node, NEW i \in Nat, i <= Len(Telegram[n])
  PROVE  Rest(n, i) = <<>> <=> i = Len(Telegram[n])
BY RestFacts, TelegramType

LEMMA RestAll ==
  ASSUME NEW n \in Node
  PROVE  Rest(n, 0) = Telegram[n]
<1>1. /\ Rest(n, 0) \in Seq(Char) /\ Len(Rest(n, 0)) = Len(Telegram[n])
      /\ \A j \in 1 .. Len(Telegram[n]) : Rest(n, 0)[j] = Telegram[n][j]
  <2>1. 0 \in Nat /\ 0 <= Len(Telegram[n]) /\ Len(Telegram[n]) \in Nat
    BY TelegramType
  <2> QED BY <2>1, RestFacts
<1> QED BY <1>1, TelegramType, SeqEqual

LEMMA RestNext ==
  ASSUME NEW n \in Node, NEW i \in Nat, i < Len(Telegram[n])
  PROVE  /\ Head(Rest(n, i)) = Telegram[n][i + 1]
         /\ Tail(Rest(n, i)) = Rest(n, i + 1)
         /\ <<Telegram[n][i + 1]>> \o Rest(n, i + 1) = Rest(n, i)
<1> DEFINE L == Len(Telegram[n])
<1>1. L \in Nat /\ Telegram[n][i + 1] \in Char
  BY TelegramType
<1>2. /\ Rest(n, i) \in Seq(Char) /\ Len(Rest(n, i)) = L - i
      /\ \A j \in 1 .. L - i : Rest(n, i)[j] = Telegram[n][i + j]
  <2>1. i <= Len(Telegram[n])
    BY <1>1
  <2> QED BY <2>1, RestFacts
<1>3. /\ Rest(n, i + 1) \in Seq(Char) /\ Len(Rest(n, i + 1)) = L - (i + 1)
      /\ \A j \in 1 .. L - (i + 1) : Rest(n, i + 1)[j] = Telegram[n][i + 1 + j]
  <2>1. i + 1 \in Nat /\ i + 1 <= Len(Telegram[n])
    BY <1>1
  <2> QED BY <2>1, RestFacts
<1> HIDE DEF L
<1>4. Head(Rest(n, i)) = Telegram[n][i + 1]
  BY <1>1, <1>2 DEF L
<1>5. Tail(Rest(n, i)) = Rest(n, i + 1)
  <2>1. /\ Tail(Rest(n, i)) \in Seq(Char) /\ Len(Tail(Rest(n, i))) = L - (i + 1)
        /\ \A j \in 1 .. L - (i + 1) : Tail(Rest(n, i))[j] = Rest(n, i)[j + 1]
    <3>1. Rest(n, i) # <<>> /\ L - i > 0
      BY <1>1, <1>2 DEF L
    <3> QED BY <1>1, <1>2, <3>1
  <2>2. ASSUME NEW j \in 1 .. L - (i + 1)
        PROVE  Tail(Rest(n, i))[j] = Rest(n, i + 1)[j]
    <3>1. j + 1 \in 1 .. L - i /\ i + (j + 1) = i + 1 + j
      BY <1>1
    <3> QED BY <1>2, <1>3, <2>1, <3>1
  <2> QED BY <1>1, <1>3, <2>1, <2>2, SeqEqual
<1>6. <<Telegram[n][i + 1]>> \o Rest(n, i + 1) = Rest(n, i)
  <2> DEFINE c == <<Telegram[n][i + 1]>> \o Rest(n, i + 1)
  <2>1. c \in Seq(Char) /\ Len(c) = L - i
    BY <1>1, <1>3
  <2>2. c[1] = Telegram[n][i + 1] /\ \A j \in 1 .. L - (i + 1) : c[j + 1] = Rest(n, i + 1)[j]
    BY <1>1, <1>3
  <2>3. ASSUME NEW j \in 1 .. L - i PROVE c[j] = Rest(n, i)[j]
    <3>1. CASE j = 1
      BY <1>1, <1>2, <2>2, <3>1
    <3>2. CASE j # 1
      <4>1. j - 1 \in 1 .. L - (i + 1) /\ (j - 1) + 1 = j /\ i + 1 + (j - 1) = i + j
        BY <1>1, <3>2
      <4>2. c[j] = Rest(n, i + 1)[j - 1]
        BY <2>2, <4>1
      <4> QED BY <1>2, <1>3, <4>1, <4>2
    <3> QED BY <3>1, <3>2
  <2> HIDE DEF c
  <2>4. c = Rest(n, i)
    BY <1>2, <2>1, <2>3, SeqEqual
  <2> QED BY <2>4 DEF c
<1> QED BY <1>4, <1>5, <1>6

(* What the transmitter holds is what follows the first q characters. *)
LEMMA Holding ==
  ASSUME TypeOK, NEW n \in Node, NEW q \in Nat, At(n, q), UDR[n] # None => shift[n] # None
  PROVE  InTransmitter(n) = Rest(n, q)
<1>1. txBuf[n] = Rest(n, q + Busy(n)) /\ txBuf[n] \in Seq(Char) /\ q + Busy(n) <= Len(Telegram[n])
  BY DEF At, TypeOK
<1>2. Len(Telegram[n]) \in Nat
  BY TelegramType
<1>3. CASE shift[n] = None
  <2>1. UDR[n] = None /\ Busy(n) = 0
    BY <1>3 DEF Busy
  <2>2. InTransmitter(n) = <<>> \o <<>> \o txBuf[n]
    BY <1>3, <2>1 DEF InTransmitter
  <2> QED BY <1>1, <2>1, <2>2
<1>4. CASE shift[n] # None /\ UDR[n] = None
  <2>1. Busy(n) = 1
    BY <1>4 DEF Busy
  <2>2. shift[n] = Telegram[n][q + 1] /\ txBuf[n] = Rest(n, q + 1) /\ q < Len(Telegram[n])
    BY <1>1, <1>2, <1>4, <2>1 DEF At
  <2>3. InTransmitter(n) = (<<shift[n]>> \o <<>>) \o txBuf[n]
    BY <1>4 DEF InTransmitter
  <2>4. InTransmitter(n) = <<shift[n]>> \o txBuf[n]
    BY <2>3
  <2> QED BY <2>2, <2>4, RestNext
<1>5. CASE shift[n] # None /\ UDR[n] # None
  <2>1. Busy(n) = 2
    BY <1>5 DEF Busy
  <2>2. /\ shift[n] = Telegram[n][q + 1] /\ UDR[n] = Telegram[n][q + 2]
        /\ txBuf[n] = Rest(n, q + 2) /\ q + 1 < Len(Telegram[n])
    BY <1>1, <1>2, <1>5, <2>1 DEF At
  <2>3. InTransmitter(n) = (<<shift[n]>> \o <<UDR[n]>>) \o txBuf[n]
    BY <1>5 DEF InTransmitter
  <2>4. InTransmitter(n) = <<shift[n]>> \o (<<UDR[n]>> \o txBuf[n])
    <3>1. <<shift[n]>> \in Seq(Char \cup {None}) /\ <<UDR[n]>> \in Seq(Char \cup {None})
      BY DEF TypeOK
    <3>2. txBuf[n] \in Seq(Char \cup {None})
      BY <1>1
    <3> QED BY <2>3, <3>1, <3>2, ConcatAssociative
  <2>5. <<UDR[n]>> \o txBuf[n] = Rest(n, q + 1)
    <3>1. q + 1 \in Nat /\ q + 1 + 1 = q + 2
      OBVIOUS
    <3> QED BY <2>2, <3>1, RestNext
  <2>6. <<shift[n]>> \o Rest(n, q + 1) = Rest(n, q)
    <3>1. q < Len(Telegram[n])
      BY <1>2, <2>2
    <3> QED BY <2>2, <3>1, RestNext
  <2> QED BY <2>4, <2>5, <2>6
<1> QED BY <1>3, <1>4, <1>5

-----------------------------------------------------------------------------
(* Nothing of node m that the invariant speaks of changes. *)
Same(m) ==
  /\ state'[m] = state[m] /\ txStartup'[m] = txStartup[m] /\ buffered'[m] = buffered[m]
  /\ txRxComparePos'[m] = txRxComparePos[m] /\ txBuf'[m] = txBuf[m]
  /\ shift'[m] = shift[m] /\ UDR'[m] = UDR[m] /\ UDRIE'[m] = UDRIE[m]
  /\ TXCIE'[m] = TXCIE[m] /\ TXC'[m] = TXC[m] /\ RXC'[m] = RXC[m]
  /\ OCIE'[m] = OCIE[m] /\ ticks'[m] = ticks[m] /\ power'[m] = power[m] /\ pc'[m] = pc[m]

LEMMA SameKept ==
  ASSUME SyncInv, NEW m \in Node, Same(m), lost' = lost
  PROVE  HardwareInv(m)' /\ StepInv(m)'
<1>1. HardwareInv(m)'
  BY DEF SyncInv, Same, HardwareInv
<1>2. EmptyInv(m) => EmptyInv(m)'
  BY DEF Same, EmptyInv, Quiet
<1>3. Sync(m) => Sync(m)'
  BY DEF Same, Sync, At, Busy, Here, Rest
<1>4. /\ Quiet(m) => Quiet(m)'
      /\ Loaded(m) => Loaded(m)'
      /\ Ending(m) => Ending(m)'
      /\ CutOff(m) => CutOff(m)'
  BY <1>3 DEF Same, Quiet, Loaded, Ending, CutOff, Here
<1>5. FilledInv(m) => FilledInv(m)'
  BY <1>3, <1>4 DEF Same, FilledInv
<1> QED BY <1>1, <1>2, <1>5 DEF Same, SyncInv, StepInv

(* A step of one node that changes its own variables only. *)
LEMMA OneNode ==
  ASSUME SyncInv, NEW n \in Node, \A m \in Node \ {n} : Same(m), lost' = lost,
         HardwareInv(n)', StepInv(n)'
  PROVE  SyncInv'
BY SameKept DEF SyncInv

(* A step of one node that leaves its send buffer alone. *)
LEMMA OneNodeBuffer ==
  ASSUME SyncInv, NEW n \in Node, \A m \in Node \ {n} : Same(m), lost' = lost,
         buffered'[n] = buffered[n], HardwareInv(n)',
         buffered[n] = <<>> /\ EmptyInv(n) => EmptyInv(n)',
         Len(Telegram[n]) <= BufSize /\ buffered[n] = Telegram[n] /\ FilledInv(n) => FilledInv(n)'
  PROVE  SyncInv'
<1>1. StepInv(n)'
  BY DEF SyncInv, StepInv
<1> QED BY <1>1, OneNode

(* A running timer that is not due is set anew. *)
LEMMA TimerSet ==
  ASSUME TypeOK, NEW n \in Node, NEW d \in Nat, TimerStart(n, d), ~TimerIrq(n)
  PROVE  OCIE'[n] /\ ticks'[n] = d
BY DEF TypeOK, TimerStart

LEMMA InitSync == Init => SyncInv
<1> SUFFICES ASSUME Init PROVE SyncInv
  OBVIOUS
<1>1. ASSUME NEW n \in Node PROVE HardwareInv(n)
  BY DEF Init, HardwareInv
<1>2. ASSUME NEW n \in Node PROVE buffered[n] = <<>> /\ EmptyInv(n)
  BY DEF Init, EmptyInv, Quiet
<1> QED BY <1>1, <1>2 DEF Init, SyncInv, StepInv, wire

-----------------------------------------------------------------------------
LEMMA WriteCheckSync ==
  ASSUME IInv, SyncInv, NEW n \in Node, WriteCheck(n)
  PROVE  SyncInv'
<1>1. /\ UNCHANGED <<state, txStartup, buffered, txRxComparePos, txBuf, shift, UDR, UDRIE,
                     TXCIE, TXC, RXC, OCIE, ticks, power, lost>>
      /\ state[n] \in {"eIdle", "eRxing"} /\ pc'[n] = "copy"
      /\ \A m \in Node \ {n} : pc'[m] = pc[m]
  BY DEF WriteCheck, tmr, wire, IInv, TypeOK
<1>2. \A m \in Node \ {n} : Same(m)
  BY <1>1 DEF Same
<1>3. HardwareInv(n)'
  BY <1>1 DEF SyncInv, HardwareInv
<1>4. EmptyInv(n) => EmptyInv(n)'
  BY <1>1 DEF EmptyInv, Quiet
<1>5. Sync(n) => Sync(n)'
  BY <1>1 DEF Sync, At, Busy, Here, Rest
<1>6. FilledInv(n) => FilledInv(n)'
  BY <1>1, <1>5 DEF FilledInv, Quiet, Loaded, Ending, CutOff, Here
<1> QED BY <1>1, <1>2, <1>3, <1>4, <1>6, OneNodeBuffer

LEMMA WriteCopySync ==
  ASSUME IInv, SyncInv, NEW n \in Node, WriteCopy(n)
  PROVE  SyncInv'
<1>1. PICK k \in Copied(n) :
        /\ buffered' = [buffered EXCEPT ![n] = @ \o SubSeq(Telegram[n], 1, k)]
        /\ pc' = [pc EXCEPT ![n] = IF k = Len(Telegram[n]) THEN "send" ELSE "ready"]
  BY DEF WriteCopy
<1>2. /\ UNCHANGED <<state, txStartup, txRxComparePos, txBuf, shift, UDR, UDRIE,
                     TXCIE, TXC, RXC, OCIE, ticks, power, lost>>
      /\ pc[n] = "copy" /\ \A m \in Node \ {n} : pc'[m] = pc[m] /\ buffered'[m] = buffered[m]
      /\ buffered'[n] = buffered[n] \o SubSeq(Telegram[n], 1, k)
      /\ pc'[n] = IF k = Len(Telegram[n]) THEN "send" ELSE "ready"
  <2>1. pc[n] = "copy" /\ UNCHANGED <<state, txStartup, txRxComparePos, txBuf, shift, UDR, UDRIE,
                                     TXCIE, TXC, RXC, OCIE, ticks, power, lost>>
    BY DEF WriteCopy, tmr, wire
  <2>2. /\ buffered'[n] = buffered[n] \o SubSeq(Telegram[n], 1, k)
        /\ \A m \in Node \ {n} : buffered'[m] = buffered[m]
    BY <1>1 DEF IInv, TypeOK
  <2>3. /\ pc'[n] = IF k = Len(Telegram[n]) THEN "send" ELSE "ready"
        /\ \A m \in Node \ {n} : pc'[m] = pc[m]
    BY <1>1 DEF IInv, TypeOK
  <2> QED BY <2>1, <2>2, <2>3
<1>3. \A m \in Node \ {n} : Same(m)
  BY <1>2 DEF Same
<1>4. HardwareInv(n)'
  BY <1>2 DEF SyncInv, HardwareInv
<1> DEFINE T == Telegram[n]
<1>5. T \in Seq(Char) /\ Len(T) \in Nat /\ Len(T) > 0 /\ buffered[n] \in Seq(Char)
  BY TelegramType DEF IInv, TypeOK
<1>6. /\ k \in Nat /\ k <= Len(T)
      /\ Len(T) <= BufSize /\ buffered[n] = <<>> /\ state[n] \in {"eIdle", "eRxing"} /\ ~UDRIE[n]
            => k = Len(T)
  <2> DEFINE room == BufSize - Len(buffered[n])
             most == IF Len(T) <= room THEN Len(T) ELSE room
  <2>1. /\ k \in 0 .. most
        /\ state[n] \in {"eIdle", "eRxing"} /\ ~UDRIE[n] => k = most
    BY <1>1 DEF Copied
  <2>2. room \in Nat /\ (buffered[n] = <<>> => room = BufSize)
    <3>1. BufSize \in Nat /\ Len(buffered[n]) \in Nat /\ Len(buffered[n]) <= BufSize
      BY <1>5, Bounds DEF IInv, TypeOK
    <3>2. buffered[n] = <<>> => Len(buffered[n]) = 0
      OBVIOUS
    <3> QED BY <3>1, <3>2
  <2> HIDE DEF room
  <2> QED BY <1>5, <2>1, <2>2
<1>7. /\ SubSeq(T, 1, k) \in Seq(Char) /\ Len(SubSeq(T, 1, k)) = k
      /\ k = Len(T) => SubSeq(T, 1, k) = T
  <2>1. SubSeq(T, 1, k) \in Seq(Char) /\ Len(SubSeq(T, 1, k)) = k
    BY <1>5, <1>6
  <2>2. ASSUME k = Len(T) PROVE SubSeq(T, 1, k) = T
    BY <2>2, RestAll DEF Rest
  <2> QED BY <2>1, <2>2
<1>8. ASSUME lost' = 0, Len(T) <= BufSize PROVE StepInv(n)'
  <2> HIDE DEF T
  <2>1. CASE buffered[n] = <<>> /\ EmptyInv(n)
    <3>1. state[n] \in {"eIdle", "eRxing"} /\ Quiet(n)
      BY <1>2, <2>1 DEF EmptyInv
    <3>2. k = Len(T)
      BY <1>6, <1>8, <2>1, <3>1 DEF Quiet
    <3>3. buffered'[n] = T
      <4>1. buffered'[n] = <<>> \o T
        BY <1>2, <1>7, <2>1, <3>2 DEF T
      <4> QED BY <1>5, <4>1
    <3>4. FilledInv(n)'
      BY <1>2, <3>1 DEF FilledInv, Quiet
    <3> QED BY <3>3, <3>4 DEF StepInv, T
  <2>2. CASE buffered[n] = T /\ FilledInv(n) /\ k = 0
    <3>1. buffered'[n] = T
      <4>1. SubSeq(T, 1, k) = <<>>
        BY <1>7, <2>2
      <4> QED BY <1>2, <1>5, <2>2, <4>1
    <3>2. pc'[n] = "ready"
      BY <1>2, <1>5, <2>2 DEF T
    <3>3. Sync(n) => Sync(n)'
      BY <1>2 DEF Sync, At, Busy, Here, Rest
    <3>4. FilledInv(n)'
      BY <1>2, <2>2, <3>2, <3>3 DEF FilledInv, Quiet, Loaded, Ending, CutOff, Here
    <3> QED BY <3>1, <3>4 DEF StepInv, T
  <2>3. CASE Len(buffered[n]) + k > Len(T)
    <3>1. Len(buffered'[n]) > Len(T)
      BY <1>2, <1>5, <1>7, <2>3 DEF T
    <3> QED BY <3>1 DEF StepInv, T
  <2>4. \/ buffered[n] = <<>> /\ EmptyInv(n)
        \/ buffered[n] = T /\ FilledInv(n)
        \/ Len(buffered[n]) > Len(T)
    BY <1>2, <1>8 DEF SyncInv, StepInv, T
  <2> QED BY <1>5, <1>6, <2>1, <2>2, <2>3, <2>4
<1>9. StepInv(n)'
  BY <1>8 DEF StepInv
<1> QED BY <1>2, <1>3, <1>4, <1>9, OneNode

(* The ring of a quiet transmitter is loaded with the whole telegram, or with *)
(* nothing if the send buffer is empty.                                       *)
LEMMA SendSync ==
  ASSUME IInv, NEW n \in Node, SendFromIdle(n), txBuf[n] = <<>>
  PROVE  /\ txRxComparePos'[n] = 0
         /\ buffered[n] = <<>> =>
              /\ txBuf'[n] = <<>> /\ txStartup'[n] = txStartup[n] /\ UDRIE'[n] = UDRIE[n]
              /\ TXCIE'[n] = TXCIE[n] /\ power'[n] = power[n]
         /\ buffered[n] = Telegram[n] /\ Len(Telegram[n]) <= BufSize =>
              txBuf'[n] = Telegram[n] /\ UDRIE'[n] /\ power'[n]
<1> DEFINE free == BufSize - Len(txBuf[n])
           len == IF Len(buffered[n]) > free THEN free ELSE Len(buffered[n])
           starts == txBuf[n] = <<>> /\ len > 0
<1>1. /\ txRxComparePos' = [txRxComparePos EXCEPT ![n] = 0]
      /\ txBuf' = [txBuf EXCEPT ![n] = @ \o SubSeq(buffered[n], 1, len)]
      /\ txStartup' = [txStartup EXCEPT ![n] = @ \/ starts]
      /\ UDRIE' = [UDRIE EXCEPT ![n] = @ \/ starts]
      /\ TXCIE' = [TXCIE EXCEPT ![n] = @ /\ ~starts]
      /\ power' = [power EXCEPT ![n] = @ \/ starts]
  BY DEF SendFromIdle
<1>2. txBuf'[n] = <<>> \o SubSeq(buffered[n], 1, len) /\ buffered[n] \in Seq(Char)
  BY <1>1 DEF IInv, TypeOK
<1>3. free = BufSize /\ BufSize \in Nat
  <2>1. Len(txBuf[n]) = 0
    OBVIOUS
  <2> QED BY <2>1, Bounds
<1>4. ASSUME buffered[n] = <<>>
      PROVE  /\ txBuf'[n] = <<>> /\ txStartup'[n] = txStartup[n] /\ UDRIE'[n] = UDRIE[n]
             /\ TXCIE'[n] = TXCIE[n] /\ power'[n] = power[n]
  <2>1. Len(buffered[n]) = 0
    BY <1>4
  <2>2. len = 0 /\ ~starts
    BY <1>3, <2>1
  <2>3. SubSeq(buffered[n], 1, len) = <<>>
    BY <1>2, <2>2
  <2> QED BY <1>1, <1>2, <2>2, <2>3 DEF IInv, TypeOK
<1>5. ASSUME buffered[n] = Telegram[n], Len(Telegram[n]) <= BufSize
      PROVE  txBuf'[n] = Telegram[n] /\ UDRIE'[n] /\ power'[n]
  <2>1. len = Len(Telegram[n]) /\ Len(Telegram[n]) > 0
    BY <1>3, <1>5, TelegramType
  <2>2. SubSeq(buffered[n], 1, len) = Telegram[n]
    BY <1>5, <2>1, RestAll DEF Rest
  <2> HIDE DEF len
  <2>3. txBuf'[n] = Telegram[n]
    BY <1>2, <2>2, TelegramType
  <2>4. starts
    BY <2>1
  <2> QED BY <1>1, <2>3, <2>4 DEF IInv, TypeOK
<1> QED BY <1>1, <1>4, <1>5 DEF IInv, TypeOK

(* What SendFromIdle keeps of the hardware's invariant. *)
LEMMA SendHardware ==
  ASSUME IInv, NEW n \in Node, SendFromIdle(n), HardwareInv(n), state[n] \in {"eIdle", "eTxPending"}
  PROVE  /\ txBuf'[n] # <<>> => UDRIE'[n]
         /\ UDRIE'[n] => power'[n]
<1> DEFINE free == BufSize - Len(txBuf[n])
           len == IF Len(buffered[n]) > free THEN free ELSE Len(buffered[n])
           starts == txBuf[n] = <<>> /\ len > 0
<1>1. /\ txBuf'[n] = txBuf[n] \o SubSeq(buffered[n], 1, len)
      /\ UDRIE'[n] = (UDRIE[n] \/ starts)
      /\ power'[n] = (power[n] \/ starts)
  BY DEF SendFromIdle, IInv, TypeOK
<1>2. len \in Nat /\ len <= Len(buffered[n]) /\ buffered[n] \in Seq(Char)
  <2>1. free \in Nat /\ Len(buffered[n]) \in Nat /\ buffered[n] \in Seq(Char)
    BY Bounds DEF IInv, TypeOK
  <2> HIDE DEF free
  <2> QED BY <2>1
<1>3. ASSUME txBuf[n] = <<>>, ~(len > 0) PROVE txBuf'[n] = <<>>
  <2> HIDE DEF len
  <2>1. len = 0
    BY <1>2, <1>3
  <2>2. SubSeq(buffered[n], 1, len) = <<>>
    BY <1>2, <2>1
  <2> QED BY <1>1, <1>3, <2>2
<1> HIDE DEF len
<1> QED BY <1>1, <1>3 DEF HardwareInv, IInv, TypeOK

LEMMA SendOthers ==
  ASSUME IInv, NEW n \in Node, SendFromIdle(n), NEW m \in Node \ {n}
  PROVE  /\ txRxComparePos'[m] = txRxComparePos[m] /\ txBuf'[m] = txBuf[m]
         /\ txStartup'[m] = txStartup[m] /\ UDRIE'[m] = UDRIE[m] /\ TXCIE'[m] = TXCIE[m]
         /\ power'[m] = power[m]
BY DEF SendFromIdle, IInv, TypeOK

LEMMA SioSendBufferSync ==
  ASSUME IInv, SyncInv, NEW n \in Node, SioSendBuffer(n)
  PROVE  SyncInv'
<1>1. /\ UNCHANGED <<buffered, shift, UDR, TXC, RXC, OCIE, ticks, lost>>
      /\ pc[n] = "send" /\ pc'[n] = "ready" /\ \A m \in Node \ {n} : pc'[m] = pc[m]
  BY DEF SioSendBuffer, tmr, wire, IInv, TypeOK
<1>2. CASE state[n] = "eIdle"
  <2>1. SendFromIdle(n) /\ UNCHANGED state
    BY <1>2 DEF SioSendBuffer
  <2>2. \A m \in Node \ {n} : Same(m)
    BY <1>1, <2>1, SendOthers DEF Same
  <2>3. HardwareInv(n)'
    BY <1>1, <1>2, <2>1, SendHardware DEF SyncInv, HardwareInv
  <2>4. ASSUME buffered[n] = <<>>, EmptyInv(n) PROVE EmptyInv(n)'
    <3>1. Quiet(n) /\ txBuf[n] = <<>>
      BY <1>2, <2>4 DEF EmptyInv, Quiet
    <3> QED BY <1>1, <1>2, <2>1, <2>4, <3>1, SendSync DEF EmptyInv, Quiet
  <2>5. ASSUME Len(Telegram[n]) <= BufSize, buffered[n] = Telegram[n], FilledInv(n) PROVE FilledInv(n)'
    <3>1. Quiet(n) /\ txBuf[n] = <<>>
      BY <1>1, <2>5 DEF FilledInv, Quiet
    <3>2. Loaded(n)'
      BY <1>1, <2>1, <2>5, <3>1, SendSync DEF Loaded, Quiet
    <3> QED BY <1>1, <1>2, <2>1, <3>2 DEF FilledInv
  <2> QED BY <1>1, <2>2, <2>3, <2>4, <2>5, OneNodeBuffer
<1>3. CASE state[n] # "eIdle"
  <2>1. UNCHANGED <<txStartup, txRxComparePos, txBuf, UDRIE, TXCIE, power>>
    BY <1>3 DEF SioSendBuffer
  <2>2. /\ \A m \in Node \ {n} : state'[m] = state[m]
        /\ \/ state[n] = "eRxing" /\ state'[n] = "eTxPending"
           \/ state[n] # "eRxing" /\ state'[n] = state[n]
    <3>1. CASE state[n] = "eRxing"
      BY <3>1 DEF SioSendBuffer, IInv, TypeOK
    <3>2. CASE state[n] # "eRxing"
      BY <1>3, <3>2 DEF SioSendBuffer, IInv, TypeOK
    <3> QED BY <3>1, <3>2
  <2>3. \A m \in Node \ {n} : Same(m)
    BY <1>1, <2>1, <2>2 DEF Same
  <2>4. HardwareInv(n)'
    BY <1>1, <2>1, <2>2 DEF SyncInv, HardwareInv
  <2>5. EmptyInv(n) => EmptyInv(n)'
    BY <1>1, <2>1, <2>2 DEF EmptyInv, Quiet
  <2>6. FilledInv(n) => FilledInv(n)'
    BY <1>1, <1>3, <2>1, <2>2 DEF FilledInv, Quiet
  <2> QED BY <1>1, <2>3, <2>4, <2>5, <2>6, OneNodeBuffer
<1> QED BY <1>2, <1>3

LEMMA EISync ==
  ASSUME IInv, SyncInv, InterChar > 1, NEW n \in Node, EI(n)
  PROVE  SyncInv'
<1>1. /\ UNCHANGED <<txStartup, buffered, txRxComparePos, txBuf, shift, UDR, UDRIE,
                     TXCIE, TXC, RXC, power, pc, lost>>
      /\ \A m \in Node \ {n} : state'[m] = state[m]
      /\ state[n] = "eIdle" => state'[n] = "eRxing" /\ TimerStart(n, InterChar)
      /\ state[n] # "eIdle" => state'[n] = state[n] /\ UNCHANGED tmr
  BY DEF EI, wire, app, IInv, TypeOK
<1>2. /\ \A m \in Node \ {n} : OCIE'[m] = OCIE[m] /\ ticks'[m] = ticks[m]
      /\ state[n] = "eIdle" => OCIE'[n] /\ (~OCIE[n] => ticks'[n] = InterChar)
      /\ state[n] # "eIdle" => OCIE'[n] = OCIE[n] /\ ticks'[n] = ticks[n]
  BY <1>1, TimerStarts, TimerSet, Bounds DEF IInv, tmr, TimerIrq
<1>3. \A m \in Node \ {n} : Same(m)
  BY <1>1, <1>2 DEF Same
<1>4. HardwareInv(n)'
  BY <1>1, <1>2 DEF SyncInv, HardwareInv
<1>5. EmptyInv(n) => EmptyInv(n)'
  BY <1>1, <1>2 DEF EmptyInv, Quiet
<1>6. Sync(n) => Sync(n)'
  BY <1>1 DEF Sync, At, Busy, Here, Rest
<1>7. CutOff(n) => CutOff(n)'
  BY <1>1, <1>2, <1>6, Bounds DEF CutOff, Here
<1>8. /\ Quiet(n) => Quiet(n)'
      /\ Loaded(n) => Loaded(n)'
      /\ Ending(n) => Ending(n)'
  BY <1>1 DEF Quiet, Loaded, Ending
<1>9. FilledInv(n) => FilledInv(n)'
  BY <1>1, <1>2, <1>6, <1>7, <1>8 DEF FilledInv
<1> QED BY <1>1, <1>3, <1>4, <1>5, <1>9, OneNodeBuffer

-----------------------------------------------------------------------------
(* What every time-out leaves alone. *)
LEMMA TimeoutFrame ==
  ASSUME IInv, NEW n \in Node, Timeout(n)
  PROVE  /\ UNCHANGED <<shift, UDR, TXC, RXC, pc, lost>>
         /\ OCIE[n] /\ ticks[n] = 0 /\ TimerIrq(n)
BY DEF Timeout, TimerIrq, app, wire, IInv, TypeOK

LEMMA TimerStopFrame ==
  ASSUME IInv, NEW n \in Node, TimerStop(n)
  PROVE  ~OCIE'[n] /\ \A m \in Node \ {n} : OCIE'[m] = OCIE[m] /\ ticks'[m] = ticks[m]
BY TimerStops DEF IInv

LEMMA RxTimeoutSync ==
  ASSUME IInv, SyncInv, NEW n \in Node, Timeout(n), RxTimeout(n)
  PROVE  SyncInv'
<1>1. /\ UNCHANGED <<txStartup, buffered, txRxComparePos, txBuf, shift, UDR, UDRIE,
                     TXCIE, TXC, RXC, power, pc, lost>>
      /\ OCIE[n] /\ ticks[n] = 0
  BY TimeoutFrame DEF RxTimeout
<1>2. /\ state[n] = "eRxing" /\ state'[n] = "eIdle"
      /\ \A m \in Node \ {n} : state'[m] = state[m] /\ OCIE'[m] = OCIE[m] /\ ticks'[m] = ticks[m]
  BY TimerStopFrame DEF RxTimeout, IInv, TypeOK
<1>3. \A m \in Node \ {n} : Same(m)
  BY <1>1, <1>2 DEF Same
<1>4. HardwareInv(n)'
  BY <1>1, <1>2 DEF SyncInv, HardwareInv
<1>5. EmptyInv(n) => EmptyInv(n)'
  BY <1>1, <1>2 DEF EmptyInv, Quiet
<1>6. ~CutOff(n)
  BY <1>1, <1>2 DEF CutOff, Here
<1>7. FilledInv(n) => FilledInv(n)'
  <2>1. /\ Quiet(n) => Quiet(n)'
        /\ Loaded(n) => Loaded(n)'
        /\ Ending(n) => Ending(n)'
    BY <1>1 DEF Quiet, Loaded, Ending
  <2> QED BY <1>1, <1>2, <1>6, <2>1 DEF FilledInv
<1> QED BY <1>1, <1>3, <1>4, <1>5, <1>7, OneNodeBuffer

LEMMA StoppedTimeoutSync ==
  ASSUME IInv, SyncInv, NEW n \in Node, Timeout(n), StoppedTimeout(n)
  PROVE  SyncInv'
<1>1. /\ UNCHANGED <<txStartup, txRxComparePos, txBuf, shift, UDR, UDRIE, TXCIE, TXC, RXC,
                     power, pc, lost>>
      /\ OCIE[n] /\ ticks[n] = 0 /\ state[n] = "eTxStopped"
  BY TimeoutFrame DEF StoppedTimeout
<1>2. /\ shift[n] = None /\ UDR[n] = None /\ txBuf[n] = <<>> /\ ~UDRIE[n] /\ ~TXCIE[n]
      /\ pc[n] # "copy"
  <2>1. HardwareInv(n) /\ NodeInv(n)
    BY DEF SyncInv, IInv
  <2>2. ~(ticks[n] >= 2) /\ ~(ticks[n] >= 1)
    BY <1>1
  <2> QED BY <1>1, <2>1, <2>2 DEF HardwareInv, NodeInv, EnablesInv, TimerInv
<1>3. CASE txRetryCnt[n] < MaxTxRetry
  <2>1. /\ state'[n] = "eTxPending" /\ buffered' = buffered /\ OCIE' = OCIE
        /\ \A m \in Node \ {n} : state'[m] = state[m] /\ ticks'[m] = ticks[m]
    BY <1>3 DEF StoppedTimeout, IInv, TypeOK
  <2>2. \A m \in Node \ {n} : Same(m)
    BY <1>1, <2>1 DEF Same
  <2>3. HardwareInv(n)'
    BY <1>1, <1>2, <2>1 DEF SyncInv, HardwareInv
  <2>4. EmptyInv(n)'
    BY <1>1, <1>2, <2>1 DEF EmptyInv, Quiet
  <2>5. FilledInv(n) => FilledInv(n)'
    BY <1>1, <1>2, <2>1 DEF FilledInv
  <2> QED BY <1>1, <2>1, <2>2, <2>3, <2>4, <2>5, OneNodeBuffer
<1>4. CASE ~(txRetryCnt[n] < MaxTxRetry)
  <2>1. /\ buffered'[n] = <<>> /\ state' = state /\ ~OCIE'[n]
        /\ \A m \in Node \ {n} : /\ buffered'[m] = buffered[m] /\ OCIE'[m] = OCIE[m]
                                  /\ ticks'[m] = ticks[m]
    BY <1>4, TimerStopFrame DEF StoppedTimeout, IInv, TypeOK
  <2>2. \A m \in Node \ {n} : Same(m)
    BY <1>1, <2>1 DEF Same
  <2>3. HardwareInv(n)'
    BY <1>1, <1>2, <2>1 DEF SyncInv, HardwareInv
  <2>4. EmptyInv(n)'
    BY <1>1, <1>2, <2>1 DEF EmptyInv
  <2>5. StepInv(n)'
    BY <2>1, <2>4 DEF StepInv
  <2> QED BY <1>1, <2>2, <2>3, <2>5, OneNode
<1> QED BY <1>3, <1>4

LEMMA PendingTimeoutSync ==
  ASSUME IInv, SyncInv, NEW n \in Node, Timeout(n), PendingTimeout(n)
  PROVE  SyncInv'
<1>1. /\ UNCHANGED <<buffered, shift, UDR, TXC, RXC, pc, lost>>
      /\ OCIE[n] /\ ticks[n] = 0
  BY TimeoutFrame DEF PendingTimeout
<1>2. /\ state[n] = "eTxPending" /\ state'[n] = "eIdle" /\ SendFromIdle(n)
      /\ \A m \in Node \ {n} : state'[m] = state[m] /\ OCIE'[m] = OCIE[m] /\ ticks'[m] = ticks[m]
  BY TimerStopFrame DEF PendingTimeout, IInv, TypeOK
<1>3. \A m \in Node \ {n} : Same(m)
  BY <1>1, <1>2, SendOthers DEF Same
<1>4. HardwareInv(n)'
  BY <1>1, <1>2, SendHardware DEF SyncInv, HardwareInv
<1>5. ASSUME buffered[n] = <<>>, EmptyInv(n) PROVE EmptyInv(n)'
  <2>1. Quiet(n) /\ txBuf[n] = <<>>
    BY <1>2, <1>5 DEF EmptyInv, Quiet
  <2> QED BY <1>1, <1>2, <1>5, <2>1, SendSync DEF EmptyInv, Quiet
<1>6. ASSUME Len(Telegram[n]) <= BufSize, buffered[n] = Telegram[n], FilledInv(n) PROVE FilledInv(n)'
  <2>1. shift[n] = None /\ UDR[n] = None /\ txBuf[n] = <<>> /\ pc[n] # "send"
    <3>1. ~(ticks[n] >= 2)
      BY <1>1
    <3> QED BY <1>2, <1>6, <3>1 DEF FilledInv
  <2>2. Loaded(n)'
    BY <1>1, <1>2, <1>6, <2>1, SendSync DEF Loaded
  <2> QED BY <1>1, <1>2, <2>1, <2>2 DEF FilledInv
<1> QED BY <1>1, <1>3, <1>4, <1>5, <1>6, OneNodeBuffer

LEMMA OtherTimeoutSync ==
  ASSUME IInv, SyncInv, NEW n \in Node, Timeout(n), OtherTimeout(n)
  PROVE  SyncInv'
<1>1. /\ UNCHANGED <<txStartup, buffered, txRxComparePos, txBuf, shift, UDR, UDRIE, TXCIE,
                     TXC, RXC, power, pc, lost>>
      /\ OCIE[n] /\ ticks[n] = 0
  BY TimeoutFrame DEF OtherTimeout
<1>2. /\ state[n] \in {"eIdle", "eTxing"} /\ state'[n] = "eIdle" /\ ~OCIE'[n]
      /\ \A m \in Node \ {n} : state'[m] = state[m] /\ OCIE'[m] = OCIE[m] /\ ticks'[m] = ticks[m]
  <2>1. state[n] # "eTxJamming"
    BY <1>1 DEF IInv, NodeInv, TimerInv
  <2> QED BY <2>1, TimerStopFrame DEF OtherTimeout, IInv, TypeOK
<1>3. HardwareInv(n) /\ EnablesInv(n)
  BY DEF SyncInv, IInv, NodeInv
<1>4. \A m \in Node \ {n} : Same(m)
  BY <1>1, <1>2 DEF Same
<1>5. HardwareInv(n)'
  BY <1>1, <1>2, <1>3 DEF HardwareInv
<1>6. ASSUME EmptyInv(n) PROVE EmptyInv(n)'
  <2>1. state[n] = "eIdle"
    BY <1>1, <1>2, <1>6 DEF EmptyInv
  <2> QED BY <1>1, <1>2, <1>6, <2>1 DEF EmptyInv, Quiet
<1>7. ASSUME FilledInv(n) PROVE FilledInv(n)'
  <2>1. CASE state[n] = "eIdle"
    <3>1. ~CutOff(n)
      BY <1>1, <2>1 DEF CutOff
    <3>2. /\ Quiet(n) => Quiet(n)'
          /\ Loaded(n) => Loaded(n)'
          /\ Ending(n) => Ending(n)'
      BY <1>1 DEF Quiet, Loaded, Ending
    <3> QED BY <1>1, <1>2, <1>7, <2>1, <3>1, <3>2 DEF FilledInv
  <2>2. CASE state[n] = "eTxing" /\ UDRIE[n]
    <3>1. Sync(n)'
      BY <1>1, <1>7, <2>2 DEF FilledInv, Sync, At, Busy, Here, Rest
    <3>2. CutOff(n)'
      BY <1>1, <1>2, <1>3, <2>2, <3>1 DEF CutOff, HardwareInv
    <3>3. pc[n] # "send"
      BY <1>7, <2>2 DEF FilledInv
    <3> QED BY <1>1, <1>2, <3>2, <3>3 DEF FilledInv
  <2>3. CASE state[n] = "eTxing" /\ ~UDRIE[n]
    <3>1. Ending(n)'
      BY <1>1, <1>3, <2>3 DEF Ending, HardwareInv, EnablesInv
    <3>2. pc[n] # "send"
      BY <1>7, <2>3 DEF FilledInv
    <3> QED BY <1>1, <1>2, <3>1, <3>2 DEF FilledInv
  <2> QED BY <1>2, <2>1, <2>2, <2>3
<1> QED BY <1>1, <1>4, <1>5, <1>6, <1>7, OneNodeBuffer

-----------------------------------------------------------------------------
LEMMA RxEchoSync ==
  ASSUME IInv, SyncInv, InterChar > 1, NEW n \in Node, RXComplete(n), RxEcho(n)
  PROVE  SyncInv'
<1>1. /\ UNCHANGED <<state, txStartup, txBuf, shift, UDR, UDRIE, TXCIE, TXC, power, pc, lost>>
      /\ state[n] = "eTxing" /\ RXC[n] # None /\ RXC'[n] = None
      /\ txRxComparePos'[n] = txRxComparePos[n] + 1
      /\ \A m \in Node \ {n} : RXC'[m] = RXC[m] /\ txRxComparePos'[m] = txRxComparePos[m]
  BY DEF RXComplete, RxcIrq, RxEcho, app, wire, IInv, TypeOK
<1>2. HardwareInv(n) /\ UDR[n] = None /\ pc[n] # "copy"
  BY <1>1 DEF SyncInv, HardwareInv
<1>3. CASE txRxComparePos[n] + 1 = Len(buffered[n])
  <2>1. /\ buffered'[n] = <<>> /\ ~OCIE'[n]
        /\ \A m \in Node \ {n} : /\ buffered'[m] = buffered[m] /\ OCIE'[m] = OCIE[m]
                                  /\ ticks'[m] = ticks[m]
    BY <1>3, TimerStopFrame DEF RxEcho, IInv, TypeOK
  <2>2. \A m \in Node \ {n} : Same(m)
    BY <1>1, <2>1 DEF Same
  <2>3. HardwareInv(n)'
    BY <1>1, <1>2, <2>1 DEF HardwareInv
  <2>4. EmptyInv(n)'
    BY <1>1, <1>2, <2>1 DEF EmptyInv
  <2>5. StepInv(n)'
    BY <2>1, <2>4 DEF StepInv
  <2> QED BY <1>1, <2>2, <2>3, <2>5, OneNode
<1>4. CASE txRxComparePos[n] + 1 # Len(buffered[n])
  <2>1. TimerStart(n, InterChar) /\ buffered' = buffered
    BY <1>4 DEF RxEcho
  <2>2. /\ OCIE'[n] /\ (~TimerIrq(n) => ticks'[n] = InterChar)
        /\ \A m \in Node \ {n} : OCIE'[m] = OCIE[m] /\ ticks'[m] = ticks[m]
    BY <2>1, TimerStarts, TimerSet, Bounds DEF IInv
  <2>3. \A m \in Node \ {n} : Same(m)
    BY <1>1, <2>1, <2>2 DEF Same
  <2>4. HardwareInv(n)'
    BY <1>1, <1>2, <2>1, <2>2 DEF HardwareInv
  <2>5. ASSUME EmptyInv(n) PROVE EmptyInv(n)'
    <3>1. ~TimerIrq(n)
      BY <1>1, <2>5 DEF EmptyInv, TimerIrq
    <3>2. OCIE'[n] /\ ticks'[n] >= 2
      BY <2>2, <3>1, Bounds
    <3> QED BY <1>1, <1>2, <3>2 DEF EmptyInv
  <2>6. ASSUME FilledInv(n) PROVE FilledInv(n)'
    <3>1. txRxComparePos'[n] + Here(n)' = txRxComparePos[n] + Here(n) /\ Busy(n)' = Busy(n)
      BY <1>1 DEF Here, Busy, IInv, TypeOK
    <3>2. Sync(n)
      BY <1>1, <2>6 DEF FilledInv
    <3>3. Sync(n)'
      BY <1>1, <3>1, <3>2 DEF Sync, At, Rest
    <3> QED BY <1>1, <2>6, <3>3 DEF FilledInv
  <2> QED BY <1>1, <2>1, <2>3, <2>4, <2>5, <2>6, OneNodeBuffer
<1> QED BY <1>3, <1>4

LEMMA RxCollisionSync ==
  ASSUME IInv, SyncInv, NEW n \in Node, RXComplete(n), RxCollision(n)
  PROVE  SyncInv'
<1>1. /\ UNCHANGED <<txStartup, buffered, txRxComparePos, UDRIE, TXCIE, power, pc, lost>>
      /\ state[n] = "eTxing" /\ state'[n] = "eTxJamming" /\ RXC[n] # None /\ RXC'[n] = None
      /\ txBuf'[n] = <<>>
      /\ \A m \in Node \ {n} : state'[m] = state[m] /\ RXC'[m] = RXC[m] /\ txBuf'[m] = txBuf[m]
  BY DEF RXComplete, RxcIrq, RxCollision, app, wire, IInv, TypeOK
<1>2. \A m \in Node \ {n} : OCIE'[m] = OCIE[m] /\ ticks'[m] = ticks[m]
  BY TimerStopFrame DEF RxCollision
<1>3. /\ \A m \in Node \ {n} : shift'[m] = shift[m] /\ UDR'[m] = UDR[m] /\ TXC'[m] = TXC[m]
      /\ UDR'[n] # None => shift'[n] # None
  <2>1. HardwareInv(n)
    BY DEF SyncInv
  <2>2. TXC' = TXC \/ TXC' = [TXC EXCEPT ![n] = FALSE]
    BY DEF RxCollision
  <2>3. CASE WriteUDR(n, Jam)
    <3>1. Jam # None
      BY SioAssumption DEF Char
    <3>2. CASE shift[n] = None
      BY <2>1, <2>2, <2>3, <3>1, <3>2 DEF WriteUDR, HardwareInv, IInv, TypeOK
    <3>3. CASE shift[n] # None
      BY <2>2, <2>3, <3>3 DEF WriteUDR, IInv, TypeOK
    <3> QED BY <3>2, <3>3
  <2>4. CASE UNCHANGED <<shift, UDR>>
    BY <2>1, <2>2, <2>4 DEF HardwareInv, IInv, TypeOK
  <2> QED BY <2>3, <2>4 DEF RxCollision
<1>4. \A m \in Node \ {n} : Same(m)
  BY <1>1, <1>2, <1>3 DEF Same
<1>5. HardwareInv(n)'
  BY <1>1, <1>3 DEF SyncInv, HardwareInv
<1>6. EmptyInv(n) => EmptyInv(n)'
  BY <1>1 DEF EmptyInv
<1>7. FilledInv(n) => FilledInv(n)'
  BY <1>1 DEF FilledInv
<1> QED BY <1>1, <1>4, <1>5, <1>6, <1>7, OneNodeBuffer

LEMMA RxDiscardSync ==
  ASSUME IInv, SyncInv, NEW n \in Node, RXComplete(n), RxDiscard(n)
  PROVE  SyncInv'
<1>1. /\ UNCHANGED <<state, txStartup, buffered, txRxComparePos, txBuf, shift, UDR, UDRIE, TXCIE,
                     TXC, power, pc, lost>>
      /\ state[n] \in {"eTxJamming", "eTxStopped"} /\ RXC'[n] = None
      /\ \A m \in Node \ {n} : RXC'[m] = RXC[m]
  BY DEF RXComplete, RxDiscard, app, wire, IInv, TypeOK
<1>2. /\ \A m \in Node \ {n} : OCIE'[m] = OCIE[m] /\ ticks'[m] = ticks[m]
      /\ state[n] = "eTxStopped" => OCIE'[n] = OCIE[n] /\ ticks'[n] = ticks[n]
  <2>1. CASE state[n] = "eTxJamming"
    BY <2>1, TimerStopFrame DEF RxDiscard
  <2>2. CASE state[n] # "eTxJamming"
    BY <2>2 DEF RxDiscard, tmr
  <2> QED BY <2>1, <2>2
<1>3. \A m \in Node \ {n} : Same(m)
  BY <1>1, <1>2 DEF Same
<1>4. HardwareInv(n)'
  BY <1>1, <1>2 DEF SyncInv, HardwareInv
<1>5. EmptyInv(n) => EmptyInv(n)'
  BY <1>1 DEF EmptyInv
<1>6. FilledInv(n) => FilledInv(n)'
  BY <1>1 DEF FilledInv
<1> QED BY <1>1, <1>3, <1>4, <1>5, <1>6, OneNodeBuffer

LEMMA RxAcceptSync ==
  ASSUME IInv, SyncInv, InterChar > 1, NEW n \in Node, RXComplete(n), RxAccept(n)
  PROVE  SyncInv'
<1>1. /\ UNCHANGED <<txStartup, buffered, txRxComparePos, txBuf, shift, UDR, UDRIE, TXCIE,
                     TXC, power, pc, lost>>
      /\ RXC[n] # None /\ RXC'[n] = None /\ \A m \in Node \ {n} : RXC'[m] = RXC[m]
  BY DEF RXComplete, RxcIrq, RxAccept, app, wire, IInv, TypeOK
<1>2. /\ \A m \in Node \ {n} : state'[m] = state[m]
      /\ \/ state[n] = "eTxPending" /\ state'[n] = "eTxPending" /\ TimerStart(n, txDelayTicks[n])
         \/ state[n] \in {"eIdle", "eRxing"} /\ state'[n] = "eRxing" /\ TimerStart(n, InterChar)
  <2>1. CASE state[n] = "eTxPending"
    BY <2>1 DEF RxAccept
  <2>2. CASE state[n] # "eTxPending"
    BY <2>2 DEF RxAccept, IInv, TypeOK
  <2> QED BY <2>1, <2>2
<1>3. PICK d \in Nat : d > 1 /\ TimerStart(n, d)
  <2>1. txDelayTicks[n] \in Nat /\ txDelayTicks[n] > 1
    BY Bounds DEF IInv, TypeOK, Delays
  <2> QED BY <1>2, <2>1, Bounds
<1>4. /\ OCIE'[n] /\ (~TimerIrq(n) => ticks'[n] >= 2)
      /\ \A m \in Node \ {n} : OCIE'[m] = OCIE[m] /\ ticks'[m] = ticks[m]
  <2>1. d > 0
    BY <1>3
  <2>2. ~TimerIrq(n) => ticks'[n] = d
    BY <1>3, TimerSet DEF IInv
  <2> QED BY <1>3, <2>1, <2>2, TimerStarts DEF IInv
<1>5. HardwareInv(n) /\ UDR[n] = None
  BY <1>1 DEF SyncInv, HardwareInv
<1>6. \A m \in Node \ {n} : Same(m)
  BY <1>1, <1>2, <1>4 DEF Same
<1>7. HardwareInv(n)'
  BY <1>1, <1>2, <1>5 DEF HardwareInv
<1>8. EmptyInv(n) => EmptyInv(n)'
  BY <1>1, <1>2 DEF EmptyInv, Quiet
<1>9. ASSUME FilledInv(n) PROVE FilledInv(n)'
  <2>1. CASE state[n] = "eTxPending"
    <3>1. shift[n] # None => ~TimerIrq(n)
      BY <1>9, <2>1 DEF FilledInv, TimerIrq
    <3> QED BY <1>1, <1>2, <1>4, <1>9, <2>1, <3>1 DEF FilledInv
  <2>2. CASE state[n] # "eTxPending"
    <3>1. /\ Quiet(n) => Quiet(n)'
          /\ Loaded(n) => Loaded(n)'
          /\ Ending(n) => Ending(n)'
      BY <1>1 DEF Quiet, Loaded, Ending
    <3>2. ASSUME CutOff(n) PROVE CutOff(n)'
      <4>1. ~TimerIrq(n)
        BY <1>1, <3>2 DEF CutOff, TimerIrq, Here
      <4>2. OCIE'[n] /\ ticks'[n] >= 2 /\ ticks'[n] >= 1 /\ state'[n] = "eRxing"
        <5>1. ticks'[n] \in Nat
          BY <1>3, <1>4, TimerStarts DEF IInv
        <5> QED BY <1>2, <1>4, <2>2, <4>1, <5>1
      <4> QED BY <1>1, <1>5, <3>2, <4>2 DEF CutOff
    <3> QED BY <1>1, <1>2, <1>9, <2>2, <3>1, <3>2 DEF FilledInv
  <2> QED BY <2>1, <2>2
<1> QED BY <1>1, <1>6, <1>7, <1>8, <1>9, OneNodeBuffer

-----------------------------------------------------------------------------
(* What a write to the empty UDR does. *)
LEMMA WriteUDRSync ==
  ASSUME IInv, NEW n \in Node, NEW c \in Char, WriteUDR(n, c), UDR[n] = None
  PROVE  /\ shift'[n] # None
         /\ shift[n] = None => shift'[n] = c /\ UDR'[n] = None
         /\ shift[n] # None => shift'[n] = shift[n] /\ UDR'[n] = c /\ UDR'[n] # None
         /\ \A m \in Node \ {n} : shift'[m] = shift[m] /\ UDR'[m] = UDR[m]
<1>1. c # None
  BY SioAssumption
<1>2. CASE shift[n] = None
  BY <1>1, <1>2 DEF WriteUDR, IInv, TypeOK
<1>3. CASE shift[n] # None
  BY <1>1, <1>3 DEF WriteUDR, IInv, TypeOK
<1> QED BY <1>2, <1>3

LEMMA SendJamSync ==
  ASSUME IInv, SyncInv, NEW n \in Node, DataRegisterEmpty(n), SendJam(n)
  PROVE  SyncInv'
<1>1. /\ UNCHANGED <<state, txStartup, buffered, txRxComparePos, txBuf, TXC, RXC, OCIE, ticks,
                     power, pc, lost>>
      /\ state[n] = "eTxJamming" /\ UDR[n] = None /\ RXC[n] = None
  BY DEF DataRegisterEmpty, UdreIrq, RxcIrq, SendJam, app, wire, tmr
<1>2. HardwareInv(n) /\ txBuf[n] = <<>>
  BY <1>1 DEF SyncInv, HardwareInv
<1>3. /\ UDRIE'[n] => UDRIE[n]
      /\ UDR'[n] # None => shift'[n] # None
      /\ \A m \in Node \ {n} : /\ shift'[m] = shift[m] /\ UDR'[m] = UDR[m]
                                /\ UDRIE'[m] = UDRIE[m] /\ TXCIE'[m] = TXCIE[m]
  <2>1. CASE txJamCnt[n] + 1 < MaxJamCnt
    <3>1. WriteUDR(n, Jam) /\ UNCHANGED <<TXCIE, UDRIE>> /\ Jam \in Char
      BY <2>1 DEF SendJam, Char
    <3> QED BY <1>1, <3>1, WriteUDRSync
  <2>2. CASE ~(txJamCnt[n] + 1 < MaxJamCnt)
    BY <1>1, <2>2 DEF SendJam, IInv, TypeOK
  <2> QED BY <2>1, <2>2
<1>4. \A m \in Node \ {n} : Same(m)
  BY <1>1, <1>3 DEF Same
<1>5. HardwareInv(n)'
  BY <1>1, <1>2, <1>3 DEF HardwareInv
<1>6. EmptyInv(n) => EmptyInv(n)'
  BY <1>1 DEF EmptyInv
<1>7. FilledInv(n) => FilledInv(n)'
  BY <1>1 DEF FilledInv
<1> QED BY <1>1, <1>4, <1>5, <1>6, <1>7, OneNodeBuffer

LEMMA DeferSync ==
  ASSUME IInv, SyncInv, InterChar > 1, NEW n \in Node, DataRegisterEmpty(n), Defer(n)
  PROVE  SyncInv'
<1>1. /\ UNCHANGED <<buffered, txRxComparePos, shift, UDR, TXCIE, TXC, RXC, power, pc, lost>>
      /\ UDRIE[n] /\ UDR[n] = None /\ RXC[n] = None
      /\ TimerStart(n, InterChar)
  BY DEF DataRegisterEmpty, UdreIrq, RxcIrq, Defer, Postpone, app, wire
<1>2. /\ state'[n] = "eTxPending" /\ txBuf'[n] = <<>> /\ ~UDRIE'[n]
      /\ \A m \in Node \ {n} : state'[m] = state[m] /\ txBuf'[m] = txBuf[m] /\ UDRIE'[m] = UDRIE[m]
  BY DEF Defer, Postpone, IInv, TypeOK
<1>3. /\ state[n] # "eTxJamming" /\ txBuf[n] # <<>>
      /\ state[n] # "eRxing" => txStartup[n]
      /\ \A m \in Node \ {n} : txStartup'[m] = txStartup[m]
  <2>1. CASE state[n] = "eRxing"
    BY <2>1 DEF Defer
  <2>2. CASE state[n] # "eRxing"
    BY <2>2 DEF Defer, IInv, TypeOK
  <2> QED BY <2>1, <2>2
<1>4. /\ OCIE'[n] /\ (~TimerIrq(n) => ticks'[n] = InterChar)
      /\ \A m \in Node \ {n} : OCIE'[m] = OCIE[m] /\ ticks'[m] = ticks[m]
  BY <1>1, TimerStarts, TimerSet, Bounds DEF IInv
<1>5. HardwareInv(n) /\ EnablesInv(n) /\ state[n] \in States
  BY DEF SyncInv, IInv, NodeInv, TypeOK
<1>6. ~TXCIE[n] /\ state[n] \in {"eIdle", "eRxing", "eTxPending"}
  BY <1>1, <1>3, <1>5 DEF HardwareInv, EnablesInv, States
<1>7. \A m \in Node \ {n} : Same(m)
  BY <1>1, <1>2, <1>3, <1>4 DEF Same
<1>8. HardwareInv(n)'
  BY <1>1, <1>2, <1>5 DEF HardwareInv
<1>9. ~EmptyInv(n)
  BY <1>1, <1>6 DEF EmptyInv, Quiet
<1>10. ASSUME FilledInv(n) PROVE FilledInv(n)'
  <2>1. state[n] # "eTxPending" /\ pc[n] # "send"
    BY <1>1, <1>10 DEF FilledInv, Quiet
  <2>2. Loaded(n) \/ CutOff(n)
    BY <1>1, <1>3, <1>6, <1>10, <2>1 DEF FilledInv, Quiet, Ending
  <2>3. shift[n] # None => ~TimerIrq(n)
    BY <1>1, <2>2 DEF Loaded, CutOff, TimerIrq, Here
  <2>4. shift[n] # None => OCIE'[n] /\ ticks'[n] >= 2
    BY <1>4, <2>3, Bounds
  <2> QED BY <1>1, <1>2, <1>6, <2>1, <2>4 DEF FilledInv
<1> QED BY <1>1, <1>7, <1>8, <1>9, <1>10, OneNodeBuffer

LEMMA SendNextSync ==
  ASSUME IInv, SyncInv, NEW n \in Node, DataRegisterEmpty(n), SendNext(n)
  PROVE  SyncInv'
<1>1. /\ UNCHANGED <<buffered, txRxComparePos, UDRIE, TXCIE, RXC, OCIE, ticks, power, pc, lost>>
      /\ UDRIE[n] /\ UDR[n] = None /\ RXC[n] = None
      /\ state[n] \notin {"eTxJamming", "eRxing"} /\ txBuf[n] # <<>>
      /\ WriteUDR(n, Head(txBuf[n]))
  BY DEF DataRegisterEmpty, UdreIrq, RxcIrq, SendNext, app, wire, tmr
<1>2. /\ state'[n] = "eTxing" /\ txBuf'[n] = Tail(txBuf[n]) /\ ~txStartup'[n] /\ ~TXC'[n]
      /\ \A m \in Node \ {n} : /\ state'[m] = state[m] /\ txBuf'[m] = txBuf[m]
                                /\ txStartup'[m] = txStartup[m] /\ TXC'[m] = TXC[m]
  BY DEF SendNext, IInv, TypeOK
<1>3. Head(txBuf[n]) \in Char
  BY <1>1 DEF IInv, TypeOK
<1>4. /\ shift'[n] # None
      /\ shift[n] = None => shift'[n] = Head(txBuf[n]) /\ UDR'[n] = None
      /\ shift[n] # None => shift'[n] = shift[n] /\ UDR'[n] = Head(txBuf[n]) /\ UDR'[n] # None
      /\ \A m \in Node \ {n} : shift'[m] = shift[m] /\ UDR'[m] = UDR[m]
  BY <1>1, <1>3, WriteUDRSync
<1>5. HardwareInv(n) /\ EnablesInv(n) /\ state[n] \in States
  BY DEF SyncInv, IInv, NodeInv, TypeOK
<1>6. power[n] /\ state[n] \in {"eIdle", "eTxing", "eTxPending"}
  BY <1>1, <1>5 DEF HardwareInv, EnablesInv, States
<1>7. \A m \in Node \ {n} : Same(m)
  BY <1>1, <1>2, <1>4 DEF Same
<1>8. HardwareInv(n)'
  BY <1>1, <1>2, <1>4, <1>6 DEF HardwareInv
<1>9. ASSUME EmptyInv(n) PROVE EmptyInv(n)'
  <2>1. state[n] = "eTxing"
    BY <1>1, <1>6, <1>9 DEF EmptyInv, Quiet
  <2> QED BY <1>1, <1>2, <1>9, <2>1 DEF EmptyInv
<1>10. ASSUME FilledInv(n) PROVE FilledInv(n)'
  <2>1. state[n] # "eTxPending" /\ pc[n] # "send"
    BY <1>1, <1>10 DEF FilledInv, Quiet
  <2>2. Loaded(n) \/ Sync(n)
    BY <1>1, <1>6, <1>10, <2>1 DEF FilledInv, Quiet, Ending, CutOff
  <2>0. PICK q \in Nat : q = txRxComparePos[n]
    BY DEF IInv, TypeOK
  <2> DEFINE L == Len(Telegram[n])
  <2>3. q \in Nat /\ L \in Nat /\ L > 0 /\ Here(n) = 0 /\ Here(n)' = 0 /\ txRxComparePos[n] = q
        /\ txRxComparePos'[n] = q
    BY <1>1, <2>0, TelegramType DEF Here
  <2>4. q + Busy(n) <= L /\ txBuf[n] = Rest(n, q + Busy(n))
    <3>1. CASE Loaded(n)
      <4>1. Busy(n) = 0 /\ q = 0 /\ txBuf[n] = Telegram[n]
        BY <2>3, <3>1 DEF Loaded, Busy
      <4> QED BY <2>3, <4>1, RestAll
    <3>2. CASE Sync(n)
      <4>1. txRxComparePos[n] + Here(n) = q
        BY <2>3
      <4> QED BY <3>2, <4>1 DEF Sync, At
    <3> QED BY <2>2, <3>1, <3>2
  <2>5. shift[n] # None => shift[n] = Telegram[n][q + 1]
    <3>1. CASE Loaded(n)
      BY <3>1 DEF Loaded
    <3>2. CASE Sync(n)
      <4>1. txRxComparePos[n] + Here(n) = q
        BY <2>3
      <4> QED BY <3>2, <4>1 DEF Sync, At
    <3> QED BY <2>2, <3>1, <3>2
  <2>6. Busy(n) \in Nat /\ q + Busy(n) \in Nat
    BY <2>3 DEF Busy
  <2> HIDE DEF L
  <2>7. q + Busy(n) < L
    <3>1. q + Busy(n) # L
      BY <1>1, <2>4, <2>6, RestEnd DEF L
    <3> QED BY <2>3, <2>4, <2>6, <3>1
  <2>8. /\ Head(txBuf[n]) = Telegram[n][q + Busy(n) + 1]
        /\ Tail(txBuf[n]) = Rest(n, q + Busy(n) + 1)
    BY <2>4, <2>6, <2>7, RestNext DEF L
  <2>9. At(n, q)'
    <3>1. CASE shift[n] = None
      <4>1. Busy(n) = 0 /\ Busy(n)' = 1
        BY <1>1, <1>4, <3>1 DEF Busy
      <4>2. q + Busy(n) + 1 = q + 1
        BY <2>3, <4>1
      <4>3. q + 1 <= L
        BY <2>3, <2>7, <4>1
      <4> QED BY <1>2, <1>4, <2>8, <3>1, <4>1, <4>2, <4>3 DEF At, L, Rest
    <3>2. CASE shift[n] # None
      <4>1. Busy(n) = 1 /\ Busy(n)' = 2
        BY <1>1, <1>4, <3>2 DEF Busy
      <4>2. q + Busy(n) + 1 = q + 2
        BY <2>3, <4>1
      <4>3. q + 2 <= L
        BY <2>3, <2>7, <4>1
      <4> QED BY <1>2, <1>4, <2>5, <2>8, <3>2, <4>1, <4>2, <4>3 DEF At, L, Rest
    <3> QED BY <3>1, <3>2
  <2>10. Sync(n)'
    <3>1. txRxComparePos'[n] + Here(n)' = q
      BY <2>3
    <3> QED BY <2>9, <3>1 DEF Sync, At
  <2> QED BY <1>1, <1>2, <2>1, <2>10 DEF FilledInv
<1> QED BY <1>1, <1>7, <1>8, <1>9, <1>10, OneNodeBuffer

LEMMA LastCharSync ==
  ASSUME IInv, SyncInv, NEW n \in Node, DataRegisterEmpty(n), LastChar(n)
  PROVE  SyncInv'
<1>1. /\ UNCHANGED <<state, txStartup, buffered, txRxComparePos, txBuf, shift, UDR, TXC, RXC, OCIE,
                     ticks, power, pc, lost>>
      /\ UDRIE[n] /\ state[n] # "eTxJamming" /\ txBuf[n] = <<>> /\ ~UDRIE'[n] /\ TXCIE'[n]
      /\ \A m \in Node \ {n} : UDRIE'[m] = UDRIE[m] /\ TXCIE'[m] = TXCIE[m]
  BY DEF DataRegisterEmpty, UdreIrq, LastChar, app, wire, tmr, IInv, TypeOK
<1>2. \A m \in Node \ {n} : Same(m)
  BY <1>1 DEF Same
<1>3. HardwareInv(n)'
  BY <1>1 DEF SyncInv, HardwareInv
<1>4. EmptyInv(n) => EmptyInv(n)'
  BY <1>1 DEF EmptyInv, Quiet
<1>5. ASSUME FilledInv(n) PROVE FilledInv(n)'
  <2>1. state[n] # "eTxPending" /\ pc[n] # "send" /\ ~Quiet(n) /\ ~Ending(n)
    BY <1>1, <1>5 DEF FilledInv, Quiet, Ending
  <2>2. ~Loaded(n)
    BY <1>1, TelegramType DEF Loaded
  <2>3. CutOff(n) => Ending(n)'
    BY <1>1 DEF CutOff, Ending
  <2>4. Sync(n) => Sync(n)'
    BY <1>1 DEF Sync, At, Busy, Here, Rest
  <2> QED BY <1>1, <1>5, <2>1, <2>2, <2>3, <2>4 DEF FilledInv
<1> QED BY <1>1, <1>2, <1>3, <1>4, <1>5, OneNodeBuffer

LEMMA TxCompleteSync ==
  ASSUME IInv, SyncInv, InterChar > 1, NEW n \in Node, TxComplete(n)
  PROVE  SyncInv'
<1>1. /\ UNCHANGED <<txStartup, buffered, txRxComparePos, txBuf, shift, UDR, UDRIE, RXC, pc, lost>>
      /\ TXCIE[n] /\ TXC[n] /\ RXC[n] = None /\ ~TXC'[n] /\ ~TXCIE'[n] /\ ~power'[n]
      /\ \A m \in Node \ {n} : TXC'[m] = TXC[m] /\ TXCIE'[m] = TXCIE[m] /\ power'[m] = power[m]
  BY DEF TxComplete, TxcIrq, RxcIrq, app, wire, IInv, TypeOK
<1>2. HardwareInv(n) /\ EnablesInv(n) /\ TimerInv(n) /\ state[n] \in States
  BY DEF SyncInv, IInv, NodeInv, TypeOK
<1>3. ~UDRIE[n] /\ txBuf[n] = <<>> /\ state[n] # "eTxStopped"
  BY <1>1, <1>2 DEF HardwareInv, EnablesInv
<1>4. CASE state[n] = "eTxJamming"
  <2>1. /\ state'[n] = "eTxStopped" /\ TimerStart(n, InterChar)
        /\ \A m \in Node \ {n} : state'[m] = state[m]
    BY <1>4 DEF TxComplete, IInv, TypeOK
  <2>2. /\ OCIE'[n] /\ ticks'[n] >= 2 /\ ticks'[n] >= 1
        /\ \A m \in Node \ {n} : OCIE'[m] = OCIE[m] /\ ticks'[m] = ticks[m]
    <3>1. ~TimerIrq(n)
      BY <1>2, <1>4 DEF TimerInv, TimerIrq
    <3> QED BY <2>1, <3>1, TimerStarts, TimerSet, Bounds DEF IInv
  <2>3. \A m \in Node \ {n} : Same(m)
    BY <1>1, <2>1, <2>2 DEF Same
  <2>4. HardwareInv(n)'
    BY <1>1, <1>2, <1>3, <2>1, <2>2 DEF HardwareInv
  <2>5. EmptyInv(n) => EmptyInv(n)'
    BY <1>1, <1>4, <2>1 DEF EmptyInv
  <2>6. FilledInv(n) => FilledInv(n)'
    BY <1>1, <1>4, <2>1 DEF FilledInv
  <2> QED BY <1>1, <2>3, <2>4, <2>5, <2>6, OneNodeBuffer
<1>5. CASE state[n] # "eTxJamming"
  <2>1. /\ state'[n] = "eIdle" /\ UNCHANGED <<OCIE, ticks>>
        /\ \A m \in Node \ {n} : state'[m] = state[m]
    BY <1>5 DEF TxComplete, tmr, IInv, TypeOK
  <2>2. \A m \in Node \ {n} : Same(m)
    BY <1>1, <2>1 DEF Same
  <2>3. HardwareInv(n)'
    BY <1>1, <1>2, <1>3, <2>1 DEF HardwareInv
  <2>4. ASSUME EmptyInv(n) PROVE EmptyInv(n)'
    <3>1. state[n] = "eTxing"
      BY <1>1, <1>2, <1>3, <1>5, <2>4 DEF EmptyInv, Quiet, States
    <3>2. Quiet(n)'
      BY <1>1, <1>2, <1>3, <3>1 DEF Quiet, HardwareInv
    <3> QED BY <1>1, <2>1, <2>4, <3>1, <3>2 DEF EmptyInv
  <2>5. ASSUME FilledInv(n) PROVE FilledInv(n)'
    <3>1. pc[n] # "send" /\ state[n] # "eTxPending"
      BY <1>1, <2>5 DEF FilledInv, Quiet
    <3>2. shift[n] = None /\ UDR[n] = None
      <4>1. CASE state[n] = "eTxing"
        BY <1>1, <1>2, <4>1 DEF HardwareInv
      <4>2. CASE state[n] \in {"eIdle", "eRxing"}
        <5>1. Ending(n)
          BY <1>1, <1>3, <2>5, <4>2 DEF FilledInv, Quiet, Loaded, CutOff
        <5> QED BY <1>1, <1>2, <5>1 DEF Ending, HardwareInv
      <4> QED BY <1>2, <1>3, <1>5, <3>1, <4>1, <4>2 DEF States
    <3>3. Quiet(n)'
      BY <1>1, <1>3, <3>2 DEF Quiet
    <3> QED BY <1>1, <2>1, <3>1, <3>3 DEF FilledInv
  <2> QED BY <1>1, <2>2, <2>3, <2>4, <2>5, OneNodeBuffer
<1> QED BY <1>4, <1>5

-----------------------------------------------------------------------------
LEMMA StartBitSync ==
  ASSUME IInv, SyncInv, NEW n \in Node, StartBit(n)
  PROVE  SyncInv'
<1>1. UNCHANGED <<state, txStartup, buffered, txRxComparePos, txBuf, shift, UDR, UDRIE, TXCIE, TXC,
                  RXC, OCIE, ticks, power, pc, lost>>
  BY DEF StartBit, app, tmr
<1>2. \A m \in Node : Same(m)
  BY <1>1 DEF Same
<1> QED BY <1>1, <1>2, SameKept DEF SyncInv

LEMMA StutterSync ==
  ASSUME IInv, SyncInv, UNCHANGED vars
  PROVE  SyncInv'
<1>1. UNCHANGED <<state, txStartup, buffered, txRxComparePos, txBuf, shift, UDR, UDRIE, TXCIE, TXC,
                  RXC, OCIE, ticks, power, pc, lost>>
  BY DEF vars, app, tmr, wire
<1>2. \A m \in Node : Same(m)
  BY <1>1 DEF Same
<1> QED BY <1>1, <1>2, SameKept DEF SyncInv

(* A character that a powered transmitter sends comes back as an echo, right *)
(* or wrong, unless it is lost.                                              *)
LEMMA Echoed ==
  ASSUME IInv, SyncInv, Tick
  PROVE  /\ lost' \in Nat /\ (lost' = 0 => lost = 0)
         /\ \A n \in Node : lost' = 0 /\ shift[n] # None /\ power[n] => RXC'[n] # None
<1>1. None \notin Char /\ Garbage \in Char /\ lost \in Nat
  BY SioAssumption DEF Char, SyncInv
<1>2. OnWire \subseteq Char
  <2>1. {shift[n] : n \in Driving} \subseteq Char
    BY DEF Driving, IInv, TypeOK
  <2>2. Jam \in Char
    BY DEF Char
  <2> QED BY <1>1, <2>1, <2>2 DEF OnWire
<1>3. CASE Driving = {}
  <2>1. lost' = lost
    BY <1>3 DEF Tick, Transfer
  <2> QED BY <1>1, <1>3, <2>1 DEF Driving
<1>4. CASE Driving # {}
  <2>1. PICK v \in OnWire :
           \/ Received(v, {}) /\ UNCHANGED <<noise, lost>>
           \/ \E m \in Node :
                /\ Received(v, {m})
                /\ IF RXC'[m] = None
                   THEN lost < MaxLost /\ lost' = lost + 1 /\ UNCHANGED noise
                   ELSE noise < MaxNoise /\ noise' = noise + 1 /\ UNCHANGED lost
    BY <1>4 DEF Tick, Transfer
  <2>2. v # None
    BY <1>1, <1>2
  <2>3. CASE Received(v, {}) /\ UNCHANGED <<noise, lost>>
    <3>1. \A n \in Node : RXC'[n] = v
      BY <2>3 DEF Received
    <3> QED BY <1>1, <2>2, <2>3, <3>1
  <2>4. ASSUME NEW m \in Node, Received(v, {m}),
               IF RXC'[m] = None
               THEN lost < MaxLost /\ lost' = lost + 1 /\ UNCHANGED noise
               ELSE noise < MaxNoise /\ noise' = noise + 1 /\ UNCHANGED lost
        PROVE  /\ lost' \in Nat /\ (lost' = 0 => lost = 0)
               /\ \A n \in Node : lost' = 0 => RXC'[n] # None
    <3>1. \A n \in Node \ {m} : RXC'[n] = v
      BY <2>4 DEF Received
    <3>2. CASE RXC'[m] = None
      BY <1>1, <2>4, <3>2
    <3>3. CASE RXC'[m] # None
      BY <1>1, <2>2, <2>4, <3>1, <3>3
    <3> QED BY <3>2, <3>3
  <2> QED BY <2>1, <2>3, <2>4
<1> QED BY <1>3, <1>4

(* What a character time does to a node. *)
LEMMA TickNode ==
  ASSUME IInv, Tick, NEW n \in Node
  PROVE  /\ state'[n] = state[n] /\ txStartup'[n] = txStartup[n] /\ buffered'[n] = buffered[n]
         /\ txRxComparePos'[n] = txRxComparePos[n] /\ txBuf'[n] = txBuf[n]
         /\ UDRIE'[n] = UDRIE[n] /\ TXCIE'[n] = TXCIE[n] /\ OCIE'[n] = OCIE[n]
         /\ power'[n] = power[n] /\ pc'[n] = pc[n]
         /\ shift'[n] = UDR[n] /\ UDR'[n] = None
         /\ TXC'[n] = (TXC[n] \/ (shift[n] # None /\ UDR[n] = None))
         /\ OCIE[n] => ticks'[n] = ticks[n] - 1 /\ ticks[n] # 0
         /\ RXC[n] = None /\ pc[n] # "copy" /\ ~UdreIrq(n) /\ ~TxcIrq(n)
<1>1. UNCHANGED <<state, txStartup, buffered, txRxComparePos, txBuf, UDRIE, TXCIE, OCIE, power, pc>>
  BY DEF Tick, app
<1>2. shift' = UDR /\ UDR'[n] = None /\ TXC'[n] = (TXC[n] \/ (shift[n] # None /\ UDR[n] = None))
  BY DEF Tick
<1>3. ~Irq(n) /\ pc[n] # "copy" /\ (OCIE[n] => ticks'[n] = ticks[n] - 1)
  BY DEF Tick
<1> QED BY <1>1, <1>2, <1>3 DEF Irq, RxcIrq, TimerIrq

(* A transmitter in step sends the next character and gets its echo. *)
LEMMA TickSync ==
  ASSUME IInv, SyncInv, Tick, NEW n \in Node, Sync(n), shift[n] # None, RXC'[n] # None
  PROVE  Sync(n)'
<1>1. PICK q \in Nat : q = txRxComparePos[n]
  BY DEF IInv, TypeOK
<1>2. /\ RXC[n] = None /\ Here(n) = 0 /\ Here(n)' = 1
      /\ txRxComparePos'[n] = q /\ txBuf'[n] = txBuf[n] /\ shift'[n] = UDR[n] /\ UDR'[n] = None
  BY <1>1, TickNode DEF Here
<1>3. txRxComparePos[n] + Here(n) = q /\ txRxComparePos'[n] + Here(n)' = q + 1
  BY <1>1, <1>2
<1>4. At(n, q)
  BY <1>3 DEF Sync
<1>5. Len(Telegram[n]) \in Nat
  BY TelegramType
<1>6. At(n, q + 1)'
  <2>1. CASE UDR[n] = None
    <3>1. Busy(n) = 1 /\ Busy(n)' = 0
      BY <1>2, <2>1 DEF Busy
    <3>2. q + 1 <= Len(Telegram[n]) /\ txBuf[n] = Rest(n, q + 1)
      BY <1>4, <3>1 DEF At
    <3>3. q + 1 + 0 = q + 1
      OBVIOUS
    <3> QED BY <1>2, <2>1, <3>1, <3>2, <3>3 DEF At, Rest
  <2>2. CASE UDR[n] # None
    <3>1. Busy(n) = 2 /\ Busy(n)' = 1
      BY <1>2, <2>2 DEF Busy
    <3>2. q + 2 <= Len(Telegram[n]) /\ txBuf[n] = Rest(n, q + 2) /\ UDR[n] = Telegram[n][q + 2]
      BY <1>4, <2>2, <3>1 DEF At
    <3>3. q + 1 + 1 = q + 2
      OBVIOUS
    <3> QED BY <1>2, <2>2, <3>1, <3>2, <3>3 DEF At, Rest
  <2> QED BY <2>1, <2>2
<1> QED BY <1>3, <1>6 DEF Sync, At

LEMMA TickStepInv ==
  ASSUME IInv, SyncInv, Tick
  PROVE  SyncInv'
<1>1. ASSUME NEW n \in Node PROVE HardwareInv(n)'
  <2>1. HardwareInv(n)
    BY DEF SyncInv
  <2>2. CASE state[n] = "eTxStopped"
    <3>1. OCIE[n] => ticks[n] \in Nat /\ ticks'[n] = ticks[n] - 1
      BY TickNode DEF IInv, TypeOK
    <3>2. UDR[n] # None => OCIE[n] /\ ticks'[n] >= 1
      BY <2>1, <2>2, <3>1 DEF HardwareInv
    <3> QED BY <2>1, <2>2, <3>2, TickNode DEF HardwareInv
  <2>3. CASE state[n] = "eTxing"
    BY <2>1, <2>3, TickNode DEF HardwareInv
  <2>4. CASE state[n] \notin {"eTxStopped", "eTxing"}
    BY <2>1, <2>4, TickNode DEF HardwareInv
  <2> QED BY <2>2, <2>3, <2>4
<1>2. ASSUME NEW n \in Node, lost' = 0, Len(Telegram[n]) <= BufSize PROVE StepInv(n)'
  <2>1. HardwareInv(n) /\ EnablesInv(n)
    BY DEF SyncInv, IInv, NodeInv
  <2>2. lost = 0 /\ (shift[n] # None /\ power[n] => RXC'[n] # None)
    BY <1>2, Echoed
  <2>3. /\ Quiet(n) => Quiet(n)'
        /\ ~Loaded(n)
        /\ Ending(n) => Ending(n)'
    <3>1. Quiet(n) => Quiet(n)'
      BY TickNode DEF Quiet
    <3>2. ~Loaded(n)
      BY TickNode DEF Loaded, UdreIrq
    <3>3. Ending(n) => Ending(n)'
      BY TickNode DEF Ending, TxcIrq
    <3> QED BY <3>1, <3>2, <3>3
  <2>4. state[n] = "eTxing" => shift[n] # None /\ RXC'[n] # None
    <3> SUFFICES ASSUME state[n] = "eTxing" PROVE shift[n] # None /\ RXC'[n] # None
      OBVIOUS
    <3>1. UDRIE[n] \/ TXCIE[n]
      BY <2>1 DEF EnablesInv
    <3>2. power[n] /\ (TXC[n] <=> shift[n] = None) /\ (UDR[n] # None => shift[n] # None)
      BY <2>1 DEF HardwareInv
    <3>3. shift[n] # None
      BY <3>1, <3>2, TickNode DEF UdreIrq, TxcIrq
    <3> QED BY <2>2, <3>2, <3>3
  <2>5. OCIE[n] => ticks[n] \in Nat /\ ticks'[n] = ticks[n] - 1 /\ ticks'[n] \in Nat
    <3>1. OCIE[n] => ticks'[n] = ticks[n] - 1 /\ ticks[n] # 0
      BY TickNode
    <3>2. ticks[n] \in Nat
      BY DEF IInv, TypeOK
    <3> QED BY <3>1, <3>2
  <2>6. ASSUME EmptyInv(n) PROVE EmptyInv(n)'
    <3>1. CASE state[n] = "eTxing"
      <4>1. OCIE[n] => ticks[n] >= 2
        BY <2>6, <3>1, TickNode DEF EmptyInv
      <4>2. OCIE[n] => ticks'[n] >= 2 \/ ticks'[n] = 1
        BY <2>5, <4>1
      <4> QED BY <2>4, <3>1, <4>2, TickNode DEF EmptyInv
    <3>2. CASE state[n] # "eTxing"
      BY <2>3, <2>6, <3>2, TickNode DEF EmptyInv
    <3> QED BY <3>1, <3>2
  <2>7. ASSUME CutOff(n) PROVE CutOff(n)'
    <3>1. UDR[n] # None /\ shift[n] # None /\ ~TXC[n] /\ ~TXC'[n] /\ UDRIE'[n]
      BY <2>1, <2>7, TickNode DEF CutOff, UdreIrq, HardwareInv
    <3>2. RXC'[n] # None
      BY <2>1, <2>2, <2>7, <3>1 DEF HardwareInv, CutOff
    <3>3. \/ state[n] = "eIdle" /\ ~OCIE[n] /\ Sync(n)
          \/ state[n] = "eRxing" /\ OCIE[n] /\ ticks[n] + Here(n) >= 2 /\ Sync(n)
      BY <2>7, <3>1 DEF CutOff
    <3>4. Sync(n)'
      BY <3>1, <3>2, <3>3, TickSync
    <3>5. CASE state[n] = "eIdle" /\ ~OCIE[n]
      BY <3>1, <3>4, <3>5, TickNode DEF CutOff
    <3>6. CASE state[n] = "eRxing" /\ OCIE[n] /\ ticks[n] + Here(n) >= 2
      <4>1. Here(n) = 0 /\ Here(n)' = 1
        BY <3>2, TickNode DEF Here
      <4>2. ticks'[n] + Here(n)' >= 2
        BY <2>5, <3>6, <4>1
      <4> QED BY <3>1, <3>4, <3>6, <4>2, TickNode DEF CutOff
    <3> QED BY <3>3, <3>5, <3>6
  <2>8. ASSUME FilledInv(n) PROVE FilledInv(n)'
    <3>1. CASE state[n] \in {"eIdle", "eRxing"}
      BY <2>3, <2>7, <2>8, <3>1, TickNode DEF FilledInv
    <3>2. CASE state[n] = "eTxing"
      <4>1. Sync(n)'
        BY <2>4, <2>8, <3>2, TickSync DEF FilledInv
      <4> QED BY <2>8, <3>2, <4>1, TickNode DEF FilledInv
    <3>3. CASE state[n] \notin {"eIdle", "eRxing", "eTxing"}
      BY <2>8, <3>3, TickNode DEF FilledInv
    <3> QED BY <3>1, <3>2, <3>3
  <2>9. StepInv(n)
    BY DEF SyncInv
  <2> QED BY <1>2, <2>2, <2>6, <2>8, <2>9, TickNode DEF StepInv
<1>3. \A n \in Node : StepInv(n)'
  BY <1>2 DEF StepInv
<1>4. lost' \in Nat
  BY Echoed
<1> QED BY <1>1, <1>3, <1>4 DEF SyncInv

LEMMA NextSync == InterChar > 1 /\ IInv /\ SyncInv /\ [Next]_vars => SyncInv'
<1> SUFFICES ASSUME InterChar > 1, IInv, SyncInv, [Next]_vars PROVE SyncInv'
  OBVIOUS
<1>1. ASSUME NEW n \in Node, Timeout(n) PROVE SyncInv'
  BY <1>1, RxTimeoutSync, StoppedTimeoutSync, PendingTimeoutSync, OtherTimeoutSync DEF Timeout
<1>2. ASSUME NEW n \in Node, RXComplete(n) PROVE SyncInv'
  BY <1>2, RxEchoSync, RxCollisionSync, RxDiscardSync, RxAcceptSync DEF RXComplete
<1>3. ASSUME NEW n \in Node, DataRegisterEmpty(n) PROVE SyncInv'
  BY <1>3, SendJamSync, DeferSync, SendNextSync, LastCharSync DEF DataRegisterEmpty
<1>4. ASSUME NEW n \in Node, Isr(n) PROVE SyncInv'
  BY <1>1, <1>2, <1>3, <1>4, EISync, TxCompleteSync DEF Isr
<1>5. ASSUME NEW n \in Node, BusSend(n) PROVE SyncInv'
  BY <1>5, WriteCheckSync, WriteCopySync, SioSendBufferSync DEF BusSend
<1> QED BY <1>4, <1>5, StartBitSync, TickStepInv, StutterSync DEF Next

LEMMA SyncInStep ==
  ASSUME IInv, SyncInv
  PROVE  InStep
<1> SUFFICES ASSUME NEW n \in Node, lost = 0, state[n] = "eTxing", buffered[n] = Telegram[n]
             PROVE  InTransmitter(n) = Rest(n, txRxComparePos[n] + Here(n))
  BY DEF InStep
<1>1. TypeOK /\ Len(Telegram[n]) <= BufSize /\ Telegram[n] # <<>>
  BY TelegramType DEF IInv, TypeOK
<1>2. FilledInv(n)
  BY <1>1, TelegramType DEF SyncInv, StepInv
<1>3. Sync(n) /\ (UDR[n] # None => shift[n] # None)
  BY <1>2 DEF FilledInv, SyncInv, HardwareInv
<1>4. txRxComparePos[n] + Here(n) \in Nat
  BY <1>1 DEF TypeOK, Here
<1> QED BY <1>1, <1>3, <1>4, Holding DEF Sync

(* While a telegram is sent, what the transmitter still holds of it is what  *)
(* is still to be compared, so a character is never compared with the wrong  *)
(* one and a telegram is not taken for sent early, unless a character was    *)
(* lost.  The timer must be set to more than a character time, as            *)
(* INTERCHAR_TIMEOUT is.                                                     *)
THEOREM EchoInStep ==
  ASSUME InterChar > 1
  PROVE  Spec => []InStep
<1>1. Init => IInv /\ SyncInv
  BY InitInv, InitSync
<1>2. IInv /\ SyncInv /\ [Next]_vars => (IInv /\ SyncInv)'
  BY NextInv, NextSync
<1>3. IInv /\ SyncInv => InStep
  BY SyncInStep
<1> QED BY <1>1, <1>2, <1>3, PTL DEF Spec

-----------------------------------------------------------------------------
(* What of a telegram was compared was on the wire, up to the last character. *)

(* No other character of a telegram is like the first (bus/bus.c escapes STX). *)
Framed == \A n \in Node : \A i \in DOMAIN Telegram[n] : Telegram[n][i] = Telegram[n][1] => i = 1

(* While a telegram is sent, and if the timer has cut its echo off, what was  *)
(* compared is what was last on the wire; so is a character that will match.  *)
RunRight(n) ==
  lost = 0 /\ buffered[n] = Telegram[n] =>
    /\ state[n] = "eTxing" \/ (state[n] = "eIdle" /\ UDRIE[n]) =>
         (RXC[n] = None => txRxComparePos[n] = 0 \/ run[n] = txRxComparePos[n])
    /\ state[n] = "eTxing" /\ RXC[n] # None /\ RXC[n] = Telegram[n][txRxComparePos[n] + 1] =>
         run[n] = txRxComparePos[n] + 1

RunInv == run \in [Node -> Nat] /\ \A n \in Node : RunRight(n)

LEMMA Filled ==
  ASSUME IInv, SyncInv, NEW n \in Node, lost = 0, buffered[n] = Telegram[n]
  PROVE  FilledInv(n)
BY TelegramType DEF SyncInv, StepInv, IInv, TypeOK

(* A step of one node that leaves the wire alone. *)
LEMMA RunElsewhere ==
  ASSUME RunInv, NEW n \in Node, run' = run, lost' = lost, RunRight(n)',
         \A m \in Node \ {n} : /\ state'[m] = state[m] /\ buffered'[m] = buffered[m] /\ RXC'[m] = RXC[m]
                               /\ UDRIE'[m] = UDRIE[m] /\ txRxComparePos'[m] = txRxComparePos[m]
  PROVE  RunInv'
<1>1. ASSUME NEW m \in Node \ {n} PROVE RunRight(m)'
  BY <1>1 DEF RunInv, RunRight
<1> QED BY <1>1 DEF RunInv

(* Nothing is compared, and sending begins in no other way than before. *)
LEMMA RunKept ==
  ASSUME RunInv, NEW n \in Node, run' = run, lost' = lost, buffered'[n] = buffered[n],
         RXC'[n] = RXC[n], txRxComparePos'[n] = txRxComparePos[n],
         state'[n] = "eTxing" => state[n] = "eTxing",
         lost = 0 /\ buffered[n] = Telegram[n] /\ state'[n] = "eIdle" /\ UDRIE'[n] =>
           state[n] = "eTxing" \/ (state[n] = "eIdle" /\ UDRIE[n]) \/ txRxComparePos[n] = 0
  PROVE  RunRight(n)'
BY DEF RunInv, RunRight

(* The node neither sends afterwards nor goes on sending. *)
LEMMA RunOver ==
  ASSUME NEW n \in Node, state'[n] # "eTxing", state'[n] # "eIdle" \/ ~UDRIE'[n]
  PROVE  RunRight(n)'
BY DEF RunRight

LEMMA RunCopy ==
  ASSUME IInv, SyncInv, RunInv, NEW n \in Node, BusSend(n)
  PROVE  RunInv'
<1>1. CASE WriteCheck(n)
  <2>1. UNCHANGED <<state, buffered, RXC, UDRIE, txRxComparePos, run, lost>>
    BY <1>1 DEF WriteCheck, wire
  <2> QED BY <2>1 DEF RunInv, RunRight
<1>2. CASE WriteCopy(n)
  <2>1. /\ UNCHANGED <<state, RXC, UDRIE, txRxComparePos, run, lost>>
        /\ \A m \in Node \ {n} : buffered'[m] = buffered[m]
    BY <1>2 DEF WriteCopy, wire, IInv, TypeOK
  <2>2. PICK k \in Copied(n) : buffered' = [buffered EXCEPT ![n] = @ \o SubSeq(Telegram[n], 1, k)]
    BY <1>2 DEF WriteCopy
  <2>3. k \in Nat /\ k <= Len(Telegram[n])
    BY TelegramType, Bounds DEF Copied, IInv, TypeOK
  <2>4. /\ buffered'[n] = buffered[n] \o SubSeq(Telegram[n], 1, k)
        /\ buffered[n] \in Seq(Char) /\ SubSeq(Telegram[n], 1, k) \in Seq(Char)
        /\ Len(SubSeq(Telegram[n], 1, k)) = k
    <3>1. /\ buffered'[n] = buffered[n] \o SubSeq(Telegram[n], 1, k)
          /\ buffered[n] \in Seq(Char)
      BY <2>2 DEF IInv, TypeOK
    <3>2. Telegram[n] \in Seq(Char)
      BY TelegramType
    <3>3. SubSeq(Telegram[n], 1, k) \in Seq(Char) /\ Len(SubSeq(Telegram[n], 1, k)) = k
      BY <2>3, <3>2
    <3> QED BY <3>1, <3>3
  <2>5. Len(buffered'[n]) = Len(buffered[n]) + k
    BY <2>4
  <2>6. RunRight(n)'
    <3> SUFFICES ASSUME lost = 0, buffered'[n] = Telegram[n] PROVE RunRight(n)'
      BY <2>1 DEF RunRight
    <3>1. Len(Telegram[n]) <= BufSize
      BY <2>4, <1>2, WriteCopyStep DEF IInv, TypeOK
    <3>2. CASE buffered[n] = <<>>
      <4>1. EmptyInv(n)
        BY <3>1, <3>2, TelegramType DEF SyncInv, StepInv
      <4>2. state[n] \in {"eIdle", "eRxing"} /\ ~UDRIE[n]
        BY <1>2, <4>1 DEF EmptyInv, WriteCopy, Quiet
      <4> QED BY <2>1, <4>2, RunOver
    <3>3. CASE buffered[n] = Telegram[n]
      BY <2>1, <3>3 DEF RunInv, RunRight
    <3>4. CASE Len(buffered[n]) > Len(Telegram[n])
      <4>1. Len(buffered'[n]) > Len(Telegram[n])
        <5>1. Len(buffered[n]) \in Nat /\ Len(Telegram[n]) \in Nat
          BY <2>4, TelegramType
        <5> QED BY <2>3, <2>5, <3>4, <5>1
      <4> QED BY <4>1, TelegramType
    <3> QED BY <3>1, <3>2, <3>3, <3>4 DEF SyncInv, StepInv
  <2> QED BY <2>1, <2>6, RunElsewhere
<1>3. CASE SioSendBuffer(n)
  <2>1. UNCHANGED <<buffered, RXC, run, lost>>
    BY <1>3 DEF SioSendBuffer, wire
  <2>2. CASE state[n] = "eIdle"
    <3>1. SendFromIdle(n) /\ UNCHANGED state
      BY <1>3, <2>2 DEF SioSendBuffer
    <3>2. txRxComparePos'[n] = 0
      BY <3>1 DEF SendFromIdle, IInv, TypeOK
    <3>3. RunRight(n)'
      BY <2>1, <2>2, <3>1, <3>2 DEF RunRight
    <3> QED BY <2>1, <3>1, <3>3, SendOthers, RunElsewhere
  <2>3. CASE state[n] # "eIdle"
    <3>1. /\ UNCHANGED <<txRxComparePos, UDRIE>>
          /\ state'[n] \in {state[n], "eTxPending"} /\ \A m \in Node \ {n} : state'[m] = state[m]
      BY <1>3, <2>3 DEF SioSendBuffer, IInv, TypeOK
    <3>2. RunRight(n)'
      BY <2>1, <2>3, <3>1, RunKept
    <3> QED BY <2>1, <3>1, <3>2, RunElsewhere
  <2> QED BY <2>2, <2>3
<1> QED BY <1>1, <1>2, <1>3 DEF BusSend

LEMMA RunTimeout ==
  ASSUME IInv, SyncInv, RunInv, NEW n \in Node, Timeout(n)
  PROVE  RunInv'
<1>1. UNCHANGED <<RXC, run, lost>> /\ OCIE[n] /\ ticks[n] = 0
  BY DEF Timeout, TimerIrq, wire
<1>2. CASE RxTimeout(n)
  <2>1. /\ UNCHANGED <<buffered, UDRIE, txRxComparePos>> /\ state[n] = "eRxing" /\ state'[n] = "eIdle"
        /\ \A m \in Node \ {n} : state'[m] = state[m]
    BY <1>2 DEF RxTimeout, IInv, TypeOK
  <2>2. ASSUME lost = 0, buffered[n] = Telegram[n], UDRIE[n] PROVE txRxComparePos[n] = 0
    <3>1. Quiet(n) \/ Loaded(n) \/ Ending(n) \/ CutOff(n)
      BY <2>1, <2>2, Filled DEF FilledInv
    <3>2. ~CutOff(n)
      BY <1>1, <2>1 DEF CutOff, Here
    <3> QED BY <2>2, <3>1, <3>2 DEF Quiet, Loaded, Ending
  <2>3. RunRight(n)'
    BY <1>1, <2>1, <2>2, RunKept
  <2> QED BY <1>1, <2>1, <2>3, RunElsewhere
<1>3. CASE StoppedTimeout(n)
  <2>1. /\ UNCHANGED <<UDRIE, txRxComparePos>> /\ state'[n] \in {"eTxPending", "eTxStopped"}
        /\ \A m \in Node \ {n} : state'[m] = state[m] /\ buffered'[m] = buffered[m]
    BY <1>3 DEF StoppedTimeout, IInv, TypeOK
  <2> QED BY <1>1, <2>1, RunOver, RunElsewhere
<1>4. CASE PendingTimeout(n)
  <2>1. /\ UNCHANGED buffered /\ SendFromIdle(n) /\ state'[n] = "eIdle"
        /\ \A m \in Node \ {n} : state'[m] = state[m]
    BY <1>4 DEF PendingTimeout, IInv, TypeOK
  <2>2. txRxComparePos'[n] = 0
    BY <2>1 DEF SendFromIdle, IInv, TypeOK
  <2>3. RunRight(n)'
    BY <2>1, <2>2 DEF RunRight
  <2> QED BY <1>1, <2>1, <2>3, SendOthers, RunElsewhere
<1>5. CASE OtherTimeout(n)
  <2>1. /\ UNCHANGED <<buffered, UDRIE, txRxComparePos>> /\ state'[n] = "eIdle"
        /\ state[n] \in {"eIdle", "eTxing", "eTxJamming"}
        /\ \A m \in Node \ {n} : state'[m] = state[m]
    BY <1>5 DEF OtherTimeout, IInv, TypeOK
  <2>2. state[n] # "eTxJamming"
    BY <1>1 DEF IInv, NodeInv, TimerInv
  <2>3. RunRight(n)'
    BY <1>1, <2>1, <2>2, RunKept
  <2> QED BY <1>1, <2>1, <2>3, RunElsewhere
<1> QED BY <1>2, <1>3, <1>4, <1>5 DEF Timeout

LEMMA RunReceive ==
  ASSUME IInv, SyncInv, RunInv, NEW n \in Node, RXComplete(n)
  PROVE  RunInv'
<1>1. /\ UNCHANGED <<UDRIE, run, lost>> /\ RXC[n] # None /\ RXC'[n] = None
      /\ \A m \in Node \ {n} : RXC'[m] = RXC[m]
  BY DEF RXComplete, RxcIrq, wire, IInv, TypeOK
<1>2. CASE RxEcho(n)
  <2>1. /\ UNCHANGED state /\ state[n] = "eTxing" /\ txRxComparePos'[n] = txRxComparePos[n] + 1
        /\ buffered'[n] \in {buffered[n], <<>>}
        /\ \A m \in Node \ {n} : buffered'[m] = buffered[m] /\ txRxComparePos'[m] = txRxComparePos[m]
    BY <1>2 DEF RxEcho, IInv, TypeOK
  <2>2. ASSUME lost = 0, buffered[n] = Telegram[n] PROVE run[n] = txRxComparePos[n] + 1
    <3>1. txRxComparePos[n] < Len(Telegram[n])
      <4>1. At(n, txRxComparePos[n] + 1)
        BY <1>1, <2>1, <2>2, Filled DEF FilledInv, Sync, Here
      <4>2. Busy(n) \in Nat /\ txRxComparePos[n] \in Nat /\ Len(Telegram[n]) \in Nat
        BY TelegramType DEF Busy, IInv, TypeOK
      <4> QED BY <4>1, <4>2 DEF At
    <3>2. RXC[n] = Telegram[n][txRxComparePos[n] + 1]
      BY <1>2, <2>2, <3>1 DEF RxEcho, Echo
    <3> QED BY <1>1, <2>1, <2>2, <3>2 DEF RunInv, RunRight
  <2>3. RunRight(n)'
    <3> SUFFICES ASSUME lost = 0, buffered'[n] = Telegram[n] PROVE RunRight(n)'
      BY <1>1 DEF RunRight
    <3>1. buffered[n] = Telegram[n]
      BY <2>1, TelegramType
    <3> QED BY <1>1, <2>1, <2>2, <3>1 DEF RunRight
  <2> QED BY <1>1, <2>1, <2>3, RunElsewhere
<1>3. CASE ~RxEcho(n)
  <2>1. /\ UNCHANGED <<buffered, txRxComparePos>> /\ state'[n] \notin {"eTxing", "eIdle"}
        /\ \A m \in Node \ {n} : state'[m] = state[m]
    BY <1>3 DEF RXComplete, RxCollision, RxDiscard, RxAccept, IInv, TypeOK
  <2> QED BY <1>1, <2>1, RunOver, RunElsewhere
<1> QED BY <1>2, <1>3

LEMMA RunSend ==
  ASSUME IInv, SyncInv, RunInv, NEW n \in Node, DataRegisterEmpty(n)
  PROVE  RunInv'
<1>1. /\ UNCHANGED <<buffered, RXC, txRxComparePos, run, lost>>
      /\ RXC[n] = None /\ UDRIE[n] /\ UDR[n] = None
  BY DEF DataRegisterEmpty, UdreIrq, RxcIrq, wire
<1>2. CASE SendNext(n)
  <2>1. /\ UNCHANGED UDRIE /\ state'[n] = "eTxing" /\ state[n] \notin {"eTxJamming", "eRxing"}
        /\ txBuf[n] # <<>> /\ \A m \in Node \ {n} : state'[m] = state[m]
    BY <1>2 DEF SendNext, IInv, TypeOK
  <2>2. ASSUME lost = 0, buffered[n] = Telegram[n]
        PROVE  txRxComparePos[n] = 0 \/ run[n] = txRxComparePos[n]
    <3>1. state[n] \in {"eIdle", "eTxing"}
      <4>1. state[n] # "eTxPending"
        BY <2>1, <2>2, Filled DEF FilledInv
      <4>2. state[n] # "eTxStopped"
        BY <2>1 DEF SyncInv, HardwareInv
      <4> QED BY <2>1, <4>1, <4>2 DEF IInv, TypeOK, States
    <3> QED BY <1>1, <2>2, <3>1 DEF RunInv, RunRight
  <2>3. RunRight(n)'
    BY <1>1, <2>1, <2>2 DEF RunRight
  <2> QED BY <1>1, <2>1, <2>3, RunElsewhere
<1>3. CASE ~SendNext(n)
  <2>1. /\ state'[n] = "eTxing" => state[n] = "eTxing"
        /\ state'[n] = "eIdle" /\ UDRIE'[n] => state[n] = "eIdle"
        /\ \A m \in Node \ {n} : state'[m] = state[m] /\ UDRIE'[m] = UDRIE[m]
    BY <1>3 DEF DataRegisterEmpty, SendJam, Defer, Postpone, LastChar, IInv, TypeOK
  <2>2. RunRight(n)'
    BY <1>1, <2>1, RunKept
  <2> QED BY <1>1, <2>1, <2>2, RunElsewhere
<1> QED BY <1>2, <1>3

LEMMA RunInterrupt ==
  ASSUME IInv, SyncInv, RunInv, NEW n \in Node, EI(n) \/ TxComplete(n) \/ StartBit(n)
  PROVE  RunInv'
<1>1. UNCHANGED <<buffered, RXC, UDRIE, txRxComparePos, run, lost>>
  BY DEF EI, TxComplete, StartBit, wire
<1>2. /\ state'[n] = "eTxing" => state[n] = "eTxing"
      /\ state'[n] = "eIdle" => state[n] = "eIdle" \/ ~UDRIE[n]
      /\ \A m \in Node \ {n} : state'[m] = state[m]
  <2>1. CASE TxComplete(n)
    <3>1. TXCIE[n] /\ state'[n] \in {"eIdle", "eTxStopped"} /\ \A m \in Node \ {n} : state'[m] = state[m]
      BY <2>1 DEF TxComplete, TxcIrq, IInv, TypeOK
    <3> QED BY <3>1 DEF IInv, NodeInv, EnablesInv
  <2>2. CASE EI(n) \/ StartBit(n)
    BY <2>2 DEF EI, StartBit, IInv, TypeOK
  <2> QED BY <2>1, <2>2
<1>3. RunRight(n)'
  BY <1>1, <1>2, RunKept
<1> QED BY <1>1, <1>2, <1>3, RunElsewhere

LEMMA AdvanceType ==
  ASSUME NEW n \in Node, NEW k \in Nat, NEW c
  PROVE  Advance(k, n, c) \in Nat
BY DEF Advance

(* A character of the telegram, on the wire in its place, is seen in its place. *)
LEMMA AdvanceNext ==
  ASSUME Framed, NEW n \in Node, NEW k \in Nat, NEW pos \in Nat, pos < Len(Telegram[n]), pos = 0 \/ k = pos
  PROVE  Advance(k, n, Telegram[n][pos + 1]) = pos + 1
<1>1. Telegram[n] \in Seq(Char) /\ Len(Telegram[n]) \in Nat /\ DOMAIN Telegram[n] = 1 .. Len(Telegram[n])
  BY TelegramType
<1>2. CASE k = pos
  BY <1>1, <1>2 DEF Advance
<1>3. CASE k # pos
  <2>1. pos = 0
    BY <1>3
  <2>2. ASSUME k < Len(Telegram[n]), Telegram[n][1] = Telegram[n][k + 1] PROVE FALSE
    <3>1. k + 1 \in DOMAIN Telegram[n] /\ k + 1 # 1
      BY <1>1, <1>3, <2>1, <2>2
    <3> QED BY <2>2, <3>1 DEF Framed
  <2> QED BY <1>1, <2>1, <2>2 DEF Advance
<1> QED BY <1>2, <1>3

LEMMA RunTick ==
  ASSUME IInv, SyncInv, RunInv, Framed, Tick
  PROVE  RunInv'
<1>1. lost' \in Nat /\ (lost' = 0 => lost = 0)
  BY Echoed
<1>2. CASE Driving = {}
  <2>1. UNCHANGED <<run, RXC>>
    BY <1>2 DEF Tick, Transfer
  <2>2. ASSUME NEW n \in Node PROVE RunRight(n)'
    BY <1>1, <2>1, TickNode DEF RunInv, RunRight
  <2> QED BY <2>1, <2>2 DEF RunInv
<1>3. CASE Driving # {}
  <2>1. PICK v, hurt : Received(v, hurt)
    BY <1>3 DEF Tick, Transfer
  <2>2. run' = [n \in Node |-> Advance(run[n], n, v)]
    BY <2>1 DEF Received
  <2>3. run' \in [Node -> Nat]
    BY <2>2, AdvanceType DEF RunInv
  <2>4. ASSUME NEW n \in Node, lost' = 0, buffered'[n] = Telegram[n] PROVE RunRight(n)'
    <3>1. lost = 0 /\ buffered[n] = Telegram[n] /\ RXC[n] = None
      BY <1>1, <2>4, TickNode
    <3>2. FilledInv(n) /\ HardwareInv(n) /\ EnablesInv(n)
      BY <3>1, Filled DEF SyncInv, IInv, NodeInv
    <3>3. CASE state[n] = "eTxing"
      <4>1. shift[n] # None /\ power[n]
        BY <3>2, <3>3, TickNode DEF HardwareInv, EnablesInv, UdreIrq, TxcIrq
      <4>2. RXC'[n] # None
        BY <2>4, <4>1, Echoed
      <4>3. txRxComparePos[n] \in Nat /\ txRxComparePos[n] < Len(Telegram[n])
        <5>1. At(n, txRxComparePos[n] + 0)
          BY <3>1, <3>2, <3>3 DEF FilledInv, Sync, Here
        <5>2. Busy(n) \in Nat /\ Busy(n) > 0 /\ txRxComparePos[n] \in Nat /\ Len(Telegram[n]) \in Nat
          BY <4>1, TelegramType DEF Busy, IInv, TypeOK
        <5> QED BY <5>1, <5>2 DEF At
      <4>4. ASSUME RXC'[n] = Telegram[n][txRxComparePos[n] + 1] PROVE run'[n] = txRxComparePos[n] + 1
        <5>1. RXC'[n] \in {v, Garbage, None}
          BY <2>1 DEF Received
        <5>2. Telegram[n][txRxComparePos[n] + 1] # Garbage
          BY <4>3, TelegramType, SioAssumption
        <5>3. v = Telegram[n][txRxComparePos[n] + 1]
          BY <4>2, <4>4, <5>1, <5>2
        <5>4. run[n] \in Nat /\ (txRxComparePos[n] = 0 \/ run[n] = txRxComparePos[n])
          BY <3>1, <3>3 DEF RunInv, RunRight
        <5> QED BY <2>2, <4>3, <5>3, <5>4, AdvanceNext
      <4> QED BY <3>3, <4>2, <4>4, TickNode DEF RunRight
    <3>4. CASE state[n] = "eIdle" /\ UDRIE[n]
      <4>1. CutOff(n) /\ UDR[n] # None
        BY <3>2, <3>4, TickNode DEF FilledInv, Quiet, Loaded, Ending, UdreIrq
      <4>2. RXC'[n] # None
        BY <2>4, <3>2, <3>4, <4>1, Echoed DEF HardwareInv
      <4> QED BY <3>4, <4>2, TickNode DEF RunRight
    <3>5. CASE state[n] # "eTxing" /\ ~(state[n] = "eIdle" /\ UDRIE[n])
      BY <3>5, TickNode DEF RunRight
    <3> QED BY <3>3, <3>4, <3>5
  <2>5. \A n \in Node : RunRight(n)'
    BY <2>4 DEF RunRight
  <2> QED BY <2>3, <2>5 DEF RunInv
<1> QED BY <1>2, <1>3

LEMMA NextRun == IInv /\ SyncInv /\ RunInv /\ Framed /\ [Next]_vars => RunInv'
<1> SUFFICES ASSUME IInv, SyncInv, RunInv, Framed, [Next]_vars PROVE RunInv'
  OBVIOUS
<1>1. CASE UNCHANGED vars
  BY <1>1 DEF vars, wire, RunInv, RunRight
<1> QED BY <1>1, RunCopy, RunTimeout, RunReceive, RunSend, RunInterrupt, RunTick DEF Next, Isr

LEMMA InitRun == Init => RunInv
BY DEF Init, RunInv, RunRight

LEMMA SumPositive ==
  ASSUME NEW a \in Nat, NEW b \in Nat, a > 0
  PROVE  a + b # 0
OBVIOUS

LEMMA Releases ==
  ASSUME IInv, SyncInv, RunInv, [Next]_vars, lost = 0, NEW n \in Node,
         buffered[n] = Telegram[n], buffered'[n] = <<>>
  PROVE  run[n] = Len(Telegram[n]) \/ txRetryCnt[n] = MaxTxRetry
<1>1. Telegram[n] # <<>> /\ Telegram[n] \in Seq(Char)
  BY TelegramType
<1>2. PICK m \in Node : WriteCopy(m) \/ RXComplete(m) \/ Timeout(m)
  <2>1. buffered' # buffered
    BY <1>1
  <2> QED BY <2>1 DEF Next, vars, Tick, Isr, BusSend, StartBit, EI, TxComplete, DataRegisterEmpty, WriteCheck,
              SioSendBuffer
<1>3. CASE WriteCopy(m)
  <2>1. PICK k \in Copied(m) : buffered' = [buffered EXCEPT ![m] = @ \o SubSeq(Telegram[m], 1, k)]
    BY <1>3 DEF WriteCopy
  <2>2. m = n /\ buffered'[n] = Telegram[n] \o SubSeq(Telegram[n], 1, k)
    BY <1>1, <2>1 DEF IInv, TypeOK
  <2>3. SubSeq(Telegram[n], 1, k) \in Seq(Char)
    <3>1. BufSize - Len(buffered[n]) \in Nat /\ Len(Telegram[n]) \in Nat
      <4>1. buffered[n] \in Seq(Char) /\ Len(buffered[n]) <= BufSize
        BY DEF IInv, TypeOK
      <4> QED BY <4>1, TelegramType, Bounds
    <3>2. k \in Nat /\ k <= Len(Telegram[n])
      BY <2>2, <3>1 DEF Copied
    <3> QED BY <1>1, <3>2
  <2>4. Len(Telegram[n]) \in Nat /\ Len(Telegram[n]) > 0 /\ Len(SubSeq(Telegram[n], 1, k)) \in Nat
    BY <1>1, <2>3, TelegramType
  <2>5. Len(Telegram[n]) + Len(SubSeq(Telegram[n], 1, k)) = 0
    <3>1. Telegram[n] \o SubSeq(Telegram[n], 1, k) = <<>>
      BY <2>2
    <3>2. Len(Telegram[n] \o SubSeq(Telegram[n], 1, k)) = Len(Telegram[n]) + Len(SubSeq(Telegram[n], 1, k))
      BY <1>1, <2>3
    <3>3. Len(<<>>) = 0
      OBVIOUS
    <3> QED BY <3>1, <3>2, <3>3
  <2> QED BY <2>4, <2>5, SumPositive
<1>4. CASE RXComplete(m)
  <2>1. m = n /\ RxEcho(n) /\ txRxComparePos[n] + 1 = Len(Telegram[n]) /\ RXC[n] # None
    <3>1. buffered' # buffered
      BY <1>1
    <3>2. RxEcho(m) /\ RXC[m] # None
      BY <1>4, <3>1 DEF RXComplete, RxcIrq, RxCollision, RxDiscard, RxAccept
    <3>3. buffered' = [buffered EXCEPT ![m] = <<>>] /\ txRxComparePos[m] + 1 = Len(buffered[m])
      BY <3>1, <3>2 DEF RxEcho
    <3>4. m = n
      BY <1>1, <3>3 DEF IInv, TypeOK
    <3> QED BY <1>1, <3>2, <3>3, <3>4
  <2>2. txRxComparePos[n] \in Nat /\ txRxComparePos[n] < Len(buffered[n])
    BY <2>1, TelegramType DEF IInv, TypeOK
  <2>3. RXC[n] = Telegram[n][txRxComparePos[n] + 1] /\ state[n] = "eTxing"
    BY <2>1, <2>2 DEF RxEcho, Echo
  <2> QED BY <2>1, <2>3 DEF RunInv, RunRight
<1>5. CASE Timeout(m)
  <2>1. m = n /\ StoppedTimeout(n)
    BY <1>1, <1>5 DEF Timeout, RxTimeout, StoppedTimeout, PendingTimeout, OtherTimeout, IInv, TypeOK
  <2>2. ~(txRetryCnt[n] < MaxTxRetry)
    BY <1>1, <2>1 DEF StoppedTimeout
  <2>3. txRetryCnt[n] \in 0 .. MaxTxRetry
    BY DEF IInv, TypeOK
  <2>4. MaxTxRetry \in Nat
    BY Bounds
  <2> QED BY <2>2, <2>3, <2>4
<1> QED BY <1>2, <1>3, <1>4, <1>5

(* Before the first character is lost, a telegram leaves the send buffer     *)
(* only when it was the last thing on the wire, complete, or when the        *)
(* retries are used up.  Only its first character may be like its first one, *)
(* which is what bus.c escapes STX for.                                      *)
THEOREM WholeUnlessLost ==
  ASSUME InterChar > 1, Framed
  PROVE  Spec => [][lost = 0 => \A n \in Node : ReleasedWhole(n)]_vars
<1>1. Init => IInv /\ SyncInv /\ RunInv
  BY InitInv, InitSync, InitRun
<1>2. IInv /\ SyncInv /\ RunInv /\ [Next]_vars => (IInv /\ SyncInv /\ RunInv)'
  BY NextInv, NextSync, NextRun
<1>3. IInv /\ SyncInv /\ RunInv /\ [Next]_vars => (lost = 0 => \A n \in Node : ReleasedWhole(n))
  BY Releases DEF ReleasedWhole
<1> QED BY <1>1, <1>2, <1>3, PTL DEF Spec

LEMMA NextNoneLost == MaxLost = 0 /\ lost = 0 /\ [Next]_vars => lost' = 0
<1> SUFFICES ASSUME MaxLost = 0, lost = 0, [Next]_vars PROVE lost' = 0
  OBVIOUS
<1>1. CASE Tick
  <2>1. Transfer
    BY <1>1 DEF Tick
  <2>2. CASE UNCHANGED lost
    BY <2>2
  <2>3. ~(lost < MaxLost)
    OBVIOUS
  <2> QED BY <2>1, <2>2, <2>3, Zenon DEF Transfer
<1>2. CASE UNCHANGED lost
  BY <1>2
<1> QED BY <1>1, <1>2 DEF Next, vars, wire, Isr, BusSend, EI, Timeout, RXComplete, DataRegisterEmpty, TxComplete,
        StartBit, WriteCheck, WriteCopy, SioSendBuffer

(* Released, of a bus whose receivers get every character: right or wrong,   *)
(* in time or late, but none missed.                                         *)
THEOREM OnlyWholeReleased ==
  ASSUME InterChar > 1, Framed, MaxLost = 0
  PROVE  Spec => Released
<1>1. Init => IInv /\ SyncInv /\ RunInv /\ lost = 0
  BY InitInv, InitSync, InitRun DEF Init
<1>2. IInv /\ SyncInv /\ RunInv /\ lost = 0 /\ [Next]_vars => (IInv /\ SyncInv /\ RunInv /\ lost = 0)'
  BY NextInv, NextSync, NextRun, NextNoneLost
<1>3. IInv /\ SyncInv /\ RunInv /\ lost = 0 /\ [Next]_vars => \A n \in Node : ReleasedWhole(n)
  BY Releases DEF ReleasedWhole
<1> QED BY <1>1, <1>2, <1>3, PTL DEF Spec, Released
=============================================================================
