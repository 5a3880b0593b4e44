-------------------------------- MODULE Sio --------------------------------
(***************************************************************************)
(* The link layer of the bus: sio/avr/siosingle.c on every node, the UART  *)
(* and timer hardware it programs and the wire they share.                 *)
(*                                                                         *)
(* One action is one interrupt handler, one uninterrupted piece of the     *)
(* main program, or Tick, the passage of one character time.  Interrupts   *)
(* are served within a character time, so Tick waits for them.  The bus    *)
(* drivers are CAN transceivers (PCA82C250): a 0 bit is dominant, so a jam *)
(* character hides whatever is sent at the same time.                      *)
(***************************************************************************)
EXTENDS Naturals, Sequences

CONSTANTS
  Node,          \* the devices on the bus
  Telegram,      \* Telegram[n]: the characters of the telegram n sends
  Jam, Garbage,  \* the jam character 0; a character of no telegram
  None,          \* no character
  BufSize,       \* capacity of sTxBufferBuffered and of the tx ring
  InterChar,     \* INTERCHAR_TIMEOUT, in character times
  BackoffStep,   \* range of the random delay per retry, 16 in the code
  MaxTxRetry,    \* MAX_TX_RETRY
  MaxJamCnt,     \* MAX_JAM_CNT
  MaxMsgs,       \* bound: telegrams each node sends
  MaxNoise,      \* bound: characters corrupted on the way to one receiver
  MaxLost        \* bound: characters one receiver misses

Char == {Jam, Garbage}
          \cup UNION {{Telegram[n][i] : i \in DOMAIN Telegram[n]} : n \in Node}

ASSUME SioAssumption ==
  /\ \A n \in Node : /\ Telegram[n] \in Seq(Char) /\ Len(Telegram[n]) > 0
                     /\ \A i \in DOMAIN Telegram[n] :
                          Telegram[n][i] # Jam /\ Telegram[n][i] # Garbage
  /\ Jam # Garbage /\ None \notin Char
  /\ InterChar \in Nat \ {0} /\ BackoffStep \in Nat \ {0}
  /\ MaxTxRetry \in Nat \ {0} /\ MaxJamCnt \in Nat \ {0}
  /\ BufSize \in Nat /\ MaxMsgs \in Nat /\ MaxNoise \in Nat /\ MaxLost \in Nat

VARIABLES
  state, txStartup, txRetryCnt, txRxComparePos, txJamCnt, txDelayTicks, \* sComm
  buffered,      \* sTxBufferBuffered; its length is sTxBufBufferedPos
  txBuf,         \* the characters in the ring sTxBuffer
  shift, UDR,    \* the UART's transmit shift register and data register
  begun,         \* the start bit of the character in the shift register is out
  UDRIE, TXCIE,  \* enables of its data register empty / transmit complete interrupts
  TXC,           \* its transmit complete flag
  RXC,           \* the received character whose interrupt is pending, or None
  OCIE, ticks,   \* the timer interrupt's enable; character times to its match
  EIF, EIMSK,    \* the start bit interrupt's flag and enable
  power,         \* the bus driver is powered up
  pc, msgs,      \* where BusSend is; telegrams handed over
  run,           \* observer: run[n] leading characters of n's telegram were last on the wire
  got,           \* observer: got[m][n] of those m put into its rx ring
  excused,       \* observer: excused[n] nodes that sent or were disturbed meanwhile
  noise, lost    \* observer: disturbances so far

rxEnv == <<EIF, EIMSK>>
tmr == <<OCIE, ticks>>
app == <<pc, msgs>>
wire == <<begun, run, excused, noise, lost>>
vars == <<state, txStartup, txRetryCnt, txRxComparePos, txJamCnt, txDelayTicks,
          buffered, txBuf, shift, UDR, UDRIE, TXCIE, TXC, RXC, tmr, rxEnv, power,
          app, wire, got>>

States == {"eIdle", "eRxing", "eTxing", "eTxStopped", "eTxPending", "eTxJamming"}
Delays == InterChar .. InterChar + BackoffStep * MaxTxRetry

TypeOK ==
  /\ state \in [Node -> States]
  /\ txStartup \in [Node -> BOOLEAN]
  /\ txRetryCnt \in [Node -> 0 .. MaxTxRetry]
  /\ txRxComparePos \in [Node -> Nat]
  /\ txJamCnt \in [Node -> 0 .. MaxJamCnt]
  /\ txDelayTicks \in [Node -> Delays]
  /\ buffered \in [Node -> Seq(Char)]
  /\ txBuf \in [Node -> Seq(Char)]
  /\ \A n \in Node : Len(buffered[n]) <= BufSize /\ Len(txBuf[n]) <= BufSize
  /\ shift \in [Node -> Char \cup {None}]
  /\ UDR \in [Node -> Char \cup {None}]
  /\ begun \in [Node -> BOOLEAN]
  /\ UDRIE \in [Node -> BOOLEAN]
  /\ TXCIE \in [Node -> BOOLEAN]
  /\ TXC \in [Node -> BOOLEAN]
  /\ RXC \in [Node -> Char \cup {None}]
  /\ OCIE \in [Node -> BOOLEAN]
  /\ ticks \in [Node -> Nat]
  /\ EIF \in [Node -> BOOLEAN]
  /\ EIMSK \in [Node -> BOOLEAN]
  /\ power \in [Node -> BOOLEAN]
  /\ pc \in [Node -> {"ready", "copy", "send"}]
  /\ msgs \in [Node -> 0 .. MaxMsgs]

-----------------------------------------------------------------------------
(* SioOpen, SioInit: nothing in progress, waiting for a start bit. *)
Init ==
  /\ state = [n \in Node |-> "eIdle"]
  /\ txStartup = [n \in Node |-> FALSE]
  /\ txRetryCnt = [n \in Node |-> 0]
  /\ txRxComparePos = [n \in Node |-> 0]
  /\ txJamCnt = [n \in Node |-> 0]
  /\ txDelayTicks = [n \in Node |-> InterChar]  \* never read before it is written
  /\ buffered = [n \in Node |-> <<>>]
  /\ txBuf = [n \in Node |-> <<>>]
  /\ shift = [n \in Node |-> None]
  /\ UDR = [n \in Node |-> None]
  /\ begun = [n \in Node |-> FALSE]
  /\ UDRIE = [n \in Node |-> FALSE]
  /\ TXCIE = [n \in Node |-> FALSE]
  /\ TXC = [n \in Node |-> FALSE]
  /\ RXC = [n \in Node |-> None]
  /\ OCIE = [n \in Node |-> FALSE]
  /\ ticks = [n \in Node |-> 0]
  /\ EIF = [n \in Node |-> FALSE]
  /\ EIMSK = [n \in Node |-> TRUE]
  /\ power = [n \in Node |-> FALSE]
  /\ pc = [n \in Node |-> "ready"]
  /\ msgs = [n \in Node |-> 0]
  /\ run = [n \in Node |-> 0]
  /\ got = [m \in Node |-> [n \in Node |-> 0]]
  /\ excused = [n \in Node |-> {}]
  /\ noise = 0
  /\ lost = 0

-----------------------------------------------------------------------------
(* Pending interrupts.  The vector order serves a received character before *)
(* the transmitter's interrupts and an empty data register before the       *)
(* transmit complete; the start bit and timer interrupts may come anywhere. *)
EiIrq(n) == EIF[n] /\ EIMSK[n]
TimerIrq(n) == OCIE[n] /\ ticks[n] = 0
RxcIrq(n) == RXC[n] # None
UdreIrq(n) == UDRIE[n] /\ UDR[n] = None
TxcIrq(n) == TXCIE[n] /\ TXC[n]
Irq(n) == EiIrq(n) \/ TimerIrq(n) \/ RxcIrq(n) \/ UdreIrq(n) \/ TxcIrq(n)

(* TimerStart does not clear a match that is already pending when the timer *)
(* interrupt is enabled; TimerStop disables the interrupt.                  *)
TimerStart(n, d) ==
  /\ OCIE' = [OCIE EXCEPT ![n] = TRUE]
  /\ ticks' = [ticks EXCEPT ![n] = IF TimerIrq(n) THEN 0 ELSE d]
TimerStop(n) ==
  /\ OCIE' = [OCIE EXCEPT ![n] = FALSE]
  /\ ticks' = [ticks EXCEPT ![n] = 0]

(* A write to the empty data register goes straight to an idle shift register. *)
WriteUDR(n, c) ==
  IF shift[n] = None
  THEN shift' = [shift EXCEPT ![n] = c] /\ UNCHANGED UDR
  ELSE UDR' = [UDR EXCEPT ![n] = c] /\ UNCHANGED shift

(* Mutant of SendFromIdle: the echo comparison goes on where it was. *)
SendFromIdleOn(n) ==
  LET free == BufSize - Len(txBuf[n])
      len == IF Len(buffered[n]) > free THEN free ELSE Len(buffered[n])
      starts == txBuf[n] = <<>> /\ len > 0
  IN  /\ txRxComparePos' = txRxComparePos
      /\ txBuf' = [txBuf EXCEPT ![n] = @ \o SubSeq(buffered[n], 1, len)]
      /\ txStartup' = [txStartup EXCEPT ![n] = @ \/ starts]
      /\ UDRIE' = [UDRIE EXCEPT ![n] = @ \/ starts]
      /\ TXCIE' = [TXCIE EXCEPT ![n] = @ /\ ~starts]
      /\ power' = [power EXCEPT ![n] = @ \/ starts]

(* SioSendBuffer in eIdle, with Write: the buffered characters enter the tx  *)
(* ring as far as they fit; into an empty ring, the transmitter is started.  *)
SendFromIdle(n) ==
  LET free == BufSize - Len(txBuf[n])
      len == IF Len(buffered[n]) > free THEN free ELSE Len(buffered[n])
      starts == txBuf[n] = <<>> /\ len > 0
  IN  /\ txRxComparePos' = [txRxComparePos EXCEPT ![n] = 0]
      /\ txBuf' = [txBuf EXCEPT ![n] = @ \o SubSeq(buffered[n], 1, len)]
      /\ txStartup' = [txStartup EXCEPT ![n] = @ \/ starts]
      /\ UDRIE' = [UDRIE EXCEPT ![n] = @ \/ starts]
      /\ TXCIE' = [TXCIE EXCEPT ![n] = @ /\ ~starts]
      /\ power' = [power EXCEPT ![n] = @ \/ starts]

-----------------------------------------------------------------------------
(* BusSend, in the main program.  BusSendToBuf hands the telegram over a     *)
(* character at a time, each with a check of the state; BusSendBuf triggers  *)
(* the transmission.  The check is a single access: one instruction of the   *)
(* main program runs between two interrupt handlers, so the first check may  *)
(* come while others are pending.  The rest runs when none is.               *)
WriteCheck(n) ==
  /\ pc[n] = "ready" /\ msgs[n] < MaxMsgs
  /\ state[n] \in {"eIdle", "eRxing"}
  /\ pc' = [pc EXCEPT ![n] = "copy"]
  /\ UNCHANGED <<state, txStartup, txRetryCnt, txRxComparePos, txJamCnt, txDelayTicks,
                 buffered, txBuf, shift, UDR, UDRIE, TXCIE, TXC, RXC, tmr, rxEnv,
                 power, msgs, wire, got>>

(* How many characters are handed over: as many as there is room for, but    *)
(* only the one already checked if a handler has left eIdle and eRxing       *)
(* meanwhile, and perhaps not all if the transmitter may do so any moment.   *)
Copied(n) ==
  LET room == BufSize - Len(buffered[n])
      most == IF Len(Telegram[n]) <= room THEN Len(Telegram[n]) ELSE room
  IN  {k \in 0 .. most : /\ k = 0 => most = 0
                         /\ state[n] \notin {"eIdle", "eRxing"} => k <= 1
                         /\ state[n] \in {"eIdle", "eRxing"} /\ ~UDRIE[n] => k = most}

(* What was handed over stays in the buffer even if BusSend reports an error. *)
WriteCopy(n) ==
  /\ pc[n] = "copy" /\ ~Irq(n)
  /\ \E k \in Copied(n) :
       /\ buffered' = [buffered EXCEPT ![n] = @ \o SubSeq(Telegram[n], 1, k)]
       /\ pc' = [pc EXCEPT ![n] = IF k = Len(Telegram[n]) THEN "send" ELSE "ready"]
  /\ UNCHANGED <<state, txStartup, txRetryCnt, txRxComparePos, txJamCnt, txDelayTicks,
                 txBuf, shift, UDR, UDRIE, TXCIE, TXC, RXC, tmr, rxEnv, power, msgs,
                 wire, got>>

SioSendBuffer(n) ==
  /\ pc[n] = "send" /\ ~Irq(n)
  /\ pc' = [pc EXCEPT ![n] = "ready"]
  /\ \/ /\ state[n] = "eIdle"
        /\ SendFromIdle(n)
        /\ msgs' = [msgs EXCEPT ![n] = @ + 1]
        /\ UNCHANGED <<state, txDelayTicks>>
     \/ /\ state[n] = "eRxing"
        /\ txDelayTicks' = [txDelayTicks EXCEPT ![n] = InterChar]
        /\ state' = [state EXCEPT ![n] = "eTxPending"]
        /\ msgs' = [msgs EXCEPT ![n] = @ + 1]
        /\ UNCHANGED <<txStartup, txRxComparePos, txBuf, UDRIE, TXCIE, power>>
     \/ /\ state[n] \notin {"eIdle", "eRxing"}
        /\ UNCHANGED <<state, txDelayTicks, txStartup, txRxComparePos, txBuf, UDRIE,
                       TXCIE, power, msgs>>
  /\ UNCHANGED <<txRetryCnt, txJamCnt, buffered, shift, UDR, TXC, RXC, tmr, rxEnv,
                 wire, got>>

-----------------------------------------------------------------------------
(* ISR(SIO_EI_VEC): a start bit. *)
EI(n) ==
  /\ EiIrq(n)
  /\ EIF' = [EIF EXCEPT ![n] = FALSE]
  /\ EIMSK' = [EIMSK EXCEPT ![n] = FALSE]
  /\ IF state[n] = "eIdle"
     THEN /\ state' = [state EXCEPT ![n] = "eRxing"]
          /\ TimerStart(n, InterChar)
     ELSE UNCHANGED <<state, tmr>>
  /\ UNCHANGED <<txStartup, txRetryCnt, txRxComparePos, txJamCnt, txDelayTicks, buffered,
                 txBuf, shift, UDR, UDRIE, TXCIE, TXC, RXC, power, app, wire, got>>

(* Timeout, by state. *)
RxTimeout(n) ==
  /\ state[n] = "eRxing"
  /\ state' = [state EXCEPT ![n] = "eIdle"]
  /\ TimerStop(n)
  /\ EIF' = [EIF EXCEPT ![n] = FALSE]
  /\ EIMSK' = [EIMSK EXCEPT ![n] = TRUE]
  /\ UNCHANGED <<txStartup, txRetryCnt, txRxComparePos, txDelayTicks, buffered, txBuf,
                 UDRIE, TXCIE, power>>

(* After a jam: wait a random time, or give the telegram up. *)
StoppedTimeout(n) ==
  /\ state[n] = "eTxStopped"
  /\ IF txRetryCnt[n] < MaxTxRetry
     THEN \E r \in 0 .. txRetryCnt[n] * BackoffStep - 1 :
            /\ state' = [state EXCEPT ![n] = "eTxPending"]
            /\ txDelayTicks' = [txDelayTicks EXCEPT ![n] = InterChar + r]
            /\ ticks' = [ticks EXCEPT ![n] = InterChar + r]
            /\ UNCHANGED <<OCIE, txRetryCnt, buffered>>
     ELSE /\ buffered' = [buffered EXCEPT ![n] = <<>>]
          /\ txRetryCnt' = [txRetryCnt EXCEPT ![n] = 0]
          /\ TimerStop(n)
          /\ UNCHANGED <<state, txDelayTicks>>
  /\ UNCHANGED <<txStartup, txRxComparePos, txBuf, UDRIE, TXCIE, rxEnv, power>>

(* Mutant of PendingTimeout: the telegram is not sent. *)
PendingForget(n) ==
  /\ state[n] = "eTxPending"
  /\ state' = [state EXCEPT ![n] = "eIdle"]
  /\ TimerStop(n)
  /\ UNCHANGED <<txRetryCnt, txDelayTicks, buffered, rxEnv, txRxComparePos, txBuf,
                 txStartup, UDRIE, TXCIE, power>>

PendingTimeout(n) ==
  /\ state[n] = "eTxPending"
  /\ state' = [state EXCEPT ![n] = "eIdle"]
  /\ SendFromIdle(n)
  /\ TimerStop(n)
  /\ UNCHANGED <<txRetryCnt, txDelayTicks, buffered, rxEnv>>

OtherTimeout(n) ==
  /\ state[n] \in {"eIdle", "eTxing", "eTxJamming"}
  /\ state' = [state EXCEPT ![n] = "eIdle"]
  /\ TimerStop(n)
  /\ UNCHANGED <<txStartup, txRetryCnt, txRxComparePos, txDelayTicks, buffered, txBuf,
                 UDRIE, TXCIE, rxEnv, power>>

Timeout(n) ==
  /\ TimerIrq(n)
  /\ RxTimeout(n) \/ StoppedTimeout(n) \/ PendingTimeout(n) \/ OtherTimeout(n)
  /\ UNCHANGED <<txJamCnt, shift, UDR, TXC, RXC, app, wire, got>>

-----------------------------------------------------------------------------
(* Characters of n's telegram seen in order up to and including c. *)
Advance(k, n, c) ==
  IF k < Len(Telegram[n]) /\ c = Telegram[n][k + 1] THEN k + 1
  ELSE IF c = Telegram[n][1] THEN 1 ELSE 0

(* Mutant of Echo: nothing is compared. *)
EchoAny(n) == TRUE

(* ISR(SIO_RXC_INT_VEC), by state.  In eTxing the character is compared with *)
(* the next one of the send buffer; what lies behind its end is old data,   *)
(* which may match or not.                                                  *)
Echo(n) ==
  txRxComparePos[n] < Len(buffered[n]) => RXC[n] = buffered[n][txRxComparePos[n] + 1]
NoEcho(n) ==
  txRxComparePos[n] < Len(buffered[n]) => RXC[n] # buffered[n][txRxComparePos[n] + 1]

RxEcho(n) ==
  /\ state[n] = "eTxing" /\ Echo(n)
  /\ txRxComparePos' = [txRxComparePos EXCEPT ![n] = @ + 1]
  /\ IF txRxComparePos[n] + 1 = Len(buffered[n])
     THEN /\ buffered' = [buffered EXCEPT ![n] = <<>>]
          /\ txRetryCnt' = [txRetryCnt EXCEPT ![n] = 0]
          /\ TimerStop(n)
     ELSE /\ TimerStart(n, InterChar)
          /\ UNCHANGED <<buffered, txRetryCnt>>
  /\ UNCHANGED <<state, txJamCnt, txBuf, shift, UDR, TXC, got>>

(* The jam character goes out next if the transmitter has just run empty.   *)
(* (If the handler comes late, the transmit complete flag is already set.)  *)
(* Otherwise it is lost if the data register is still occupied.             *)
RxCollision(n) ==
  /\ state[n] = "eTxing" /\ NoEcho(n)
  /\ state' = [state EXCEPT ![n] = "eTxJamming"]
  /\ TimerStop(n)
  /\ txBuf' = [txBuf EXCEPT ![n] = <<>>]
  /\ txRetryCnt' = [txRetryCnt EXCEPT ![n] = @ + 1]
  /\ txJamCnt' = [txJamCnt EXCEPT ![n] = 0]
  /\ \/ /\ WriteUDR(n, Jam)
        /\ \/ shift[n] = None /\ TXC' = [TXC EXCEPT ![n] = FALSE]
           \/ UNCHANGED TXC
     \/ /\ shift[n] # None
        /\ UNCHANGED <<shift, UDR, TXC>>
  /\ UNCHANGED <<txRxComparePos, buffered, got>>

RxDiscard(n) ==
  /\ state[n] \in {"eTxJamming", "eTxStopped"}
  /\ IF state[n] = "eTxJamming" THEN TimerStop(n) ELSE UNCHANGED tmr
  /\ UNCHANGED <<state, txRxComparePos, buffered, txRetryCnt, txJamCnt, txBuf, shift,
                 UDR, TXC, got>>

(* Mutant of RxAccept: a node that waits to send drops what it receives. *)
RxAcceptDeaf(n) ==
  /\ IF state[n] = "eTxPending"
     THEN TimerStart(n, txDelayTicks[n]) /\ UNCHANGED <<state, got>>
     ELSE /\ state[n] \in {"eIdle", "eRxing"}
          /\ TimerStart(n, InterChar)
          /\ state' = [state EXCEPT ![n] = "eRxing"]
          /\ got' = [got EXCEPT ![n] = [k \in Node |-> Advance(@[k], k, RXC[n])]]
  /\ UNCHANGED <<txRxComparePos, buffered, txRetryCnt, txJamCnt, txBuf, shift, UDR,
                 TXC>>

RxAccept(n) ==
  /\ IF state[n] = "eTxPending"
     THEN TimerStart(n, txDelayTicks[n]) /\ UNCHANGED state
     ELSE /\ state[n] \in {"eIdle", "eRxing"}
          /\ TimerStart(n, InterChar)
          /\ state' = [state EXCEPT ![n] = "eRxing"]
  /\ got' = [got EXCEPT ![n] = [k \in Node |-> Advance(@[k], k, RXC[n])]]
  /\ UNCHANGED <<txRxComparePos, buffered, txRetryCnt, txJamCnt, txBuf, shift, UDR,
                 TXC>>

RXComplete(n) ==
  /\ RxcIrq(n)
  /\ RXC' = [RXC EXCEPT ![n] = None]
  /\ RxEcho(n) \/ RxCollision(n) \/ RxDiscard(n) \/ RxAccept(n)
  /\ UNCHANGED <<txStartup, txDelayTicks, UDRIE, TXCIE, rxEnv, power, app, wire>>

-----------------------------------------------------------------------------
(* Mutant of SendJam: one jam character too many is counted. *)
SendJamLong(n) ==
  /\ state[n] = "eTxJamming"
  /\ txJamCnt' = [txJamCnt EXCEPT ![n] = @ + 1]
  /\ IF txJamCnt[n] < MaxJamCnt
     THEN WriteUDR(n, Jam) /\ UNCHANGED <<TXCIE, UDRIE>>
     ELSE /\ TXCIE' = [TXCIE EXCEPT ![n] = TRUE]
          /\ UDRIE' = [UDRIE EXCEPT ![n] = FALSE]
          /\ UNCHANGED <<shift, UDR>>
  /\ UNCHANGED <<state, txStartup, txDelayTicks, txBuf, TXC, tmr, EIF>>

(* ISR(SIO_UDRE_INT_VEC). *)
SendJam(n) ==
  /\ state[n] = "eTxJamming"
  /\ txJamCnt' = [txJamCnt EXCEPT ![n] = @ + 1]
  /\ IF txJamCnt[n] + 1 < MaxJamCnt
     THEN WriteUDR(n, Jam) /\ UNCHANGED <<TXCIE, UDRIE>>
     ELSE /\ TXCIE' = [TXCIE EXCEPT ![n] = TRUE]
          /\ UDRIE' = [UDRIE EXCEPT ![n] = FALSE]
          /\ UNCHANGED <<shift, UDR>>
  /\ UNCHANGED <<state, txStartup, txDelayTicks, txBuf, TXC, tmr, EIF>>

(* Mutant of Postpone: waits without a timer. *)
PostponeUntimed(n) ==
  /\ state' = [state EXCEPT ![n] = "eTxPending"]
  /\ txDelayTicks' = [txDelayTicks EXCEPT ![n] = InterChar]
  /\ txBuf' = [txBuf EXCEPT ![n] = <<>>]
  /\ UDRIE' = [UDRIE EXCEPT ![n] = FALSE]
  /\ UNCHANGED tmr

(* A reception, or a start bit since the transmission was triggered, comes   *)
(* first: the ring is dropped and the telegram waits in the send buffer.     *)
Postpone(n) ==
  /\ state' = [state EXCEPT ![n] = "eTxPending"]
  /\ txDelayTicks' = [txDelayTicks EXCEPT ![n] = InterChar]
  /\ TimerStart(n, InterChar)
  /\ txBuf' = [txBuf EXCEPT ![n] = <<>>]
  /\ UDRIE' = [UDRIE EXCEPT ![n] = FALSE]

Defer(n) ==
  /\ state[n] # "eTxJamming" /\ txBuf[n] # <<>>
  /\ \/ state[n] = "eRxing" /\ UNCHANGED <<txStartup, EIF>>
     \/ /\ state[n] # "eRxing" /\ txStartup[n] /\ EIF[n]
        /\ txStartup' = [txStartup EXCEPT ![n] = FALSE]
        /\ EIF' = [EIF EXCEPT ![n] = FALSE]
  /\ Postpone(n)
  /\ UNCHANGED <<txJamCnt, TXCIE, shift, UDR, TXC>>

SendNext(n) ==
  /\ state[n] \notin {"eTxJamming", "eRxing"} /\ txBuf[n] # <<>>
  /\ txStartup[n] => ~EIF[n]
  /\ txStartup' = [txStartup EXCEPT ![n] = FALSE]
  /\ WriteUDR(n, Head(txBuf[n]))
  /\ txBuf' = [txBuf EXCEPT ![n] = Tail(@)]
  /\ state' = [state EXCEPT ![n] = "eTxing"]
  /\ TXC' = [TXC EXCEPT ![n] = FALSE]
  /\ UNCHANGED <<txJamCnt, txDelayTicks, UDRIE, TXCIE, tmr, EIF>>

(* Mutant of LastChar: the transmit complete interrupt stays disabled. *)
LastCharSilent(n) ==
  /\ state[n] # "eTxJamming" /\ txBuf[n] = <<>>
  /\ UDRIE' = [UDRIE EXCEPT ![n] = FALSE]
  /\ UNCHANGED <<state, txStartup, txJamCnt, txDelayTicks, txBuf, shift, UDR, TXCIE,
                 TXC, EIF, tmr>>

LastChar(n) ==
  /\ state[n] # "eTxJamming" /\ txBuf[n] = <<>>
  /\ TXCIE' = [TXCIE EXCEPT ![n] = TRUE]
  /\ UDRIE' = [UDRIE EXCEPT ![n] = FALSE]
  /\ UNCHANGED <<state, txStartup, txJamCnt, txDelayTicks, txBuf, shift, UDR, TXC, EIF,
                 tmr>>

DataRegisterEmpty(n) ==
  /\ UdreIrq(n) /\ ~RxcIrq(n)
  /\ SendJam(n) \/ Defer(n) \/ SendNext(n) \/ LastChar(n)
  /\ UNCHANGED <<txRetryCnt, txRxComparePos, buffered, RXC, EIMSK, power, app, wire, got>>

(* ISR(SIO_TXC_INT_VEC).  The store to EIFR compares instead of shifting, so *)
(* it does not clear the start bit flag.                                     *)
TxComplete(n) ==
  /\ TxcIrq(n) /\ ~RxcIrq(n) /\ ~UdreIrq(n)
  /\ TXC' = [TXC EXCEPT ![n] = FALSE]
  /\ TXCIE' = [TXCIE EXCEPT ![n] = FALSE]
  /\ power' = [power EXCEPT ![n] = FALSE]
  /\ IF state[n] = "eTxJamming"
     THEN /\ state' = [state EXCEPT ![n] = "eTxStopped"]
          /\ TimerStart(n, InterChar)
          /\ UNCHANGED EIMSK
     ELSE /\ state' = [state EXCEPT ![n] = "eIdle"]
          /\ EIMSK' = [EIMSK EXCEPT ![n] = TRUE]
          /\ UNCHANGED tmr
  /\ UNCHANGED <<txStartup, txRetryCnt, txRxComparePos, txJamCnt, txDelayTicks, buffered,
                 txBuf, shift, UDR, UDRIE, RXC, EIF, app, wire, got>>

-----------------------------------------------------------------------------
(* The UART sends the start bit of a character up to a bit time after it was *)
(* written; from then on every node can see it.                              *)
StartBit(n) ==
  /\ shift[n] # None /\ ~begun[n]
  /\ begun' = [begun EXCEPT ![n] = TRUE]
  /\ EIF' = IF power[n] THEN [m \in Node |-> TRUE] ELSE EIF
  /\ UNCHANGED <<state, txStartup, txRetryCnt, txRxComparePos, txJamCnt, txDelayTicks,
                 buffered, txBuf, shift, UDR, UDRIE, TXCIE, TXC, RXC, tmr, EIMSK, power,
                 app, run, excused, noise, lost, got>>

(* A character time passes.  What the powered transmitters send is joined on *)
(* the wire; one receiver may get it wrong or miss it.                       *)
Driving == {n \in Node : shift[n] # None /\ power[n]}

OnWire ==
  LET sent == {shift[n] : n \in Driving}
  IN  IF Jam \in sent THEN {Jam}
      ELSE IF \E c \in sent : sent = {c} THEN sent ELSE sent \cup {Garbage}

Received(v, hurt) ==
  /\ RXC' \in {[m \in Node |-> IF m \in hurt THEN c ELSE v] : c \in {Garbage, None}}
  /\ run' = [n \in Node |-> Advance(run[n], n, v)]
  /\ excused' = [n \in Node |->
       (IF Advance(run[n], n, v) < 2 THEN {} ELSE excused[n]) \cup (Driving \ {n}) \cup hurt]

Transfer ==
  IF Driving = {} THEN UNCHANGED <<RXC, run, excused, noise, lost>>
  ELSE \E v \in OnWire :
         \/ Received(v, {}) /\ UNCHANGED <<noise, lost>>
         \/ \E m \in Node :
              /\ Received(v, {m})
              /\ IF RXC'[m] = None
                 THEN lost < MaxLost /\ lost' = lost + 1 /\ UNCHANGED noise
                 ELSE noise < MaxNoise /\ noise' = noise + 1 /\ UNCHANGED lost

(* The next character's start bit, or another falling edge in this one, sets *)
(* the start bit flags.                                                      *)
Edges ==
  IF \E n \in Node : UDR[n] # None /\ power[n] THEN EIF' = [n \in Node |-> TRUE]
  ELSE \/ UNCHANGED EIF
       \/ Driving # {} /\ EIF' = [n \in Node |-> TRUE]

Tick ==
  /\ \A n \in Node : ~Irq(n) /\ pc[n] # "copy" /\ (shift[n] # None => begun[n])
  /\ Transfer
  /\ Edges
  /\ shift' = UDR
  /\ UDR' = [n \in Node |-> None]
  /\ begun' = [n \in Node |-> UDR[n] # None]
  /\ TXC' = [n \in Node |-> TXC[n] \/ (shift[n] # None /\ UDR[n] = None)]
  /\ ticks' = [n \in Node |-> IF OCIE[n] THEN ticks[n] - 1 ELSE 0]
  /\ UNCHANGED <<state, txStartup, txRetryCnt, txRxComparePos, txJamCnt, txDelayTicks,
                 buffered, txBuf, UDRIE, TXCIE, OCIE, EIMSK, power, app, got>>

-----------------------------------------------------------------------------
Isr(n) ==
  EI(n) \/ Timeout(n) \/ RXComplete(n) \/ DataRegisterEmpty(n) \/ TxComplete(n)
BusSend(n) == WriteCheck(n) \/ WriteCopy(n) \/ SioSendBuffer(n)
Next == Tick \/ \E n \in Node : Isr(n) \/ StartBit(n) \/ BusSend(n)
Spec == Init /\ [][Next]_vars

(* Interrupts are served, time passes, and BusSend returns once called. *)
Fairness ==
  /\ WF_vars(Tick)
  /\ \A n \in Node : /\ WF_vars(Isr(n)) /\ WF_vars(StartBit(n))
                     /\ WF_vars(WriteCopy(n)) /\ WF_vars(SioSendBuffer(n))

FairSpec == Spec /\ Fairness

-----------------------------------------------------------------------------
(* A node that has used up its retries stays in eTxStopped without a timer. *)
Mute(n) == state[n] = "eTxStopped" /\ ~OCIE[n]

(* No node waits for a timer that is not running: while it receives, waits  *)
(* to send, or has stopped after a jam (unless it gave the telegram up).    *)
TimerRuns ==
  \A n \in Node :
    /\ state[n] \in {"eRxing", "eTxPending"} => OCIE[n]
    /\ Mute(n) => buffered[n] = <<>> /\ txRetryCnt[n] = 0

(* No node waits for a transmitter interrupt that is not enabled. *)
TransmitterRuns ==
  \A n \in Node : state[n] \in {"eTxing", "eTxJamming"} => UDRIE[n] \/ TXCIE[n]

(* A telegram that was on the wire unharmed was put into the rx buffer of    *)
(* every node that neither sent itself nor was disturbed meanwhile and is    *)
(* not mute.  (A lost character is another matter: the node that missed its  *)
(* own keeps the telegram and puts it in front of the next one.)             *)
Delivered ==
  lost = 0 /\ (\A n \in Node : ~Irq(n)) =>
     \A n \in Node : run[n] = Len(Telegram[n]) =>
        \A m \in Node \ ({n} \cup excused[n]) : ~Mute(m) => got[m][n] = Len(Telegram[n])

(* What the transmitter still holds, what of n's telegram follows its first i *)
(* characters, and whether an echo has yet to be compared.                    *)
InTransmitter(n) ==
  LET Held(c) == IF c = None THEN <<>> ELSE <<c>>
  IN  Held(shift[n]) \o Held(UDR[n]) \o txBuf[n]
Rest(n, i) == SubSeq(Telegram[n], i + 1, Len(Telegram[n]))
Here(n) == IF RXC[n] = None THEN 0 ELSE 1

(* The echo comparison keeps in step with the transmitter: what is still to  *)
(* be sent of the telegram is what is still to be compared, as long as no    *)
(* character was lost.                                                       *)
InStep ==
  \A n \in Node :
     lost = 0 /\ state[n] = "eTxing" /\ buffered[n] = Telegram[n] =>
       InTransmitter(n) = Rest(n, txRxComparePos[n] + Here(n))

(* A telegram leaves the send buffer only when it was the last thing on the *)
(* wire, complete, or when the retries are used up.                         *)
ReleasedWhole(n) ==
  buffered[n] = Telegram[n] /\ buffered'[n] = <<>> =>
    run[n] = Len(Telegram[n]) \/ txRetryCnt[n] = MaxTxRetry
Released == [][\A n \in Node : ReleasedWhole(n)]_vars

(* Every telegram handed to the sio leaves the send buffer, unless a         *)
(* character was lost.                                                       *)
Flushed == \A n \in Node : buffered[n] # <<>> ~> buffered[n] = <<>> \/ lost > 0

(* After skipping a telegram the node takes part in the bus again. *)
Resumed == \A n \in Node : state[n] = "eTxStopped" ~> state[n] # "eTxStopped"
=============================================================================
