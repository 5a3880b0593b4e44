-------------------------------- MODULE BusRx --------------------------------
(***************************************************************************)
(* The telegram layer, bus/bus.c: a sender frames telegrams, characters    *)
(* are corrupted, lost or added on the way, and the receiver takes what is *)
(* left out of its receive queue (RxFifo), a few characters at a time.     *)
(* The queue holds numbers of characters; log says which they are.         *)
(***************************************************************************)
EXTENDS RxFifo

CONSTANTS
  Telegrams,   \* telegrams that are sent, sequences of bytes as in TBusTelegram
  Garbage,     \* what a corrupted character looks like, and what noise is
  MaxRead,     \* BUS_SIO_RX_BUF_SIZE
  MaxSent,     \* bound: telegrams
  MaxFaults    \* bound: corrupted, lost and added characters

Byte == 0 .. 255

ASSUME BusRxAssumption ==
  /\ Telegrams \subseteq Seq(Byte) /\ Garbage \subseteq Byte
  /\ MaxRead \in Nat \ {0} /\ MaxSent \in Nat /\ MaxFaults \in Nat

STX == 2
ESC == 27
CHECKSUM_START == 85
eBusDevStartup == 255
Inverted(ch) == 255 - ch

VARIABLES
  sending,     \* characters that are still to be sent of the current telegram
  sent, faults,\* how many telegrams, corrupted, lost and added characters there were
  log,         \* log[i]: the i-th character that arrived
  decoder,     \* the static variables of BusDecode, sL2State and sRxBuffer
  ret,         \* what BusCheck returns while nothing arrives
  accepted     \* observer: telegrams for which BusCheck returned BUS_MSG_OK, and
               \* how many characters had been used then

busVars == <<sending, sent, faults, log, decoder, ret, accepted>>
vars == <<fifoVars, busVars>>

-----------------------------------------------------------------------------
(* sTelegramSize: types with a constant length, with one that depends on the *)
(* device type at an offset, and with one that is in the telegram itself.    *)
Listed(pairs) == [x \in {p[1] : p \in pairs} |-> (CHOOSE p \in pairs : p[1] = x)[2]]
Const(len) == [kind |-> "const", len |-> len]
DevType(lens) == [kind |-> "devType", offset |-> 3, lens |-> Listed(lens)]
Direct(offset, add) == [kind |-> "direct", offset |-> offset, add |-> add]

ValueLens == {<<0, 23>>, <<1, 5>>, <<2, 7>>, <<3, 5>>, <<4, 9>>, <<5, 6>>, <<7, 36>>,
              <<8, 13>>, <<9, 36>>, <<10, 38>>, <<11, 5>>, <<13, 5>>}

sTelegramSize ==
  [t \in 0 .. 50 |->
     CASE t \in 0 .. 3 -> Const(2)
       [] t \in {10, 17, 18, 23, 26, 37, 38, 45} -> Const(4)
       [] t \in {8, 25, 35, 36, 48} -> Const(5)
       [] t = 27 -> Const(6)
       [] t = 49 -> Const(7)
       [] t \in {42, 43} -> Const(12)
       [] t \in {19, 22} -> Const(19)
       [] t = 40 -> Const(36)
       [] t = 7 -> Const(37)
       [] t = 50 -> Const(40)
       [] t = 12 -> DevType({<<0, 50>>} \cup ((1 .. 13) \X {20}))
       [] t = 13 -> DevType({<<0, 16>>})
       [] t = 16 -> DevType({<<0, 12>>, <<1, 5>>})
       [] t = 29 -> DevType({<<0, 27>>, <<1, 6>>, <<4, 8>>, <<7, 36>>, <<8, 13>>, <<10, 40>>,
                             <<12, 5>>})
       [] t = 32 -> DevType(ValueLens \cup {<<12, 5>>})
       [] t \in {33, 34} -> DevType(ValueLens)
       [] t = 46 -> Direct(5, 6)
       [] t = 47 -> Direct(4, 5)
       [] OTHER -> Const(3)]

SizeOf(type) == sTelegramSize[IF type = eBusDevStartup THEN 0 ELSE type]
Known(type) == type = eBusDevStartup \/ type \in DOMAIN sTelegramSize

(* The checksum over characters that are not stuffed. *)
Sum(s) ==
  LET sum[i \in 0 .. Len(s)] == IF i = 0 THEN CHECKSUM_START ELSE (sum[i - 1] + s[i]) % 256
  IN  sum[Len(s)]

(* BusSendToBuf: the length of a telegram. *)
LengthOf(msg) ==
  LET size == SizeOf(msg[2])
  IN  CASE size.kind = "const" -> size.len
        [] size.kind = "devType" -> size.lens[msg[size.offset + 1]]
        [] size.kind = "direct" -> (msg[size.offset + 1] + size.add) % 256

(* TransmitCharProt *)
Stuffed(ch) == IF ch \in {STX, ESC} THEN <<ESC, Inverted(ch)>> ELSE <<ch>>

(* BusSendToBuf: what is sent of a telegram, and its characters on the bus. *)
Checked(msg) ==
  LET chars == SubSeq(msg, 1, LengthOf(msg)) IN Append(chars, Sum(<<STX>> \o chars))

Encoded(msg) ==
  LET code[i \in 0 .. Len(Checked(msg))] ==
        IF i = 0 THEN <<STX>> ELSE code[i - 1] \o Stuffed(Checked(msg)[i])
  IN  code[Len(Checked(msg))]

(* A telegram that BusSendToBuf does not reject, its length not truncated. *)
Sendable(msg) ==
  LET size == SizeOf(msg[2])
  IN  /\ Len(msg) > 1 /\ Known(msg[2])
      /\ size.kind # "const" => Len(msg) > size.offset
      /\ size.kind = "devType" => msg[size.offset + 1] \in DOMAIN size.lens
      /\ Len(msg) = LengthOf(msg)

ASSUME TelegramsAssumption == \A msg \in Telegrams : Sendable(msg)

-----------------------------------------------------------------------------
(* The decoder: rc and used are local variables of BusDecode, skip says that *)
(* it looks for the next STX.                                                *)
Idle == [l1 |-> "WAIT_FOR_STX", sum |-> 0, stuff |-> FALSE, l2 |-> "WAIT_FOR_SENDER_ADDR",
         last |-> 255, msg |-> <<>>]

(* L2StateMachine: the decoder after a character of a telegram. *)
InProgress(d) == [d EXCEPT !.l2 = "WAIT_FOR_MSG"]
Complete(d) == [d EXCEPT !.l1 = "WAIT_FOR_CHECKSUM", !.l2 = "WAIT_FOR_SENDER_ADDR"]
Error(d) == [d EXCEPT !.rc = "BUS_MSG_ERROR"]

L2Type(d, ch) ==
  LET e == [d EXCEPT !.msg = Append(@, ch), !.last = 0]
  IN  CASE ~Known(ch) -> Error(e)
        [] Known(ch) /\ SizeOf(ch).kind = "const" ->
             LET f == [e EXCEPT !.last = SizeOf(ch).len - 1]
             IN  IF f.last = 1 THEN Complete(f) ELSE InProgress(f)
        [] OTHER -> InProgress(e)

L2Msg(d, ch) ==
  LET chIdx == Len(d.msg)
      e == [d EXCEPT !.msg = Append(@, ch)]
      size == SizeOf(d.msg[2])
  IN  IF chIdx = d.last THEN Complete(e)
      ELSE IF size.kind = "devType" /\ chIdx = size.offset
      THEN IF ch \in DOMAIN size.lens THEN [e EXCEPT !.last = size.lens[ch] - 1] ELSE Error(e)
      ELSE IF size.kind = "direct" /\ chIdx = size.offset
      THEN LET f == [e EXCEPT !.last = (ch + size.add - 1) % 256]
           IN  IF f.last = chIdx THEN Complete(f) ELSE f
      ELSE e

L2StateMachine(d, ch) ==
  CASE d.l2 = "WAIT_FOR_SENDER_ADDR" ->
         [d EXCEPT !.msg = <<ch>>, !.last = 255, !.l2 = "WAIT_FOR_TYPE"]
    [] d.l2 = "WAIT_FOR_TYPE" -> L2Type(d, ch)
    [] d.l2 = "WAIT_FOR_MSG" -> L2Msg(d, ch)

(* One character in each state of BusDecode. *)
WaitForSTX(d, ch) ==
  IF ch = STX
  THEN [d EXCEPT !.l1 = "RX_MSG", !.sum = Sum(<<STX>>), !.stuff = FALSE]
  ELSE [Error(d) EXCEPT !.skip = TRUE]

RxMsg(d, ch) ==
  LET e == L2StateMachine(d, ch) IN [e EXCEPT !.sum = (@ + ch) % 256]

WaitForChecksum(d, ch) ==
  [d EXCEPT !.rc = IF ch = d.sum THEN "BUS_MSG_OK" ELSE "BUS_MSG_ERROR"]

(* A character of a telegram that has begun, except an unexpected STX. *)
Started(d, c) ==
  LET ch == IF d.stuff THEN Inverted(c) ELSE c
      e == [d EXCEPT !.stuff = FALSE]
  IN  IF c = ESC THEN [d EXCEPT !.stuff = TRUE]
      ELSE IF d.l1 = "RX_MSG" THEN RxMsg(e, ch) ELSE WaitForChecksum(e, ch)

(* Mutant of Consume: the unexpected STX is used up. *)
ConsumeSTX(d, c) ==
  LET e == [d EXCEPT !.used = @ + 1]
  IN  IF d.rc # "BUS_MSG_RXING"
      THEN IF d.skip /\ c # STX THEN e ELSE [d EXCEPT !.skip = FALSE]
      ELSE IF d.l1 = "WAIT_FOR_STX" THEN WaitForSTX(e, c)
      ELSE IF c = STX THEN Error(e)
      ELSE Started(e, c)

(* Mutant of Consume: the checksum is not checked for an unexpected STX. *)
ConsumeChecksum(d, c) ==
  LET e == [d EXCEPT !.used = @ + 1]
  IN  IF d.rc # "BUS_MSG_RXING"
      THEN IF d.skip /\ c # STX THEN e ELSE [d EXCEPT !.skip = FALSE]
      ELSE IF d.l1 = "WAIT_FOR_STX" THEN WaitForSTX(e, c)
      ELSE IF c = STX /\ d.l1 = "RX_MSG" THEN Error(d)
      ELSE Started(e, c)

(* The loop of BusDecode: a telegram or an error ends it, after which only *)
(* what precedes the next STX may still be skipped.                        *)
Consume(d, c) ==
  LET e == [d EXCEPT !.used = @ + 1]
  IN  IF d.rc # "BUS_MSG_RXING"
      THEN IF d.skip /\ c # STX THEN e ELSE [d EXCEPT !.skip = FALSE]
      ELSE IF d.l1 = "WAIT_FOR_STX" THEN WaitForSTX(e, c)
      ELSE IF c = STX THEN Error(d)
      ELSE Started(e, c)

Start == [l1 |-> decoder.l1, sum |-> decoder.sum, stuff |-> decoder.stuff, l2 |-> decoder.l2,
          last |-> decoder.last, msg |-> decoder.msg,
          rc |-> "BUS_MSG_RXING", used |-> 0, skip |-> FALSE]

Decoded(chars) ==
  LET after[i \in 0 .. Len(chars)] ==
        IF i = 0 THEN Start ELSE Consume(after[i - 1], chars[i])
  IN  after[Len(chars)]

Statics(d) == [l1 |-> d.l1, sum |-> d.sum, stuff |-> d.stuff, l2 |-> d.l2, last |-> d.last,
               msg |-> d.msg]

(* Mutant of Kept: L2StateInit is not called after an error. *)
KeptL2(d) ==
  LET e == Statics(d)
  IN  IF d.rc = "BUS_MSG_RXING" THEN e ELSE [e EXCEPT !.l1 = "WAIT_FOR_STX"]

(* The static variables after BusDecode. *)
Kept(d) ==
  LET e == Statics(d)
  IN  CASE d.rc = "BUS_MSG_RXING" -> e
        [] d.rc = "BUS_MSG_OK" -> [e EXCEPT !.l1 = "WAIT_FOR_STX"]
        [] d.rc = "BUS_MSG_ERROR" ->
             [e EXCEPT !.l1 = "WAIT_FOR_STX", !.l2 = "WAIT_FOR_SENDER_ADDR", !.last = 255]

-----------------------------------------------------------------------------
Init ==
  /\ FifoInit
  /\ sending = <<>> /\ sent = 0 /\ faults = 0 /\ log = <<>>
  /\ decoder = Idle /\ ret = "BUS_NO_MSG" /\ accepted = <<>>

(* BusSend of some node. *)
BusSend ==
  /\ sending = <<>>
  /\ sent < MaxSent /\ sent' = sent + 1
  /\ \E msg \in Telegrams : sending' = Encoded(msg)
  /\ UNCHANGED <<fifoVars, faults, log, decoder, ret, accepted>>

(* The receive interrupt stores a character. *)
Arrive(ch) == Put /\ log' = Append(log, ch)

(* A character arrives as it was sent. *)
Transmit ==
  /\ sending # <<>>
  /\ Arrive(Head(sending))
  /\ sending' = Tail(sending)
  /\ UNCHANGED <<sent, faults, decoder, ret, accepted>>

(* It arrives as another one or not at all, or there is one too many. *)
Disturb ==
  /\ faults < MaxFaults /\ faults' = faults + 1
  /\ \/ /\ sending # <<>> /\ sending' = Tail(sending)
        /\ \/ \E ch \in Garbage \ {Head(sending)} : Arrive(ch)
           \/ UNCHANGED <<fifoVars, log>>
     \/ /\ UNCHANGED sending
        /\ \E ch \in Garbage : Arrive(ch)
  /\ UNCHANGED <<sent, decoder, ret, accepted>>

(* BusCheck up to SioRead. *)
BusCheck ==
  /\ Take /\ Len(held') = IF Len(q) < MaxRead THEN Len(q) ELSE MaxRead
  /\ UNCHANGED busVars

(* The rest of BusDecode and of BusCheck; the main program takes a complete *)
(* telegram from the buffer before it calls BusCheck again.                 *)
BusDecode ==
  /\ held # <<>>
  /\ LET d == Decoded([i \in DOMAIN held |-> log[held[i]]])
     IN  /\ PutBack /\ taken' = taken \o SubSeq(held, 1, d.used)
         /\ decoder' = Kept(d)
         /\ ret' = IF d.rc = "BUS_MSG_RXING" THEN d.rc ELSE "BUS_NO_MSG"
         /\ accepted' = IF d.rc = "BUS_MSG_OK"
                        THEN Append(accepted, [at |-> Len(taken'), msg |-> d.msg])
                        ELSE accepted
  /\ UNCHANGED <<sending, sent, faults, log>>

Next == BusSend \/ Transmit \/ Disturb \/ BusCheck \/ BusDecode
Spec == Init /\ [][Next]_vars

-----------------------------------------------------------------------------
TypeOK ==
  /\ sent \in 0 .. MaxSent /\ sending \in Seq(Byte) /\ faults \in 0 .. MaxFaults
  /\ log \in Seq(Byte) /\ Len(log) = arrived
  /\ Len(q) <= Cap /\ Len(held) <= MaxRead
  /\ decoder \in [l1 : {"WAIT_FOR_STX", "RX_MSG", "WAIT_FOR_CHECKSUM"},
                  l2 : {"WAIT_FOR_SENDER_ADDR", "WAIT_FOR_TYPE", "WAIT_FOR_MSG"},
                  sum : Byte, stuff : BOOLEAN, last : Byte, msg : Seq(Byte)]
  /\ decoder.l1 # "RX_MSG" => decoder.l2 = "WAIT_FOR_SENDER_ADDR"

Codes == [msg \in Telegrams |-> Encoded(msg)]

(* BusDecode finds its way back: a telegram whose characters it has used, one  *)
(* after the other, was accepted at the last one, whatever corrupted,          *)
(* truncated or additional characters came before and however it was divided   *)
(* by the reads.                                                               *)
Resynchronised ==
  \A msg \in Telegrams : \A i \in 0 .. Len(taken) - Len(Codes[msg]) :
    (\A p \in DOMAIN Codes[msg] : log[taken[i + p]] = Codes[msg][p])
      => \E k \in DOMAIN accepted :
           accepted[k] = [at |-> i + Len(Codes[msg]), msg |-> msg]

(* The characters without their stuffing. *)
Meant(s, p) == IF p > 1 /\ s[p - 1] = ESC THEN Inverted(s[p]) ELSE s[p]

Plain(s) ==
  LET plain[p \in 0 .. Len(s)] ==
        IF p = 0 THEN <<>>
        ELSE IF s[p] = ESC THEN plain[p - 1] ELSE Append(plain[p - 1], Meant(s, p))
  IN  plain[Len(s)]

(* A telegram that BusCheck reports with BUS_MSG_OK is what followed the last  *)
(* STX, with the length that BusSend gives a telegram of its type and with its *)
(* checksum; nothing of an earlier telegram is left in it, and it is reported  *)
(* once.                                                                       *)
Genuine ==
  \A k \in DOMAIN accepted :
    LET a == accepted[k]
    IN  /\ k > 1 => accepted[k - 1].at < a.at
        /\ \E i \in 1 .. a.at - 1 :
             LET chars == [j \in 1 .. a.at - i |-> log[taken[i + j]]]
             IN  /\ log[taken[i]] = STX /\ \A j \in DOMAIN chars : chars[j] # STX
                 /\ Plain(chars) = Append(a.msg, Sum(<<STX>> \o a.msg))
        /\ Known(a.msg[2]) /\ Len(a.msg) % 256 = LengthOf(a.msg)
=============================================================================
