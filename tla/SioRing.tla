------------------------------- MODULE SioRing -------------------------------
(***************************************************************************)
(* The rx ring of sio/avr/siosingle.c between the receive interrupt and    *)
(* the main loop, which decodes what it reads (bus.c) and sleeps when the   *)
(* ring is empty (main.c).  The interrupt may come between any two steps   *)
(* of the main loop that it does not disable interrupts for.               *)
(***************************************************************************)
EXTENDS Naturals, Sequences

CONSTANTS
  RingSize,    \* SIO_RX_BUF_SIZE, a power of two
  Word,        \* 2^8: the indices are unsigned 8-bit numbers
  MaxRead,     \* BUS_SIO_RX_BUF_SIZE
  MaxChars     \* bound: characters that arrive

ASSUME RingAssumption ==
  /\ RingSize \in Nat \ {0} /\ MaxRead \in Nat \ {0} /\ MaxChars \in Nat
  /\ \E k \in 1 .. Word : Word = k * RingSize

VARIABLES
  sRxBuffer, sRxBufWrIdx, sRxBufRdIdx,
  sIdle,       \* the main loop may sleep
  pc,          \* where the main loop is
  num,         \* numRxChar in BusCheck
  sSioRxBuffer,\* characters read and not decoded yet
  undo, dest,  \* in SioUnRead: characters still to be copied, and where to
  arrived, taken \* observers: characters that arrived, that were decoded

vars == <<sRxBuffer, sRxBufWrIdx, sRxBufRdIdx, sIdle, pc, num, sSioRxBuffer, undo, dest,
          arrived, taken>>

Masked(i) == i % RingSize
SioGetNumRxChar == Masked(sRxBufWrIdx + Word - sRxBufRdIdx)

TypeOK ==
  /\ sRxBuffer \in [0 .. RingSize - 1 -> 0 .. MaxChars]
  /\ sRxBufWrIdx \in 0 .. Word - 1 /\ sRxBufRdIdx \in 0 .. RingSize - 1
  /\ sIdle \in BOOLEAN
  /\ pc \in {"idle", "asleep", "check", "read", "decode", "copy", "busy"}
  /\ num \in 0 .. RingSize - 1
  /\ sSioRxBuffer \in Seq(1 .. MaxChars) /\ undo \in Seq(1 .. MaxChars)
  /\ dest \in 0 .. RingSize - 1
  /\ arrived \in 0 .. MaxChars /\ taken \in Seq(1 .. MaxChars)

Init ==
  /\ sRxBuffer = [i \in 0 .. RingSize - 1 |-> 0]
  /\ sRxBufWrIdx = 0 /\ sRxBufRdIdx = 0
  /\ sIdle = TRUE /\ pc = "idle" /\ num = 0
  /\ sSioRxBuffer = <<>> /\ undo = <<>> /\ dest = 0
  /\ arrived = 0 /\ taken = <<>>

-----------------------------------------------------------------------------
(* ISR(SIO_RXC_INT_VEC), when it stores; it also wakes a sleeping main loop. *)
RXComplete ==
  /\ arrived < MaxChars
  /\ arrived' = arrived + 1
  /\ LET wrIdx == Masked(sRxBufWrIdx + 1)
     IN  IF wrIdx # sRxBufRdIdx
         THEN /\ sRxBuffer' = [sRxBuffer EXCEPT ![wrIdx] = arrived']
              /\ sRxBufWrIdx' = wrIdx
         ELSE /\ sRxBufWrIdx' = Masked(wrIdx + RingSize - 1)
              /\ UNCHANGED sRxBuffer
  /\ sIdle' = FALSE
  /\ pc' = IF pc = "asleep" THEN "check" ELSE pc
  /\ UNCHANGED <<sRxBufRdIdx, num, sSioRxBuffer, undo, dest, taken>>

(* Idle: the test and the sleep instruction are not interrupted. *)
Idle ==
  /\ pc = "idle"
  /\ pc' = IF sIdle THEN "asleep" ELSE "check"
  /\ UNCHANGED <<sRxBuffer, sRxBufWrIdx, sRxBufRdIdx, sIdle, num, sSioRxBuffer, undo,
                 dest, arrived, taken>>

(* Another interrupt ends the sleep. *)
Wake ==
  /\ pc = "asleep"
  /\ pc' = "check"
  /\ UNCHANGED <<sRxBuffer, sRxBufWrIdx, sRxBufRdIdx, sIdle, num, sSioRxBuffer, undo,
                 dest, arrived, taken>>

(* BusCheck *)
BusCheck ==
  /\ pc = "check"
  /\ num' = SioGetNumRxChar
  /\ pc' = IF num' = 0 THEN "idle" ELSE "read"
  /\ UNCHANGED <<sRxBuffer, sRxBufWrIdx, sRxBufRdIdx, sIdle, sSioRxBuffer, undo, dest,
                 arrived, taken>>

(* BusDecode, SioRead with interrupts disabled. *)
SioRead ==
  /\ pc = "read"
  /\ LET want == IF num < MaxRead THEN num ELSE MaxRead
         len == IF SioGetNumRxChar < want THEN SioGetNumRxChar ELSE want
     IN  /\ sSioRxBuffer' = [i \in 1 .. len |-> sRxBuffer[Masked(sRxBufRdIdx + i)]]
         /\ sRxBufRdIdx' = Masked(sRxBufRdIdx + len)
         /\ sIdle' = (sIdle \/ len = SioGetNumRxChar)
  /\ pc' = "decode"
  /\ UNCHANGED <<sRxBuffer, sRxBufWrIdx, num, undo, dest, arrived, taken>>

(* Mutant of SetBackWr: the write index stays. *)
SetBackWrNot(bufSize) == sRxBufWrIdx

(* What SioUnRead, with interrupts disabled, makes of the write index: the *)
(* newest characters give way if bufSize are put back.  In 8 bits, without  *)
(* a mask.                                                                  *)
SetBackWr(bufSize) ==
  LET rxFreeLen == RingSize - 1 - SioGetNumRxChar
  IN  IF bufSize > rxFreeLen
      THEN (sRxBufWrIdx + Word - (bufSize - rxFreeLen)) % Word
      ELSE sRxBufWrIdx

(* The decoder stops after some characters; SioUnRead begins for the rest. *)
BusDecode ==
  /\ pc = "decode"
  /\ \E k \in 0 .. Len(sSioRxBuffer) :
       LET rest == SubSeq(sSioRxBuffer, k + 1, Len(sSioRxBuffer))
       IN  /\ taken' = taken \o SubSeq(sSioRxBuffer, 1, k)
           /\ undo' = rest
           /\ sRxBufRdIdx' = Masked(sRxBufRdIdx + RingSize - Len(rest))
           /\ sRxBufWrIdx' = SetBackWr(Len(rest))
           /\ pc' = IF rest = <<>> THEN "idle" ELSE "copy"
  /\ dest' = Masked(sRxBufRdIdx' + 1)
  /\ sSioRxBuffer' = <<>>
  /\ UNCHANGED <<sRxBuffer, sIdle, num, arrived>>

(* Mutant of Copy: the index runs past the end of the ring. *)
CopyPast ==
  /\ pc = "copy"
  /\ sRxBuffer' = [sRxBuffer EXCEPT ![dest] = Head(undo)]
  /\ undo' = Tail(undo)
  /\ dest' = dest + 1
  /\ pc' = IF undo' = <<>> THEN "busy" ELSE "copy"
  /\ UNCHANGED <<sRxBufWrIdx, sRxBufRdIdx, sIdle, num, sSioRxBuffer, arrived, taken>>

(* SioUnRead copies a character, interrupts enabled. *)
Copy ==
  /\ pc = "copy"
  /\ sRxBuffer' = [sRxBuffer EXCEPT ![dest] = Head(undo)]
  /\ undo' = Tail(undo)
  /\ dest' = Masked(dest + 1)
  /\ pc' = IF undo' = <<>> THEN "busy" ELSE "copy"
  /\ UNCHANGED <<sRxBufWrIdx, sRxBufRdIdx, sIdle, num, sSioRxBuffer, arrived, taken>>

(* Mutant of Busy: sleeping is not forbidden again. *)
BusyNot ==
  /\ pc = "busy"
  /\ pc' = "idle"
  /\ UNCHANGED <<sRxBuffer, sRxBufWrIdx, sRxBufRdIdx, sIdle, num, sSioRxBuffer, undo,
                 dest, arrived, taken>>

(* The end of SioUnRead: sIdleFunc(false). *)
Busy ==
  /\ pc = "busy"
  /\ sIdle' = FALSE
  /\ pc' = "idle"
  /\ UNCHANGED <<sRxBuffer, sRxBufWrIdx, sRxBufRdIdx, num, sSioRxBuffer, undo, dest,
                 arrived, taken>>

Next == RXComplete \/ Idle \/ Wake \/ BusCheck \/ SioRead \/ BusDecode \/ Copy \/ Busy
Spec == Init /\ [][Next]_vars

-----------------------------------------------------------------------------
(* The characters in the ring, those that SioUnRead has still to copy included. *)
Slot(i) == Masked(sRxBufRdIdx + i)
Content ==
  [i \in 1 .. SioGetNumRxChar |->
     LET ahead == Masked(Slot(i) + RingSize - dest)
     IN  IF ahead < Len(undo) THEN undo[ahead + 1] ELSE sRxBuffer[Slot(i)]]

(* The ring is the receive queue that the decoder relies on: nothing is lost *)
(* unless it is full, nothing is reordered or repeated, although the         *)
(* interrupt stores characters while others are being put back.              *)
Fifo == INSTANCE RxFifo WITH Cap <- RingSize - 1, q <- Content, held <- sSioRxBuffer
FifoSpec == Fifo!FifoSpec

(* The decoder sees each character at most once and in order. *)
Ordered == Fifo!Ordered

(* The main loop does not sleep while characters wait to be decoded. *)
SleepsEmpty == pc = "asleep" => SioGetNumRxChar = 0
=============================================================================
