------------------------------ MODULE LinuxSio ------------------------------
(***************************************************************************)
(* sio/linux/sio.c as a receive queue: the input queue of the serial       *)
(* driver, and in front of it the unread buffer, a ring that the decoder   *)
(* puts characters back into.                                              *)
(***************************************************************************)
EXTENDS Naturals, Sequences

CONSTANTS
  UnReadSize,  \* UNREAD_BUF_SIZE, a power of two
  MaxRead,     \* BUS_SIO_RX_BUF_SIZE
  MaxNum,      \* 255: what SioGetNumRxChar can return
  MaxChars     \* bound: characters that arrive

LinuxConstantsOK ==
  /\ UnReadSize \in Nat \ {0} /\ MaxRead \in 1 .. UnReadSize - 1
  /\ MaxNum \in Nat /\ MaxChars \in Nat

VARIABLES
  unRead, bufIdxWr, bufIdxRd,
  input,       \* the driver's input queue
  pc, num,     \* where the decoder is; numRxChar in BusCheck
  sSioRxBuffer,\* characters read and not decoded yet
  arrived, taken \* observers: characters that arrived, that were decoded

vars == <<unRead, bufIdxWr, bufIdxRd, input, pc, num, sSioRxBuffer, arrived, taken>>

Masked(i) == i % UnReadSize
UnReadBufLen == Masked(bufIdxWr + UnReadSize - bufIdxRd)
UnReadChars == [i \in 1 .. UnReadBufLen |-> unRead[Masked(bufIdxRd + i - 1)]]
Lesser(a, b) == IF a < b THEN a ELSE b

Init ==
  /\ unRead = [i \in 0 .. UnReadSize - 1 |-> 0]
  /\ bufIdxWr = 0 /\ bufIdxRd = 0
  /\ input = <<>> /\ pc = "check" /\ num = 0 /\ sSioRxBuffer = <<>>
  /\ arrived = 0 /\ taken = <<>>

Arrive ==
  /\ arrived < MaxChars
  /\ arrived' = arrived + 1
  /\ input' = Append(input, arrived')
  /\ UNCHANGED <<unRead, bufIdxWr, bufIdxRd, pc, num, sSioRxBuffer, taken>>

(* BusCheck *)
SioGetNumRxChar ==
  /\ pc = "check"
  /\ num' = Lesser(Len(input) + UnReadBufLen, MaxNum)
  /\ pc' = IF num' = 0 THEN "check" ELSE "read"
  /\ UNCHANGED <<unRead, bufIdxWr, bufIdxRd, input, sSioRxBuffer, arrived, taken>>

(* Mutant of Joined: the driver's characters first. *)
JoinedLate(front, back) == back \o front

(* The characters of the unread buffer come before the driver's. *)
Joined(front, back) == front \o back

(* SioRead, with ReadUnRead. *)
SioRead ==
  /\ pc = "read"
  /\ LET size == Lesser(num, MaxRead)
         len == Lesser(size, UnReadBufLen)
         rest == Lesser(size - len, Len(input))
     IN  /\ sSioRxBuffer' = Joined(SubSeq(UnReadChars, 1, len), SubSeq(input, 1, rest))
         /\ bufIdxRd' = Masked(bufIdxRd + len)
         /\ input' = SubSeq(input, rest + 1, Len(input))
  /\ pc' = "decode"
  /\ UNCHANGED <<unRead, bufIdxWr, num, arrived, taken>>

(* BusDecode stops after some characters; SioUnRead appends the others to the *)
(* unread buffer, which gives its oldest characters up when it is full.       *)
BusDecode ==
  /\ pc = "decode"
  /\ \E k \in 0 .. Len(sSioRxBuffer) :
       LET size == Len(sSioRxBuffer) - k
           wrIdx == Masked(bufIdxWr + size)
       IN  /\ taken' = taken \o SubSeq(sSioRxBuffer, 1, k)
           /\ unRead' = [i \in DOMAIN unRead |->
                LET ahead == Masked(i + UnReadSize - bufIdxWr)
                IN  IF ahead < size THEN sSioRxBuffer[k + 1 + ahead] ELSE unRead[i]]
           /\ bufIdxRd' = IF UnReadSize - 1 - UnReadBufLen < size
                          THEN Masked(wrIdx + 1) ELSE bufIdxRd
           /\ bufIdxWr' = wrIdx
  /\ sSioRxBuffer' = <<>>
  /\ pc' = "check"
  /\ UNCHANGED <<input, num, arrived>>

Next == Arrive \/ SioGetNumRxChar \/ SioRead \/ BusDecode
Spec == Init /\ [][Next]_vars

-----------------------------------------------------------------------------
(* The unread buffer and the driver's queue are the receive queue the decoder *)
(* relies on: what is put back comes out first.                               *)
Fifo == INSTANCE RxFifo
          WITH Cap <- MaxChars, q <- UnReadChars \o input, held <- sSioRxBuffer
FifoSpec == Fifo!FifoSpec
=============================================================================
