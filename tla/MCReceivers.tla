---------------------------- MODULE MCReceivers ----------------------------
(***************************************************************************)
(* The receive queues of both sios in one run: the ring of the AVR, or the *)
(* queue on Linux.                                                         *)
(***************************************************************************)
EXTENDS SioRing

CONSTANTS UnReadSize, LinuxMaxRead, MaxNum, LinuxMaxChars

VARIABLES unRead, bufIdxWr, bufIdxRd, input, linuxPc, linuxNum, linuxBuffer, linuxArrived, linuxTaken,
          sio

linuxVars == <<unRead, bufIdxWr, bufIdxRd, input, linuxPc, linuxNum, linuxBuffer, linuxArrived, linuxTaken>>

Linux ==
  INSTANCE LinuxSio
    WITH pc <- linuxPc, num <- linuxNum, sSioRxBuffer <- linuxBuffer, arrived <- linuxArrived,
         taken <- linuxTaken, MaxRead <- LinuxMaxRead, MaxChars <- LinuxMaxChars

ASSUME LinuxConstants == Linux!LinuxConstantsOK

MCInit == Init /\ Linux!Init /\ sio \in {"avr", "linux"}

MCNext ==
  \/ sio = "avr" /\ Next /\ UNCHANGED <<linuxVars, sio>>
  \/ sio = "linux" /\ Linux!Next /\ UNCHANGED <<vars, sio>>

MCSpec == MCInit /\ [][MCNext]_<<vars, linuxVars, sio>>

(* Both are the receive queue that the decoder relies on: nothing is lost     *)
(* unless the ring is full, nothing is reordered or repeated, whenever        *)
(* characters arrive and however many of them the decoder puts back           *)
(* (SioUnRead).                                                               *)
ReceiveQueues == FifoSpec /\ Linux!FifoSpec
=============================================================================
