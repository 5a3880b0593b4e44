------------------------------- MODULE RxFifo -------------------------------
(***************************************************************************)
(* What the receive queue of a sio promises to the telegram decoder, which *)
(* takes characters, uses some and puts the rest back.  Characters are     *)
(* numbered in the order of their arrival.                                 *)
(***************************************************************************)
EXTENDS Naturals, Sequences

CONSTANT Cap                          \* characters the queue holds
ASSUME CapAssumption == Cap \in Nat

VARIABLES
  arrived,                            \* characters that arrived
  q,                                  \* the queue
  held,                               \* characters the decoder has read and may put back
  taken                               \* characters the decoder has used

fifoVars == <<arrived, q, held, taken>>

FifoInit == arrived = 0 /\ q = <<>> /\ held = <<>> /\ taken = <<>>

(* What of s fits into the queue: the newest characters give way. *)
Fitting(s) == SubSeq(s, 1, IF Len(s) > Cap THEN Cap ELSE Len(s))

(* A character arrives; a full queue drops it. *)
Put ==
  /\ arrived' = arrived + 1
  /\ q' = Fitting(Append(q, arrived'))
  /\ UNCHANGED <<held, taken>>

(* The decoder takes some characters. *)
Take ==
  /\ held = <<>>
  /\ \E k \in 1 .. Len(q) :
       /\ held' = SubSeq(q, 1, k)
       /\ q' = SubSeq(q, k + 1, Len(q))
  /\ UNCHANGED <<arrived, taken>>

(* Mutant of PutBack: the rest goes to the end of the queue. *)
PutBackLast ==
  /\ held # <<>>
  /\ \E k \in 0 .. Len(held) :
       /\ taken' = taken \o SubSeq(held, 1, k)
       /\ q' = Fitting(q \o SubSeq(held, k + 1, Len(held)))
  /\ held' = <<>>
  /\ UNCHANGED arrived

(* It has used the first of them and puts the rest back. *)
PutBack ==
  /\ held # <<>>
  /\ \E k \in 0 .. Len(held) :
       /\ taken' = taken \o SubSeq(held, 1, k)
       /\ q' = Fitting(SubSeq(held, k + 1, Len(held)) \o q)
  /\ held' = <<>>
  /\ UNCHANGED arrived

FifoNext == Put \/ Take \/ PutBack
FifoSpec == FifoInit /\ [][FifoNext]_fifoVars

(* The characters the decoder has seen, may see again and will see. *)
All == taken \o held \o q

(* Numbers up to n, each greater than the ones before it. *)
Increasing(s, n) ==
  \A i \in 1 .. Len(s) : s[i] <= n /\ \A j \in 1 .. i - 1 : s[j] < s[i]

(* The decoder sees every character at most once and in the order of arrival. *)
Ordered == Increasing(All, arrived)
=============================================================================
