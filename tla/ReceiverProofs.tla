--------------------------- MODULE ReceiverProofs ---------------------------
(***************************************************************************)
(* Both sios are receive queues: the ring of the AVR for any size of the   *)
(* ring and any word of which it is a divisor, and the queue on Linux.     *)
(***************************************************************************)
EXTENDS MCReceivers, SequenceTheorems, TLAPS

(* How far a is ahead of b in the ring *)
Ahead(a, b) == IF a >= b THEN a - b ELSE (a + RingSize) - b

Chars == 1 .. MaxChars

(* SioUnRead has copied so many of the characters that are put back. *)
Copied(done) ==
  /\ dest = Masked(sRxBufRdIdx + 1 + done)
  /\ done + Len(undo) <= SioGetNumRxChar

(* While the main loop is not between putting back and its sIdleFunc(false), *)
(* it may sleep only if nothing waits.                                       *)
IdleRight ==
  /\ sIdle /\ pc \notin {"copy", "busy"} => SioGetNumRxChar = 0
  /\ pc = "asleep" => sIdle

(* Only the decoder holds characters, and never more than the ring does. *)
HeldRight ==
  /\ pc # "decode" => sSioRxBuffer = <<>>
  /\ Len(sSioRxBuffer) < RingSize

CopyRight ==
  /\ pc # "copy" => undo = <<>>
  /\ pc = "copy" => undo # <<>> /\ \E done \in 0 .. RingSize - 1 : Copied(done)

RingInv ==
  /\ TypeOK
  /\ HeldRight /\ CopyRight /\ IdleRight
  /\ \A i \in 1 .. SioGetNumRxChar : Content[i] \in Chars

-----------------------------------------------------------------------------
(* Indices of the ring *)
LEMMA MaskedIs ==
  /\ \A x \in 0 .. RingSize - 1 : Masked(x) = x
  /\ \A x \in RingSize .. (2 * RingSize) - 1 : Masked(x) = x - RingSize
  /\ \A x \in Nat : Masked(x) \in 0 .. RingSize - 1
  BY RingAssumption DEF Masked

LEMMA Division ==
  ASSUME NEW x \in Nat
  PROVE  /\ x \div RingSize \in Nat /\ Masked(x) \in 0 .. RingSize - 1
         /\ x = (RingSize * (x \div RingSize)) + Masked(x)
  BY RingAssumption DEF Masked

LEMMA SameRemainder ==
  ASSUME NEW q \in Nat, NEW r \in 0 .. RingSize - 1, NEW p \in Nat, NEW s \in 0 .. RingSize - 1,
         (RingSize * q) + r = (RingSize * p) + s
  PROVE  r = s
  <1>1. RingSize \in Nat \ {0}
    BY RingAssumption
  <1>2. ASSUME NEW u \in Nat, NEW v \in Nat, u < v PROVE RingSize * v >= (RingSize * u) + RingSize
    <2>1. RingSize * ((v - u) - 1) \in Nat
      BY <1>1, <1>2
    <2>2. RingSize * ((v - u) - 1) = ((RingSize * v) - (RingSize * u)) - RingSize
      BY <1>1, <1>2
    <2>3. RingSize * v \in Nat /\ RingSize * u \in Nat
      BY <1>1
    <2> QED
      BY <1>1, <2>1, <2>2, <2>3
  <1>3. RingSize * q \in Nat /\ RingSize * p \in Nat
    BY <1>1
  <1>4. ~(q < p) /\ ~(p < q)
    BY <1>1, <1>2, <1>3
  <1> QED
    BY <1>1, <1>3, <1>4

(* Going round the ring changes nothing. *)
LEMMA MaskedTimes ==
  ASSUME NEW x \in Nat, NEW k \in Nat
  PROVE  Masked(x + (RingSize * k)) = Masked(x)
  <1> DEFINE y == x + (RingSize * k)
  <1>1. RingSize \in Nat \ {0}
    BY RingAssumption
  <1>2. y \in Nat
    BY <1>1
  <1>3. /\ y = (RingSize * (y \div RingSize)) + Masked(y)
        /\ y \div RingSize \in Nat /\ Masked(y) \in 0 .. RingSize - 1
    BY <1>2, Division
  <1>4. /\ x = (RingSize * (x \div RingSize)) + Masked(x)
        /\ x \div RingSize \in Nat /\ Masked(x) \in 0 .. RingSize - 1
    BY Division
  <1>5. y = (RingSize * ((x \div RingSize) + k)) + Masked(x)
    BY <1>1, <1>4
  <1> HIDE DEF y
  <1>6. (x \div RingSize) + k \in Nat
    BY <1>4
  <1> QED
    BY <1>3, <1>4, <1>5, <1>6, SameRemainder DEF y

LEMMA MaskedPlus ==
  ASSUME NEW x \in Nat, NEW y \in Nat
  PROVE  Masked(x + y) = Masked(Masked(x) + y)
  <1>1. PICK k \in Nat : x = (RingSize * k) + Masked(x) /\ Masked(x) \in Nat
    BY Division
  <1>2. RingSize * k \in Nat
    BY RingAssumption
  <1>3. x + y = (Masked(x) + y) + (RingSize * k)
    BY <1>1, <1>2
  <1>4. Masked(x) + y \in Nat
    BY <1>1
  <1> QED
    BY <1>3, <1>4, MaskedTimes

(* The indices are numbers of a word, which goes round the ring some times. *)
LEMMA MaskedWord ==
  ASSUME NEW x \in Nat
  PROVE  Masked(x + Word) = Masked(x) /\ Masked(x % Word) = Masked(x) /\ x % Word \in 0 .. Word - 1
  <1>1. Word \in Nat \ {0} /\ RingSize \in Nat \ {0}
    BY RingAssumption
  <1>2. PICK k \in Nat : Word = RingSize * k
    BY RingAssumption
  <1>3. x % Word \in 0 .. Word - 1 /\ x \div Word \in Nat /\ x = (Word * (x \div Word)) + (x % Word)
    BY <1>1
  <1>4. PICK j \in Nat : x = (Word * j) + (x % Word)
    BY <1>3
  <1>5. k * j \in Nat /\ x % Word \in Nat
    BY <1>3
  <1>6. x = (x % Word) + (RingSize * (k * j))
    <2>1. Word * j = RingSize * (k * j)
      BY <1>1, <1>2
    <2>2. Word * j \in Nat
      BY <1>1
    <2> QED
      BY <1>4, <1>5, <2>1, <2>2
  <1>7. Masked(x % Word) = Masked(x)
    BY <1>5, <1>6, MaskedTimes
  <1>8. Masked(x + Word) = Masked(x)
    BY <1>2, MaskedTimes
  <1> QED
    BY <1>3, <1>7, <1>8

LEMMA AheadIs ==
  ASSUME NEW a \in 0 .. RingSize - 1, NEW b \in 0 .. RingSize - 1
  PROVE  Masked(a + (RingSize - b)) = Ahead(a, b) /\ Ahead(a, b) \in 0 .. RingSize - 1
  <1>1. RingSize \in Nat \ {0}
    BY RingAssumption
  <1>2. CASE a >= b
    <2>1. a + (RingSize - b) \in RingSize .. (2 * RingSize) - 1
      BY <1>1, <1>2
    <2> QED
      BY <1>1, <1>2, <2>1, MaskedIs DEF Ahead
  <1>3. CASE ~(a >= b)
    <2>1. a + (RingSize - b) \in 0 .. RingSize - 1
      BY <1>1, <1>3
    <2> QED
      BY <1>1, <1>3, <2>1, MaskedIs DEF Ahead
  <1> QED
    BY <1>2, <1>3

(* SioGetNumRxChar and SioUnRead go back from a write index. *)
LEMMA BackFrom ==
  ASSUME NEW wr \in 0 .. Word - 1, NEW x \in 0 .. RingSize - 1
  PROVE  /\ Masked(wr + (Word - x)) = Ahead(Masked(wr), x)
         /\ Masked((wr + (Word - x)) % Word) = Ahead(Masked(wr), x)
         /\ (wr + (Word - x)) % Word \in 0 .. Word - 1
  <1>1. Word \in Nat \ {0} /\ RingSize \in Nat \ {0} /\ wr \in Nat
    BY RingAssumption
  <1>2. PICK k \in Nat : Word = RingSize * (k + 1)
    <2>1. PICK n \in 1 .. Word : Word = n * RingSize
      BY RingAssumption
    <2>2. n - 1 \in Nat /\ Word = RingSize * ((n - 1) + 1)
      BY <1>1, <2>1
    <2> QED
      BY <2>2
  <1>3. PICK j \in Nat : wr = (RingSize * j) + Masked(wr) /\ Masked(wr) \in 0 .. RingSize - 1
    BY <1>1, Division
  <1>4. wr + (Word - x) = (Masked(wr) + (RingSize - x)) + (RingSize * (j + k))
    <2>1. RingSize * (k + 1) = (RingSize * k) + RingSize /\ RingSize * (j + k) = (RingSize * j) + (RingSize * k)
      BY <1>1
    <2>2. RingSize * k \in Nat /\ RingSize * j \in Nat
      BY <1>1
    <2>3. PICK a \in Nat, b \in Nat : a = RingSize * k /\ b = RingSize * j
      BY <2>2
    <2>4. Word = a + RingSize /\ wr = b + Masked(wr) /\ RingSize * (j + k) = b + a
      BY <1>2, <1>3, <2>1, <2>3
    <2>5. Masked(wr) \in Nat /\ x \in Nat
      BY <1>3
    <2>6. wr + (Word - x) = (Masked(wr) + (RingSize - x)) + (b + a)
      BY ONLY <1>1, <2>3, <2>4, <2>5
    <2> QED
      BY <2>4, <2>6
  <1>5. Masked(wr) + (RingSize - x) \in Nat
    BY <1>1, <1>3
  <1>6. Masked(wr + (Word - x)) = Ahead(Masked(wr), x)
    BY <1>3, <1>4, <1>5, MaskedTimes, AheadIs
  <1>7. wr + (Word - x) \in Nat
    <2>1. RingSize * (j + k) \in Nat
      BY <1>1
    <2> QED
      BY <1>4, <1>5, <2>1
  <1> QED
    BY <1>6, <1>7, MaskedWord

-----------------------------------------------------------------------------
(* What is in the ring *)
Newest == Masked(sRxBufWrIdx)

LEMMA CountIs ==
  ASSUME NEW wr \in 0 .. Word - 1, NEW rd \in 0 .. RingSize - 1
  PROVE  /\ Masked(wr + (Word - rd)) = Ahead(Masked(wr), rd)
         /\ Masked(wr + (Word - rd)) \in 0 .. RingSize - 1
         /\ Masked(wr) \in 0 .. RingSize - 1
  <1>1. wr \in Nat
    BY RingAssumption
  <1> QED
    BY <1>1, BackFrom, AheadIs, MaskedIs

LEMMA SlotIs ==
  ASSUME NEW rd \in 0 .. RingSize - 1, NEW i \in 0 .. RingSize
  PROVE  /\ Masked(rd + i) = IF rd + i < RingSize THEN rd + i ELSE (rd + i) - RingSize
         /\ Masked(rd + i) \in 0 .. RingSize - 1
  <1>1. RingSize \in Nat \ {0}
    BY RingAssumption
  <1>2. CASE rd + i < RingSize
    BY <1>1, <1>2, MaskedIs
  <1>3. CASE ~(rd + i < RingSize)
    <2>1. rd + i \in RingSize .. (2 * RingSize) - 1
      BY <1>1, <1>3
    <2> QED
      BY <1>1, <1>3, <2>1, MaskedIs
  <1> QED
    BY <1>2, <1>3

(* Element i of the content is one that is still to be copied, or in its slot. *)
LEMMA PlaceInRing ==
  ASSUME NEW rd \in 0 .. RingSize - 1, NEW i \in 1 .. RingSize - 1, NEW done \in 0 .. RingSize - 1
  PROVE  Masked(Masked(rd + i) + (RingSize - Masked((rd + 1) + done)))
           = IF i > done THEN (i - 1) - done ELSE ((i - 1) + RingSize) - done
  <1>1. RingSize \in Nat \ {0}
    BY RingAssumption
  <1>2. /\ Masked(rd + i) = IF rd + i < RingSize THEN rd + i ELSE (rd + i) - RingSize
        /\ Masked(rd + i) \in 0 .. RingSize - 1
    BY <1>1, SlotIs
  <1>3. (rd + 1) + done = rd + (done + 1) /\ done + 1 \in 0 .. RingSize
    BY <1>1
  <1>4. /\ Masked((rd + 1) + done) = IF rd + (done + 1) < RingSize THEN rd + (done + 1)
                                     ELSE (rd + (done + 1)) - RingSize
        /\ Masked((rd + 1) + done) \in 0 .. RingSize - 1
    BY <1>3, SlotIs
  <1>5. Masked(Masked(rd + i) + (RingSize - Masked((rd + 1) + done)))
          = Ahead(Masked(rd + i), Masked((rd + 1) + done))
    BY <1>2, <1>4, AheadIs
  <1>6. PICK a, b : a = Masked(rd + i) /\ b = Masked((rd + 1) + done)
    OBVIOUS
  <1>7. /\ a = IF rd + i < RingSize THEN rd + i ELSE (rd + i) - RingSize
        /\ b = IF rd + (done + 1) < RingSize THEN rd + (done + 1) ELSE (rd + (done + 1)) - RingSize
    BY <1>2, <1>4, <1>6
  <1>8. Ahead(a, b) = IF i > done THEN (i - 1) - done ELSE ((i - 1) + RingSize) - done
    BY <1>1, <1>7 DEF Ahead
  <1> QED
    BY <1>5, <1>6, <1>8

LEMMA SlotsDiffer ==
  ASSUME NEW rd \in 0 .. RingSize - 1, NEW i \in 1 .. RingSize - 1, NEW j \in 1 .. RingSize - 1, i # j
  PROVE  Masked(rd + i) # Masked(rd + j)
  <1>1. RingSize \in Nat \ {0}
    BY RingAssumption
  <1>2. /\ Masked(rd + i) = IF rd + i < RingSize THEN rd + i ELSE (rd + i) - RingSize
        /\ Masked(rd + j) = IF rd + j < RingSize THEN rd + j ELSE (rd + j) - RingSize
    BY <1>1, SlotIs
  <1> QED
    BY <1>1, <1>2

(* The content is a sequence of as many characters. *)
LEMMA ContentIs ==
  ASSUME RingInv
  PROVE  /\ SioGetNumRxChar \in 0 .. RingSize - 1
         /\ SioGetNumRxChar = Ahead(Newest, sRxBufRdIdx) /\ Newest \in 0 .. RingSize - 1
         /\ Content \in Seq(Chars) /\ Content \in Seq(Nat) /\ Len(Content) = SioGetNumRxChar
         /\ undo = <<>> => \A i \in 1 .. SioGetNumRxChar : Content[i] = sRxBuffer[Slot(i)]
  <1>1. sRxBufWrIdx \in 0 .. Word - 1 /\ sRxBufRdIdx \in 0 .. RingSize - 1
    BY DEF RingInv, TypeOK
  <1>2. /\ SioGetNumRxChar \in 0 .. RingSize - 1
        /\ SioGetNumRxChar = Ahead(Newest, sRxBufRdIdx) /\ Newest \in 0 .. RingSize - 1
    BY <1>1, CountIs DEF SioGetNumRxChar, Newest
  <1>3. \A i \in 1 .. SioGetNumRxChar : Content[i] \in Chars
    BY DEF RingInv
  <1>4. Content = [i \in 1 .. SioGetNumRxChar |-> Content[i]]
    BY DEF Content
  <1>5. Content \in Seq(Chars) /\ Len(Content) = SioGetNumRxChar
    BY <1>2, <1>3, <1>4
  <1>6. Content \in Seq(Nat)
    BY <1>5, SeqMonotonic, RingAssumption DEF Chars
  <1>7. ASSUME undo = <<>>, NEW i \in 1 .. SioGetNumRxChar
        PROVE  Content[i] = sRxBuffer[Slot(i)]
    <2>1. Slot(i) \in 0 .. RingSize - 1 /\ dest \in 0 .. RingSize - 1
      <3>1. i \in 0 .. RingSize
        BY <1>2, RingAssumption
      <3> QED
        BY <1>1, <3>1, SlotIs DEF Slot, RingInv, TypeOK
    <2>2. Masked(Slot(i) + (RingSize - dest)) \in 0 .. RingSize - 1
      BY <2>1, AheadIs
    <2>3. Len(undo) = 0
      BY <1>7
    <2>4. ~(Masked(Slot(i) + (RingSize - dest)) < Len(undo))
      BY <2>2, <2>3
    <2> QED
      BY <2>4 DEF Content
  <1> QED
    BY <1>2, <1>5, <1>6, <1>7

-----------------------------------------------------------------------------
(* What fits into the queue *)
LEMMA FittingIs ==
  ASSUME NEW s \in Seq(Nat)
  PROVE  LET n == IF Len(s) > RingSize - 1 THEN RingSize - 1 ELSE Len(s)
         IN  /\ Fifo!Fitting(s) \in Seq(Nat) /\ Len(Fifo!Fitting(s)) = n
             /\ \A i \in 1 .. n : Fifo!Fitting(s)[i] = s[i]
  <1>1. RingSize - 1 \in Nat /\ Len(s) \in Nat
    BY RingAssumption
  <1>2. PICK n \in Nat : n = (IF Len(s) > RingSize - 1 THEN RingSize - 1 ELSE Len(s))
    BY <1>1
  <1>3. Fifo!Fitting(s) = SubSeq(s, 1, n) /\ n <= Len(s)
    BY <1>1, <1>2 DEF Fifo!Fitting
  <1>4. SubSeq(s, 1, n) \in Seq(Nat) /\ Len(SubSeq(s, 1, n)) = n /\ \A i \in 1 .. n : SubSeq(s, 1, n)[i] = s[i]
    BY <1>1, <1>3
  <1> QED
    BY <1>2, <1>3, <1>4

LEMMA NothingToFit ==
  ASSUME NEW s \in Seq(Nat), Len(s) < RingSize
  PROVE  Fifo!Fitting(s) = s
  <1>1. ~(Len(s) > RingSize - 1)
    BY RingAssumption
  <1>2. Fifo!Fitting(s) \in Seq(Nat) /\ Len(Fifo!Fitting(s)) = Len(s) /\ \A i \in 1 .. Len(s) : Fifo!Fitting(s)[i] = s[i]
    BY <1>1, FittingIs
  <1> QED
    BY <1>2, SeqEqual

LEMMA FullTakesNone ==
  ASSUME NEW s \in Seq(Nat), NEW e \in Nat, Len(s) = RingSize - 1
  PROVE  Fifo!Fitting(Append(s, e)) = s
  <1>1. Append(s, e) \in Seq(Nat) /\ Len(Append(s, e)) = RingSize /\ Len(Append(s, e)) > RingSize - 1
    BY RingAssumption
  <1>2. \A i \in 1 .. RingSize - 1 : Append(s, e)[i] = s[i]
    BY RingAssumption
  <1>3. /\ Fifo!Fitting(Append(s, e)) \in Seq(Nat) /\ Len(Fifo!Fitting(Append(s, e))) = RingSize - 1
        /\ \A i \in 1 .. RingSize - 1 : Fifo!Fitting(Append(s, e))[i] = Append(s, e)[i]
    BY <1>1, FittingIs
  <1> QED
    BY <1>2, <1>3, SeqEqual

(* The character behind the content is not one that is still to be copied. *)
LEMMA BehindCopied ==
  ASSUME RingInv, SioGetNumRxChar < RingSize - 1
  PROVE  /\ Slot(SioGetNumRxChar + 1) \in 0 .. RingSize - 1
         /\ ~(Masked(Slot(SioGetNumRxChar + 1) + (RingSize - dest)) < Len(undo))
  <1> DEFINE n == SioGetNumRxChar
  <1>1. n \in 0 .. RingSize - 1 /\ sRxBufRdIdx \in 0 .. RingSize - 1 /\ dest \in 0 .. RingSize - 1 /\ undo \in Seq(Chars)
    BY ContentIs DEF RingInv, TypeOK, Chars
  <1> HIDE DEF n
  <1>2. RingSize \in Nat \ {0} /\ n + 1 \in 1 .. RingSize - 1 /\ n + 1 \in 0 .. RingSize
    BY <1>1, RingAssumption DEF n
  <1>3. Slot(n + 1) \in 0 .. RingSize - 1
    BY <1>1, <1>2, SlotIs DEF Slot
  <1>4. CASE pc = "copy"
    <2>1. PICK done \in 0 .. RingSize - 1 : Copied(done)
      BY <1>4 DEF RingInv, CopyRight
    <2>2. Len(undo) \in Nat /\ done + Len(undo) <= n /\ dest = Masked((sRxBufRdIdx + 1) + done)
      BY <1>1, <2>1 DEF Copied, n
    <2>3. n + 1 > done
      BY <1>1, <1>2, <2>1, <2>2
    <2>4. Masked(Slot(n + 1) + (RingSize - dest)) = ((n + 1) - 1) - done
      BY <1>1, <1>2, <2>1, <2>2, <2>3, PlaceInRing DEF Slot
    <2> QED
      BY <1>1, <1>3, <2>1, <2>2, <2>4 DEF n
  <1>5. CASE pc # "copy"
    <2>1. undo = <<>>
      BY <1>5 DEF RingInv, CopyRight
    <2>2. Len(undo) = 0
      BY <2>1
    <2>3. Masked(Slot(n + 1) + (RingSize - dest)) \in 0 .. RingSize - 1
      BY <1>1, <1>3, AheadIs
    <2> QED
      BY <1>3, <2>2, <2>3 DEF n
  <1> QED
    BY <1>4, <1>5

-----------------------------------------------------------------------------
(* The receive interrupt *)
LEMMA RXCompletePuts == RingInv /\ RXComplete => RingInv' /\ Fifo!Put
  <1> SUFFICES ASSUME RingInv, RXComplete PROVE RingInv' /\ Fifo!Put
    OBVIOUS
  <1>0. PICK n, wrIdx : n = SioGetNumRxChar /\ wrIdx = Masked(sRxBufWrIdx + 1)
    OBVIOUS
  <1>1. /\ sRxBufWrIdx \in 0 .. Word - 1 /\ sRxBufRdIdx \in 0 .. RingSize - 1 /\ dest \in 0 .. RingSize - 1
        /\ sRxBuffer \in [0 .. RingSize - 1 -> 0 .. MaxChars] /\ arrived \in 0 .. MaxChars
        /\ num \in 0 .. RingSize - 1 /\ sSioRxBuffer \in Seq(1 .. MaxChars) /\ undo \in Seq(1 .. MaxChars)
        /\ taken \in Seq(1 .. MaxChars)
        /\ pc \in {"idle", "asleep", "check", "read", "decode", "copy", "busy"}
    BY DEF RingInv, TypeOK
  <1>2. /\ n \in 0 .. RingSize - 1 /\ n = Ahead(Newest, sRxBufRdIdx) /\ Newest \in 0 .. RingSize - 1
        /\ Content \in Seq(Nat) /\ Len(Content) = n
    BY <1>0, ContentIs
  <1>3. RingSize \in Nat \ {0} /\ MaxChars \in Nat /\ Word \in Nat \ {0} /\ RingSize <= Word
    <2>1. PICK k \in 1 .. Word : Word = k * RingSize
      BY RingAssumption
    <2>2. RingSize \in Nat \ {0} /\ Word \in Nat \ {0}
      BY RingAssumption
    <2>3. (k - 1) * RingSize \in Nat /\ k * RingSize = ((k - 1) * RingSize) + RingSize
      BY <2>1, <2>2
    <2> QED
      BY <2>1, <2>2, <2>3, RingAssumption
  <1>4. /\ arrived' = arrived + 1 /\ arrived' \in Chars /\ arrived' \in 0 .. MaxChars /\ arrived' \in Nat
        /\ sIdle' = FALSE /\ pc' = IF pc = "asleep" THEN "check" ELSE pc
        /\ UNCHANGED <<sRxBufRdIdx, num, sSioRxBuffer, undo, dest, taken>>
    BY <1>1, <1>3 DEF RXComplete, Chars
  <1>5. /\ wrIdx = IF Newest + 1 < RingSize THEN Newest + 1 ELSE (Newest + 1) - RingSize
        /\ wrIdx \in 0 .. RingSize - 1
    <2>1. wrIdx = Masked(Newest + 1)
      BY <1>1, <1>3, <1>0, MaskedPlus DEF Newest
    <2> QED
      BY <1>2, <1>3, <2>1, SlotIs
  <1>6. wrIdx # sRxBufRdIdx <=> n < RingSize - 1
    BY <1>1, <1>2, <1>3, <1>5 DEF Ahead
  <1>7. CASE n < RingSize - 1
    <2>1. /\ sRxBuffer' = [sRxBuffer EXCEPT ![wrIdx] = arrived'] /\ sRxBufWrIdx' = wrIdx
      BY <1>6, <1>7, <1>0 DEF RXComplete
    <2>2. sRxBuffer' \in [0 .. RingSize - 1 -> 0 .. MaxChars] /\ sRxBufWrIdx' \in 0 .. Word - 1
      BY <1>1, <1>3, <1>4, <1>5, <2>1
    <2>3. SioGetNumRxChar' = n + 1 /\ wrIdx = Slot(n + 1)
      <3>1. SioGetNumRxChar' = Ahead(wrIdx, sRxBufRdIdx)
        <4>1. Masked(wrIdx) = wrIdx
          BY <1>5, MaskedIs
        <4> QED
          BY <1>1, <1>4, <2>1, <2>2, <4>1, CountIs DEF SioGetNumRxChar
      <3>2. n + 1 \in 0 .. RingSize
        BY <1>2, <1>3
      <3>3. Slot(n + 1) = IF sRxBufRdIdx + (n + 1) < RingSize THEN sRxBufRdIdx + (n + 1)
                          ELSE (sRxBufRdIdx + (n + 1)) - RingSize
        BY <1>1, <3>2, SlotIs DEF Slot
      <3> QED
        BY <1>1, <1>2, <1>3, <1>5, <1>7, <3>1, <3>3 DEF Ahead
    <2>4. ASSUME NEW i \in 1 .. n PROVE Content'[i] = Content[i]
      <3>1. Slot(i)' = Slot(i)
        BY <1>4 DEF Slot
      <3>2. i \in 1 .. RingSize - 1 /\ n + 1 \in 1 .. RingSize - 1 /\ i # n + 1 /\ i \in 1 .. n + 1 /\ i \in 0 .. RingSize
        BY <1>2, <1>3, <1>7
      <3>3. Slot(i) # wrIdx /\ Slot(i) \in 0 .. RingSize - 1
        BY <1>1, <2>3, <3>2, SlotsDiffer, SlotIs DEF Slot
      <3>4. sRxBuffer'[Slot(i)] = sRxBuffer[Slot(i)]
        BY <1>1, <2>1, <3>3
      <3>5. Content[i] = LET ahead == Masked(Slot(i) + (RingSize - dest))
                         IN  IF ahead < Len(undo) THEN undo[ahead + 1] ELSE sRxBuffer[Slot(i)]
        BY <1>0 DEF Content
      <3>6. Content'[i] = LET ahead == Masked(Slot(i) + (RingSize - dest))
                          IN  IF ahead < Len(undo) THEN undo[ahead + 1] ELSE sRxBuffer'[Slot(i)]
        BY <1>4, <2>3, <3>1, <3>2 DEF Content
      <3> QED
        BY <3>4, <3>5, <3>6
    <2>5. Content'[n + 1] = arrived'
      <3>1. Slot(n + 1)' = Slot(n + 1)
        BY <1>4 DEF Slot
      <3>2. Slot(n + 1) \in 0 .. RingSize - 1 /\ ~(Masked(Slot(n + 1) + (RingSize - dest)) < Len(undo))
        BY <1>7, <1>0, BehindCopied
      <3>3. sRxBuffer'[Slot(n + 1)] = arrived'
        BY <1>1, <2>1, <2>3, <3>2
      <3>4. n + 1 \in 1 .. n + 1
        BY <1>2
      <3>5. Content'[n + 1] = LET ahead == Masked(Slot(n + 1) + (RingSize - dest))
                              IN  IF ahead < Len(undo) THEN undo[ahead + 1] ELSE sRxBuffer'[Slot(n + 1)]
        BY <1>4, <2>3, <3>1, <3>4 DEF Content
      <3> QED
        BY <3>2, <3>3, <3>5
    <2>6. ASSUME NEW i \in 1 .. n + 1 PROVE Content'[i] \in Chars /\ Content'[i] = Append(Content, arrived')[i]
      <3>1. CASE i = n + 1
        BY <1>2, <1>4, <2>5, <3>1
      <3>2. CASE i # n + 1
        <4>1. i \in 1 .. n
          BY <1>2, <3>2
        <4> QED
          BY <1>2, <1>4, <1>0, <2>4, <4>1 DEF RingInv
      <3> QED
        BY <3>1, <3>2
    <2>7. Content' = Append(Content, arrived')
      <3>1. Content' = [i \in 1 .. n + 1 |-> Content'[i]]
        BY <2>3 DEF Content
      <3>2. Content' \in Seq(Nat) /\ Len(Content') = n + 1
        <4>1. \A i \in 1 .. n + 1 : Content'[i] \in Nat
          BY <2>6, <1>3 DEF Chars
        <4> QED
          BY <1>2, <3>1, <4>1
      <3>3. Append(Content, arrived') \in Seq(Nat) /\ Len(Append(Content, arrived')) = n + 1
        BY <1>2, <1>4
      <3> QED
        BY <2>6, <3>2, <3>3, SeqEqual
    <2>8. Fifo!Put
      <3>1. Append(Content, arrived') \in Seq(Nat) /\ Len(Append(Content, arrived')) < RingSize
        BY <1>2, <1>3, <1>4, <1>7
      <3> QED
        BY <1>4, <2>7, <3>1, NothingToFit DEF Fifo!Put
    <2>9. TypeOK'
      BY <1>1, <1>4, <2>2 DEF TypeOK
    <2>10. HeldRight' /\ IdleRight'
      BY <1>4 DEF RingInv, HeldRight, IdleRight
    <2>11. CopyRight'
      BY <1>2, <1>4, <1>0, <2>3 DEF RingInv, CopyRight, Copied
    <2> QED
      BY <2>3, <2>6, <2>8, <2>9, <2>10, <2>11 DEF RingInv
  <1>8. CASE ~(n < RingSize - 1)
    <2>1. sRxBufWrIdx' = Masked(wrIdx + (RingSize - 1)) /\ UNCHANGED sRxBuffer
      BY <1>6, <1>8, <1>0 DEF RXComplete
    <2>2. sRxBufWrIdx' = Newest
      <3>1. RingSize - 1 \in 0 .. RingSize
        BY <1>3
      <3>2. Masked(wrIdx + (RingSize - 1)) = IF wrIdx + (RingSize - 1) < RingSize THEN wrIdx + (RingSize - 1)
                                             ELSE (wrIdx + (RingSize - 1)) - RingSize
        BY <1>5, <3>1, SlotIs
      <3> QED
        BY <1>2, <1>3, <1>5, <2>1, <3>2
    <2>3. SioGetNumRxChar' = n /\ sRxBufWrIdx' \in 0 .. Word - 1
      <3>1. Masked(Newest) = Newest /\ Newest \in 0 .. Word - 1
        BY <1>2, <1>3, MaskedIs
      <3> QED
        BY <1>1, <1>2, <1>4, <2>2, <3>1, CountIs DEF SioGetNumRxChar
    <2>4. Content' = Content
      <3>1. \A i : Slot(i)' = Slot(i)
        BY <1>4 DEF Slot
      <3> QED
        BY <1>0, <1>4, <2>1, <2>3, <3>1 DEF Content
    <2>5. Fifo!Put
      <3>1. Len(Content) = RingSize - 1
        BY <1>2, <1>3, <1>8
      <3>2. Fifo!Fitting(Append(Content, arrived')) = Content
        BY <1>2, <1>4, <3>1, FullTakesNone
      <3> QED
        BY <1>4, <2>4, <3>2 DEF Fifo!Put
    <2>6. TypeOK'
      BY <1>1, <1>4, <2>1, <2>3 DEF TypeOK
    <2>7. HeldRight' /\ IdleRight'
      BY <1>4 DEF RingInv, HeldRight, IdleRight
    <2>8. CopyRight'
      BY <1>0, <1>4, <2>3 DEF RingInv, CopyRight, Copied
    <2>9. \A i \in 1 .. n : Content'[i] \in Chars
      BY <1>0, <2>4 DEF RingInv
    <2> QED
      BY <2>3, <2>5, <2>6, <2>7, <2>8, <2>9 DEF RingInv
  <1> QED
    BY <1>7, <1>8

-----------------------------------------------------------------------------
(* The main loop *)
LEMMA RingTypes ==
  ASSUME RingInv
  PROVE  /\ sRxBufWrIdx \in 0 .. Word - 1 /\ sRxBufRdIdx \in 0 .. RingSize - 1 /\ dest \in 0 .. RingSize - 1
         /\ sRxBuffer \in [0 .. RingSize - 1 -> 0 .. MaxChars] /\ arrived \in 0 .. MaxChars
         /\ num \in 0 .. RingSize - 1 /\ sSioRxBuffer \in Seq(Chars) /\ undo \in Seq(Chars)
         /\ taken \in Seq(Chars)
         /\ pc \in {"idle", "asleep", "check", "read", "decode", "copy", "busy"}
         /\ RingSize \in Nat \ {0} /\ MaxChars \in Nat
  BY RingAssumption DEF RingInv, TypeOK, Chars

LEMMA SioReadTakes == RingInv /\ SioRead => RingInv' /\ (Fifo!Take \/ UNCHANGED Fifo!fifoVars)
  <1> SUFFICES ASSUME RingInv, SioRead PROVE RingInv' /\ (Fifo!Take \/ UNCHANGED Fifo!fifoVars)
    OBVIOUS
  <1>1. PICK n, len : /\ n = SioGetNumRxChar
                      /\ len = LET want == IF num < MaxRead THEN num ELSE MaxRead
                               IN  IF SioGetNumRxChar < want THEN SioGetNumRxChar ELSE want
    OBVIOUS
  <1>2. /\ pc = "read" /\ sSioRxBuffer' = [i \in 1 .. len |-> sRxBuffer[Masked(sRxBufRdIdx + i)]]
        /\ sRxBufRdIdx' = Masked(sRxBufRdIdx + len) /\ sIdle' = (sIdle \/ len = n) /\ pc' = "decode"
        /\ UNCHANGED <<sRxBuffer, sRxBufWrIdx, num, undo, dest, arrived, taken>>
    BY <1>1 DEF SioRead
  <1>3. undo = <<>> /\ sSioRxBuffer = <<>>
    BY <1>2 DEF RingInv, CopyRight, HeldRight
  <1>4. /\ n \in 0 .. RingSize - 1 /\ n = Ahead(Newest, sRxBufRdIdx) /\ Newest \in 0 .. RingSize - 1
        /\ Content \in Seq(Nat) /\ Content \in Seq(Chars) /\ Len(Content) = n
        /\ \A i \in 1 .. n : Content[i] = sRxBuffer[Masked(sRxBufRdIdx + i)]
    BY <1>1, <1>3, ContentIs DEF Slot
  <1>0. RingSize \in Nat \ {0} /\ sRxBufRdIdx \in 0 .. RingSize - 1 /\ dest \in 0 .. RingSize - 1
    BY RingTypes
  <1>5. len \in 0 .. n /\ len \in 0 .. RingSize
    <2>1. num \in Nat /\ MaxRead \in Nat
      BY RingTypes, RingAssumption
    <2>2. RingSize \in Nat \ {0}
      BY <1>0
    <2> QED
      BY <1>1, <1>4, <2>1, <2>2
  <1>6. sRxBufRdIdx' = (IF sRxBufRdIdx + len < RingSize THEN sRxBufRdIdx + len
                         ELSE (sRxBufRdIdx + len) - RingSize) /\ sRxBufRdIdx' \in 0 .. RingSize - 1
    BY <1>2, <1>5, SlotIs, RingTypes
  <1>7. SioGetNumRxChar' = n - len
    <2>1. SioGetNumRxChar' = Ahead(Newest, sRxBufRdIdx')
      BY <1>2, <1>6, CountIs, RingTypes DEF SioGetNumRxChar, Newest
    <2>2. PICK rd, nw : rd = sRxBufRdIdx' /\ nw = Newest
      OBVIOUS
    <2>3. nw \in 0 .. RingSize - 1 /\ n = Ahead(nw, sRxBufRdIdx)
      BY <1>4, <2>2
    <2>4. rd = IF sRxBufRdIdx + len < RingSize THEN sRxBufRdIdx + len ELSE (sRxBufRdIdx + len) - RingSize
      BY <1>6, <2>2
    <2>5. Ahead(nw, rd) = n - len
      BY <1>0, <1>5, <2>3, <2>4 DEF Ahead
    <2> QED
      BY <2>1, <2>2, <2>5
  <1>8. ASSUME NEW i \in 1 .. n - len PROVE Content'[i] = Content[len + i]
    <2>1. i \in 0 .. RingSize /\ len + i \in 0 .. RingSize /\ len + i \in 1 .. n
      BY <1>0, <1>4, <1>5
    <2>2. Masked(sRxBufRdIdx' + i) = Masked(sRxBufRdIdx + (len + i)) /\ Masked(sRxBufRdIdx' + i) \in 0 .. RingSize - 1
      <3>1. Masked(sRxBufRdIdx' + i) = IF sRxBufRdIdx' + i < RingSize THEN sRxBufRdIdx' + i
                                       ELSE (sRxBufRdIdx' + i) - RingSize
        BY <1>6, <2>1, SlotIs
      <3>2. /\ Masked(sRxBufRdIdx + (len + i)) = IF sRxBufRdIdx + (len + i) < RingSize THEN sRxBufRdIdx + (len + i)
                                                 ELSE (sRxBufRdIdx + (len + i)) - RingSize
            /\ Masked(sRxBufRdIdx + (len + i)) \in 0 .. RingSize - 1
        BY <2>1, SlotIs, RingTypes
      <3>3. len + i < RingSize
        BY <1>0, <1>4, <2>1
      <3>4. PICK rd : rd = sRxBufRdIdx'
        OBVIOUS
      <3>5. rd = IF sRxBufRdIdx + len < RingSize THEN sRxBufRdIdx + len ELSE (sRxBufRdIdx + len) - RingSize
        BY <1>6, <3>4
      <3>6. (IF rd + i < RingSize THEN rd + i ELSE (rd + i) - RingSize)
              = (IF sRxBufRdIdx + (len + i) < RingSize THEN sRxBufRdIdx + (len + i)
                 ELSE (sRxBufRdIdx + (len + i)) - RingSize)
        BY <1>0, <1>5, <2>1, <3>3, <3>5
      <3> QED
        BY <3>1, <3>2, <3>4, <3>6
    <2>3. ~(Masked(Masked(sRxBufRdIdx' + i) + (RingSize - dest)) < Len(undo))
      <3>1. Masked(Masked(sRxBufRdIdx' + i) + (RingSize - dest)) \in 0 .. RingSize - 1
        BY <2>2, AheadIs, RingTypes
      <3>2. Len(undo) = 0
        BY <1>3
      <3> QED
        BY <3>1, <3>2
    <2>4. Content'[i] = sRxBuffer[Masked(sRxBufRdIdx' + i)]
      BY <1>2, <1>7, <2>3 DEF Content, Slot
    <2> QED
      BY <1>4, <2>1, <2>2, <2>4
  <1>9. sSioRxBuffer' \in Seq(Chars) /\ Len(sSioRxBuffer') = len /\ sSioRxBuffer' = SubSeq(Content, 1, len)
    <2>1. \A i \in 1 .. len : sRxBuffer[Masked(sRxBufRdIdx + i)] = Content[i] /\ Content[i] \in Chars
      BY <1>4, <1>5
    <2>2. sSioRxBuffer' \in Seq(Chars) /\ Len(sSioRxBuffer') = len /\ \A i \in 1 .. len : sSioRxBuffer'[i] = Content[i]
      BY <1>2, <1>5, <2>1
    <2>3. /\ SubSeq(Content, 1, len) \in Seq(Chars) /\ Len(SubSeq(Content, 1, len)) = len
          /\ \A i \in 1 .. len : SubSeq(Content, 1, len)[i] = Content[i]
      BY <1>4, <1>5
    <2> QED
      BY <2>2, <2>3, SeqEqual
  <1>10. Content' = SubSeq(Content, len + 1, n) /\ \A i \in 1 .. n - len : Content'[i] \in Chars
    <2>1. \A i \in 1 .. n - len : Content'[i] \in Chars
      BY <1>4, <1>5, <1>8
    <2>2. Content' = [i \in 1 .. n - len |-> Content'[i]]
      BY <1>7 DEF Content
    <2>3. Content' \in Seq(Chars) /\ Len(Content') = n - len
      BY <1>4, <1>5, <2>1, <2>2
    <2>4. /\ SubSeq(Content, len + 1, n) \in Seq(Chars) /\ Len(SubSeq(Content, len + 1, n)) = n - len
          /\ \A i \in 1 .. n - len : SubSeq(Content, len + 1, n)[i] = Content[len + i]
      BY <1>4, <1>5
    <2> QED
      BY <1>8, <2>1, <2>3, <2>4, SeqEqual
  <1>11. Fifo!Take \/ UNCHANGED Fifo!fifoVars
    <2>1. CASE len = 0
      <3>1. sSioRxBuffer' = <<>>
        BY <1>9, <2>1, EmptySeq
      <3>2. Content' = Content
        BY <1>4, <1>10, <2>1, SubSeqFull
      <3> QED
        BY <1>2, <1>3, <3>1, <3>2 DEF Fifo!fifoVars
    <2>2. CASE len # 0
      <3>1. len \in 1 .. Len(Content)
        BY <1>4, <1>5, <2>2
      <3> QED
        BY <1>2, <1>3, <1>4, <1>9, <1>10, <3>1 DEF Fifo!Take
    <2> QED
      BY <2>1, <2>2
  <1>12. TypeOK'
    <2>1. sIdle' \in BOOLEAN
      BY <1>2
    <2> QED
      BY <1>2, <1>6, <1>9, <2>1, RingTypes DEF TypeOK, Chars
  <1>13. HeldRight' /\ CopyRight'
    BY <1>2, <1>3, <1>4, <1>5, <1>9, RingTypes DEF HeldRight, CopyRight
  <1>14. IdleRight'
    <2>1. sIdle => n = 0
      BY <1>1, <1>2 DEF RingInv, IdleRight
    <2>0. n \in Nat /\ len \in Nat /\ len <= n
      BY <1>4, <1>5
    <2>2. len = n => n - len = 0
      BY <2>0
    <2>3. n = 0 => n - len = 0
      BY <2>0
    <2>4. sIdle' => n - len = 0
      BY <1>2, <2>1, <2>2, <2>3
    <2> QED
      BY <1>2, <1>7, <2>4 DEF IdleRight
  <1> QED
    BY <1>7, <1>10, <1>11, <1>12, <1>13, <1>14 DEF RingInv

(* How far the write index is ahead once the read index has gone back by r. *)
LEMMA BackByMore ==
  ASSUME NEW nw \in 0 .. RingSize - 1, NEW rd \in 0 .. RingSize - 1, NEW r \in 0 .. RingSize - 1,
         NEW n, n = Ahead(nw, rd),
         NEW x \in 0 .. RingSize - 1, x = IF n + r > RingSize - 1 THEN (n + r) - (RingSize - 1) ELSE 0
  PROVE  Ahead(Ahead(nw, x), Ahead(rd, r)) = (n + r) - x
  <1>1. RingSize \in Nat \ {0} /\ n \in 0 .. RingSize - 1
    BY RingAssumption, AheadIs
  <1>2. PICK a : a = Ahead(nw, x)
    OBVIOUS
  <1>3. PICK b : b = Ahead(rd, r)
    OBVIOUS
  <1>4. a = IF nw >= x THEN nw - x ELSE (nw + RingSize) - x
    BY <1>2 DEF Ahead
  <1>5. b = IF rd >= r THEN rd - r ELSE (rd + RingSize) - r
    BY <1>3 DEF Ahead
  <1>6. n = IF nw >= rd THEN nw - rd ELSE (nw + RingSize) - rd
    BY DEF Ahead
  <1>7. (IF a >= b THEN a - b ELSE (a + RingSize) - b) = (n + r) - x
    <2>1. CASE n + r > RingSize - 1
      BY <1>1, <1>4, <1>5, <1>6, <2>1
    <2>2. CASE ~(n + r > RingSize - 1)
      BY <1>1, <1>4, <1>5, <1>6, <2>2
    <2> QED
      BY <2>1, <2>2
  <1> QED
    BY <1>2, <1>3, <1>7 DEF Ahead

LEMMA BusDecodePutsBack == RingInv /\ BusDecode => RingInv' /\ (Fifo!PutBack \/ UNCHANGED Fifo!fifoVars)
  <1> SUFFICES ASSUME RingInv, BusDecode PROVE RingInv' /\ (Fifo!PutBack \/ UNCHANGED Fifo!fifoVars)
    OBVIOUS
  <1>1. PICK n, rd, nw, held : /\ n = SioGetNumRxChar /\ rd = sRxBufRdIdx /\ nw = Newest
                               /\ held = sSioRxBuffer
    OBVIOUS
  <1>2. PICK k \in 0 .. Len(held) :
          LET rest == SubSeq(held, k + 1, Len(held))
          IN  /\ taken' = taken \o SubSeq(held, 1, k) /\ undo' = rest
              /\ sRxBufRdIdx' = Masked(rd + (RingSize - Len(rest)))
              /\ sRxBufWrIdx' = SetBackWr(Len(rest))
              /\ pc' = IF rest = <<>> THEN "idle" ELSE "copy"
    BY <1>1 DEF BusDecode
  <1>3. /\ pc = "decode" /\ dest' = Masked(sRxBufRdIdx' + 1) /\ sSioRxBuffer' = <<>>
        /\ UNCHANGED <<sRxBuffer, sIdle, num, arrived>>
    BY DEF BusDecode
  <1>4. PICK rest, r : rest = SubSeq(held, k + 1, Len(held)) /\ r = Len(rest)
    OBVIOUS
  <1>5. /\ taken' = taken \o SubSeq(held, 1, k) /\ undo' = rest
        /\ sRxBufRdIdx' = Masked(rd + (RingSize - r)) /\ sRxBufWrIdx' = SetBackWr(r)
        /\ pc' = IF rest = <<>> THEN "idle" ELSE "copy"
    BY <1>2, <1>4
  <1>6. undo = <<>>
    BY <1>3 DEF RingInv, CopyRight
  <1>7. /\ n \in 0 .. RingSize - 1 /\ n = Ahead(nw, rd) /\ nw \in 0 .. RingSize - 1
        /\ Content \in Seq(Nat) /\ Content \in Seq(Chars) /\ Len(Content) = n
    BY <1>1, ContentIs
  <1>8. \A i \in 1 .. n : Content[i] = sRxBuffer[Masked(rd + i)]
    BY <1>1, <1>6, ContentIs DEF Slot
  <1>9. /\ RingSize \in Nat \ {0} /\ rd \in 0 .. RingSize - 1
        /\ held \in Seq(Chars) /\ Len(held) \in 0 .. RingSize - 1
    <2>1. RingSize \in Nat \ {0} /\ rd \in 0 .. RingSize - 1 /\ held \in Seq(Chars)
      BY <1>1, RingTypes
    <2>2. Len(held) < RingSize /\ Len(held) \in Nat
      BY <1>1, <2>1 DEF RingInv, HeldRight
    <2> QED
      BY <2>1, <2>2
  <1>10. rest \in Seq(Chars) /\ r = Len(held) - k /\ r \in 0 .. RingSize - 1
    <2>1. k \in 0 .. Len(held) /\ k + 1 \in 1 .. Len(held) + 1
      BY <1>2, <1>9
    <2>2. rest \in Seq(Chars) /\ Len(rest) = Len(held) - k
      BY <1>4, <1>9, <2>1
    <2> QED
      BY <1>4, <1>9, <2>1, <2>2
  <1>0. /\ RingSize \in Nat \ {0} /\ rd \in 0 .. RingSize - 1 /\ n \in 0 .. RingSize - 1
        /\ r \in 0 .. RingSize - 1
    BY <1>7, <1>9, <1>10
  <1>11. PICK x : x = IF n + r > RingSize - 1 THEN (n + r) - (RingSize - 1) ELSE 0
    OBVIOUS
  <1>12. x \in 0 .. RingSize - 1 /\ x <= n /\ (n + r) - x \in 0 .. RingSize - 1 /\ r <= (n + r) - x
    BY <1>0, <1>11
  <1>13. sRxBufWrIdx' \in 0 .. Word - 1 /\ Masked(sRxBufWrIdx') = Ahead(nw, x)
    <2>1. sRxBufWrIdx \in 0 .. Word - 1 /\ nw = Masked(sRxBufWrIdx)
      BY <1>1, RingTypes DEF Newest
    <2>2. CASE n + r > RingSize - 1
      <3>1. r > (RingSize - 1) - n /\ r - ((RingSize - 1) - n) = x
        BY <1>0, <1>11, <2>2
      <3>2. sRxBufWrIdx' = (sRxBufWrIdx + (Word - x)) % Word
        BY <1>1, <1>5, <3>1 DEF SetBackWr
      <3> QED
        BY <1>12, <2>1, <3>2, BackFrom
    <2>3. CASE ~(n + r > RingSize - 1)
      <3>1. ~(r > (RingSize - 1) - n) /\ x = 0
        BY <1>7, <1>9, <1>10, <1>11, <2>3
      <3>2. sRxBufWrIdx' = sRxBufWrIdx
        BY <1>1, <1>5, <3>1 DEF SetBackWr
      <3>3. Ahead(nw, x) = nw
        BY <1>7, <3>1 DEF Ahead
      <3> QED
        BY <2>1, <3>2, <3>3
    <2> QED
      BY <2>2, <2>3
  <1>14. PICK rdn : rdn = sRxBufRdIdx'
    OBVIOUS
  <1>15. rdn = Ahead(rd, r) /\ rdn \in 0 .. RingSize - 1
    BY <1>5, <1>9, <1>10, <1>14, AheadIs
  <1>16. PICK m : m = (n + r) - x
    OBVIOUS
  <1>17. SioGetNumRxChar' = m /\ m \in 0 .. RingSize - 1
    <2>1. SioGetNumRxChar' = Ahead(Masked(sRxBufWrIdx'), rdn)
      BY <1>13, <1>14, <1>15, CountIs DEF SioGetNumRxChar
    <2>2. Ahead(Ahead(nw, x), Ahead(rd, r)) = m
      <3>1. /\ nw \in 0 .. RingSize - 1 /\ rd \in 0 .. RingSize - 1 /\ r \in 0 .. RingSize - 1
            /\ n = Ahead(nw, rd) /\ x \in 0 .. RingSize - 1
        BY <1>0, <1>7, <1>12
      <3>2. Ahead(Ahead(nw, x), Ahead(rd, r)) = (n + r) - x
        BY <1>11, <3>1, BackByMore
      <3> QED
        BY <1>16, <3>2
    <2> QED
      BY <1>12, <1>13, <1>15, <1>16, <2>1, <2>2
  <1>18. dest' = Masked((rdn + 1) + 0) /\ dest' \in 0 .. RingSize - 1
    <2>1. (rdn + 1) + 0 = rdn + 1 /\ 1 \in 0 .. RingSize
      BY <1>9, <1>15
    <2> QED
      BY <1>3, <1>14, <1>15, <2>1, SlotIs
  <1>19. ASSUME NEW i \in 1 .. m
         PROVE  Content'[i] = IF i - 1 < r THEN rest[i] ELSE sRxBuffer[Masked(rdn + i)]
    <2>1. i \in 1 .. RingSize - 1 /\ 0 \in 0 .. RingSize - 1 /\ i > 0 /\ (i - 1) - 0 = i - 1 /\ (i - 1) + 1 = i
      BY <1>9, <1>17
    <2>2. Masked(Masked(rdn + i) + (RingSize - dest')) = i - 1
      BY <1>15, <1>18, <2>1, PlaceInRing
    <2>3. Content'[i] = LET ahead == Masked(Masked(rdn + i) + (RingSize - dest'))
                        IN  IF ahead < Len(rest) THEN rest[ahead + 1] ELSE sRxBuffer[Masked(rdn + i)]
      BY <1>3, <1>5, <1>14, <1>17 DEF Content, Slot
    <2> QED
      BY <1>4, <2>1, <2>2, <2>3
  <1>20. ASSUME NEW i \in 1 .. m
         PROVE  Content'[i] = IF i <= r THEN rest[i] ELSE Content[i - r]
    <2>1. CASE i <= r
      <3>1. i - 1 < r
        BY <1>10, <1>17, <2>1
      <3> QED
        BY <1>19, <2>1, <3>1
    <2>2. CASE ~(i <= r)
      <3>1. ~(i - 1 < r) /\ i - r \in 1 .. n /\ i \in 0 .. RingSize /\ i - r \in 0 .. RingSize
        BY <1>0, <1>12, <1>16, <1>17, <2>2
      <3>2. Masked(rdn + i) = IF rdn + i < RingSize THEN rdn + i ELSE (rdn + i) - RingSize
        BY <1>15, <3>1, SlotIs
      <3>3. Masked(rd + (i - r)) = IF rd + (i - r) < RingSize THEN rd + (i - r) ELSE (rd + (i - r)) - RingSize
        BY <1>9, <3>1, SlotIs
      <3>4. rdn = IF rd >= r THEN rd - r ELSE (rd + RingSize) - r
        BY <1>15 DEF Ahead
      <3>5. (IF rdn + i < RingSize THEN rdn + i ELSE (rdn + i) - RingSize)
              = (IF rd + (i - r) < RingSize THEN rd + (i - r) ELSE (rd + (i - r)) - RingSize)
        <4>1. i \in 1 .. RingSize - 1
          BY <1>0, <1>17
        <4>2. rd + (i - r) = (rd - r) + i
          BY <1>0, <4>1
        <4>3. CASE rd >= r
          <5>1. rd + (i - r) = rdn + i
            BY <3>4, <4>2, <4>3
          <5> QED
            BY <5>1
        <4>4. CASE ~(rd >= r)
          <5>1. rdn = (rd + RingSize) - r
            BY <3>4, <4>4
          <5> QED
            BY <1>0, <3>1, <4>1, <4>4, <5>1
        <4> QED
          BY <4>3, <4>4
      <3> QED
        BY <1>8, <1>19, <2>2, <3>1, <3>2, <3>3, <3>5
    <2> QED
      BY <2>1, <2>2
  <1>21. /\ rest \o Content \in Seq(Nat) /\ Len(rest \o Content) = r + n
         /\ \A i \in 1 .. r + n : (rest \o Content)[i] = IF i <= r THEN rest[i] ELSE Content[i - r]
         /\ \A i \in 1 .. r + n : (rest \o Content)[i] \in Chars
    <2>1. rest \o Content \in Seq(Chars) /\ Len(rest \o Content) = r + n
      BY <1>4, <1>7, <1>10, ConcatProperties
    <2>2. \A i \in 1 .. r + n : (rest \o Content)[i] = IF i <= r THEN rest[i] ELSE Content[i - r]
      BY <1>4, <1>7, <1>10, ConcatProperties
    <2>3. rest \o Content \in Seq(Nat)
      <3>1. Chars \subseteq Nat
        BY RingTypes DEF Chars
      <3> QED
        BY <2>1, <3>1, SeqMonotonic
    <2>4. \A i \in 1 .. r + n : (rest \o Content)[i] \in Chars
      BY <2>1
    <2> QED
      BY <2>1, <2>2, <2>3, <2>4
  <1>22. /\ \A i \in 1 .. m : Content'[i] = (rest \o Content)[i] /\ Content'[i] \in Chars
         /\ Content' \in Seq(Nat) /\ Len(Content') = m
    <2>1. \A i \in 1 .. m : i \in 1 .. r + n
      BY <1>7, <1>10, <1>12, <1>16, <1>17
    <2>2. \A i \in 1 .. m : Content'[i] = (rest \o Content)[i] /\ Content'[i] \in Chars
      BY <1>20, <1>21, <2>1
    <2>3. Content' = [i \in 1 .. m |-> Content'[i]]
      BY <1>17 DEF Content
    <2>4. \A i \in 1 .. m : Content'[i] \in Nat
      <3>1. MaxChars \in Nat
        BY RingTypes
      <3> QED
        BY <2>2, <3>1 DEF Chars
    <2>5. m \in Nat
      BY <1>17
    <2>6. PICK c : c = Content'
      OBVIOUS
    <2>7. c \in Seq(Nat) /\ Len(c) = m
      BY <2>3, <2>4, <2>5, <2>6
    <2> QED
      BY <2>2, <2>6, <2>7
  <1>23. Content' = Fifo!Fitting(rest \o Content)
    <2>1. m = IF Len(rest \o Content) > RingSize - 1 THEN RingSize - 1 ELSE Len(rest \o Content)
      <3>1. Len(rest \o Content) = n + r
        BY <1>0, <1>21
      <3>2. m = IF n + r > RingSize - 1 THEN RingSize - 1 ELSE n + r
        BY <1>0, <1>11, <1>16
      <3> QED
        BY <3>1, <3>2
    <2>2. /\ Fifo!Fitting(rest \o Content) \in Seq(Nat) /\ Len(Fifo!Fitting(rest \o Content)) = m
          /\ \A i \in 1 .. m : Fifo!Fitting(rest \o Content)[i] = (rest \o Content)[i]
      BY <1>21, <2>1, FittingIs
    <2> QED
      BY <1>22, <2>2, SeqEqual
  <1>24. Fifo!PutBack \/ UNCHANGED Fifo!fifoVars
    <2>1. CASE held = <<>>
      <3>1. k = 0 /\ r = 0
        BY <1>2, <1>10, <2>1
      <3>2. rest = <<>> /\ SubSeq(held, 1, k) = <<>>
        BY <1>4, <1>10, <2>1, <3>1, EmptySeq
      <3>3. Content' = Content
        <4>1. rest \o Content = Content
          BY <1>7, <3>2, ConcatEmptySeq
        <4> QED
          BY <1>7, <1>9, <1>23, <4>1, NothingToFit
      <3>4. taken' = taken
        BY <1>5, <3>2, ConcatEmptySeq, RingTypes
      <3> QED
        BY <1>1, <1>3, <2>1, <3>3, <3>4 DEF Fifo!fifoVars
    <2>2. CASE held # <<>>
      BY <1>1, <1>2, <1>3, <1>4, <1>5, <1>23, <2>2 DEF Fifo!PutBack
    <2> QED
      BY <2>1, <2>2
  <1>25. TypeOK'
    <2>1. taken' \in Seq(Chars)
      <3>1. SubSeq(held, 1, k) \in Seq(Chars)
        BY <1>2, <1>9
      <3> QED
        BY <1>5, <3>1, RingTypes
    <2>2. sSioRxBuffer' \in Seq(Chars) /\ undo' \in Seq(Chars)
      BY <1>3, <1>5, <1>10
    <2>3. pc' \in {"idle", "asleep", "check", "read", "decode", "copy", "busy"}
      BY <1>5
    <2>4. sRxBufRdIdx' \in 0 .. RingSize - 1
      BY <1>14, <1>15
    <2>5. sIdle' \in BOOLEAN
      BY <1>3 DEF RingInv, TypeOK
    <2> QED
      BY <1>3, <1>13, <1>18, <2>1, <2>2, <2>3, <2>4, <2>5, RingTypes DEF TypeOK, Chars
  <1>26. HeldRight'
    BY <1>3, <1>9 DEF HeldRight
  <1>27. CopyRight'
    <2>1. 0 \in 0 .. RingSize - 1 /\ 0 + r <= m
      BY <1>9, <1>10, <1>12, <1>16
    <2>2. Copied(0)'
      BY <1>4, <1>5, <1>14, <1>17, <1>18, <2>1 DEF Copied
    <2> QED
      BY <1>5, <2>1, <2>2 DEF CopyRight
  <1>28. IdleRight'
    <2>1. sIdle => n = 0
      BY <1>1, <1>3 DEF RingInv, IdleRight
    <2>2. rest = <<>> => r = 0
      BY <1>4
    <2>3. ASSUME n = 0, r = 0 PROVE m = 0
      <3>1. ~(n + r > RingSize - 1) /\ n + r = 0
        BY <1>0, <2>3
      <3> QED
        BY <1>11, <1>16, <3>1
    <2> QED
      BY <1>3, <1>5, <1>17, <2>1, <2>2, <2>3 DEF IdleRight
  <1> QED
    BY <1>17, <1>22, <1>24, <1>25, <1>26, <1>27, <1>28 DEF RingInv

LEMMA CopyStutters == RingInv /\ Copy => RingInv' /\ UNCHANGED Fifo!fifoVars
  <1> SUFFICES ASSUME RingInv, Copy PROVE RingInv' /\ UNCHANGED Fifo!fifoVars
    OBVIOUS
  <1>1. PICK n, rd, at, len : n = SioGetNumRxChar /\ rd = sRxBufRdIdx /\ at = dest /\ len = Len(undo)
    OBVIOUS
  <1>2. /\ pc = "copy" /\ sRxBuffer' = [sRxBuffer EXCEPT ![at] = Head(undo)] /\ undo' = Tail(undo)
        /\ dest' = Masked(at + 1) /\ pc' = IF undo' = <<>> THEN "busy" ELSE "copy"
        /\ UNCHANGED <<sRxBufWrIdx, sRxBufRdIdx, sIdle, num, sSioRxBuffer, arrived, taken>>
    BY <1>1 DEF Copy
  <1>3. undo # <<>> /\ undo \in Seq(Chars)
    BY <1>2, RingTypes DEF RingInv, CopyRight
  <1>4. PICK done \in 0 .. RingSize - 1 : Copied(done)
    BY <1>2 DEF RingInv, CopyRight
  <1>5. /\ len \in Nat \ {0} /\ Head(undo) = undo[1] /\ Head(undo) \in Chars
        /\ undo' \in Seq(Chars) /\ Len(undo') = len - 1 /\ \A i \in 1 .. len - 1 : undo'[i] = undo[i + 1]
    BY <1>1, <1>2, <1>3, HeadTailProperties
  <1>6. n \in 0 .. RingSize - 1 /\ RingSize \in Nat \ {0} /\ rd \in 0 .. RingSize - 1
    BY <1>1, ContentIs, RingTypes
  <1>7. at = Masked((rd + 1) + done) /\ done + len <= n
    BY <1>1, <1>4 DEF Copied
  <1>8. done + 1 \in 1 .. RingSize - 1 /\ done + 1 \in 0 .. RingSize - 1 /\ (done + 1) + (len - 1) <= n /\ len <= RingSize - 1
    BY <1>4, <1>5, <1>6, <1>7
  <1>9. at = Masked(rd + (done + 1)) /\ at \in 0 .. RingSize - 1
    <2>1. (rd + 1) + done = rd + (done + 1)
      BY <1>4, <1>6
    <2> QED
      BY <1>1, <1>7, <2>1, RingTypes
  <1>10. dest' = Masked((rd + 1) + (done + 1)) /\ dest' \in 0 .. RingSize - 1
    <2>1. ((rd + 1) + done) + 1 = (rd + 1) + (done + 1) /\ (rd + 1) + done \in Nat /\ at + 1 \in Nat
      BY <1>4, <1>6, <1>9
    <2> QED
      BY <1>2, <1>7, <2>1, MaskedPlus, MaskedIs
  <1>11. SioGetNumRxChar' = n
    BY <1>1, <1>2 DEF SioGetNumRxChar
  <1>12. ASSUME NEW i \in 1 .. n PROVE Content'[i] = Content[i]
    <2>1. i \in 1 .. RingSize - 1 /\ i \in 0 .. RingSize
      BY <1>6
    <2>2. PICK slot : slot = Masked(rd + i)
      OBVIOUS
    <2>3. slot \in 0 .. RingSize - 1
      BY <1>6, <2>1, <2>2, SlotIs
    <2>4. PICK a, b : /\ a = Masked(slot + (RingSize - at))
                      /\ b = Masked(slot + (RingSize - dest'))
      OBVIOUS
    <2>5. a = IF i > done THEN (i - 1) - done ELSE ((i - 1) + RingSize) - done
      BY <1>4, <1>6, <1>7, <2>1, <2>2, <2>4, PlaceInRing
    <2>6. b = IF i > done + 1 THEN (i - 1) - (done + 1) ELSE ((i - 1) + RingSize) - (done + 1)
      BY <1>6, <1>8, <1>10, <2>1, <2>2, <2>4, PlaceInRing
    <2>7. Content[i] = IF a < len THEN undo[a + 1] ELSE sRxBuffer[slot]
      BY <1>1, <2>2, <2>4 DEF Content, Slot
    <2>8. Content'[i] = IF b < len - 1 THEN undo'[b + 1] ELSE sRxBuffer'[slot]
      <3>1. Slot(i)' = slot
        BY <1>1, <1>2, <2>2 DEF Slot
      <3>2. Content'[i] = LET ahead == Masked(slot + (RingSize - dest'))
                          IN  IF ahead < Len(undo') THEN undo'[ahead + 1] ELSE sRxBuffer'[slot]
        BY <1>11, <3>1 DEF Content
      <3> QED
        BY <1>5, <2>4, <3>2
    <2>9. CASE i > done + 1
      <3>1. /\ a \in Nat \ {0} /\ b = a - 1 /\ (b < len - 1 <=> a < len)
            /\ (b < len - 1 => b + 1 \in 1 .. len - 1) /\ (b + 1) + 1 = a + 1
        BY <1>4, <1>5, <1>6, <2>1, <2>5, <2>6, <2>9
      <3>2. b < len - 1 => undo'[b + 1] = undo[a + 1]
        BY <1>5, <3>1
      <3>0. i # done + 1
        BY <1>4, <2>1, <2>9
      <3>3. slot # at
        BY <1>6, <1>8, <1>9, <2>1, <2>2, <3>0, SlotsDiffer
      <3>4. sRxBuffer'[slot] = sRxBuffer[slot]
        BY <1>2, <2>3, <3>3, RingTypes
      <3> QED
        BY <2>7, <2>8, <3>1, <3>2, <3>4
    <2>10. CASE i = done + 1
      <3>1. a = 0 /\ a < len /\ ~(b < len - 1)
        BY <1>4, <1>5, <1>6, <1>8, <2>1, <2>5, <2>6, <2>10
      <3>2. slot = at
        BY <1>9, <2>2, <2>10
      <3>3. sRxBuffer'[slot] = undo[1]
        BY <1>2, <1>5, <2>3, <3>2, RingTypes
      <3> QED
        BY <2>7, <2>8, <3>1, <3>3
    <2>11. CASE i <= done
      <3>1. ~(a < len) /\ ~(b < len - 1) /\ i # done + 1
        BY <1>4, <1>5, <1>6, <1>7, <1>8, <2>1, <2>5, <2>6, <2>11
      <3>2. slot # at
        BY <1>6, <1>8, <1>9, <2>1, <2>2, <3>1, SlotsDiffer
      <3>3. sRxBuffer'[slot] = sRxBuffer[slot]
        BY <1>2, <2>3, <3>2, RingTypes
      <3> QED
        BY <2>7, <2>8, <3>1, <3>3
    <2> QED
      BY <1>4, <2>1, <2>9, <2>10, <2>11
  <1>13. Content' = Content
    <2>1. Content' = [i \in 1 .. n |-> Content'[i]]
      BY <1>11 DEF Content
    <2>2. Content = [i \in 1 .. n |-> Content[i]]
      BY <1>1 DEF Content
    <2> QED
      BY <1>12, <2>1, <2>2
  <1>14. TypeOK'
    <2>1. sRxBuffer' \in [0 .. RingSize - 1 -> 0 .. MaxChars]
      <3>1. Head(undo) \in 0 .. MaxChars
        <4>1. PICK c : c = Head(undo)
          OBVIOUS
        <4>2. c \in Chars /\ MaxChars \in Nat
          BY <1>5, <4>1, RingTypes
        <4> QED
          BY <4>1, <4>2 DEF Chars
      <3> QED
        BY <1>2, <3>1, RingTypes
    <2>2. pc' \in {"idle", "asleep", "check", "read", "decode", "copy", "busy"}
      BY <1>2
    <2>3. sIdle' \in BOOLEAN
      BY <1>2 DEF RingInv, TypeOK
    <2> QED
      BY <1>2, <1>5, <1>10, <2>1, <2>2, <2>3, RingTypes DEF TypeOK, Chars
  <1>15. HeldRight' /\ IdleRight'
    <2>1. HeldRight'
      BY <1>2 DEF RingInv, HeldRight
    <2>2. IdleRight'
      BY <1>2 DEF IdleRight
    <2> QED
      BY <2>1, <2>2
  <1>16. CopyRight'
    <2>1. Copied(done + 1)'
      <3>1. PICK d : d = done + 1
        OBVIOUS
      <3>2. sRxBufRdIdx' = rd
        BY <1>1, <1>2
      <3>3. Copied(d)'
        BY <1>5, <1>8, <1>10, <1>11, <3>1, <3>2 DEF Copied
      <3> QED
        BY <3>1, <3>3
    <2> QED
      BY <1>2, <1>8, <2>1 DEF CopyRight
  <1>17. \A i \in 1 .. n : Content'[i] \in Chars
    BY <1>1, <1>12 DEF RingInv
  <1> QED
    BY <1>2, <1>11, <1>13, <1>14, <1>15, <1>16, <1>17 DEF RingInv, Fifo!fifoVars

(* What leaves the ring alone. *)
LEMMA RingAlone ==
  ASSUME RingInv,
         UNCHANGED <<sRxBuffer, sRxBufWrIdx, sRxBufRdIdx, sSioRxBuffer, undo, dest, arrived, taken>>
  PROVE  /\ SioGetNumRxChar' = SioGetNumRxChar /\ Content' = Content
         /\ \A done : Copied(done)' <=> Copied(done)
         /\ \A i \in 1 .. SioGetNumRxChar' : Content'[i] \in Chars
         /\ UNCHANGED Fifo!fifoVars
  <1>1. SioGetNumRxChar' = SioGetNumRxChar
    BY DEF SioGetNumRxChar
  <1>2. \A i : Slot(i)' = Slot(i)
    BY DEF Slot
  <1>3. Content' = Content
    BY <1>1, <1>2 DEF Content
  <1>4. \A done : Copied(done)' <=> Copied(done)
    BY <1>1 DEF Copied
  <1> QED
    BY <1>1, <1>3, <1>4 DEF RingInv, Fifo!fifoVars

LEMMA LoopStutters ==
  RingInv /\ (Idle \/ Wake \/ BusCheck \/ Busy \/ UNCHANGED vars) => RingInv' /\ UNCHANGED Fifo!fifoVars
  <1> SUFFICES ASSUME RingInv, Idle \/ Wake \/ BusCheck \/ Busy \/ UNCHANGED vars
               PROVE  RingInv' /\ UNCHANGED Fifo!fifoVars
    OBVIOUS
  <1>1. UNCHANGED <<sRxBuffer, sRxBufWrIdx, sRxBufRdIdx, sSioRxBuffer, undo, dest, arrived, taken>>
    BY DEF Idle, Wake, BusCheck, Busy, vars
  <1>2. /\ SioGetNumRxChar' = SioGetNumRxChar
        /\ \A done : Copied(done)' <=> Copied(done)
        /\ \A i \in 1 .. SioGetNumRxChar' : Content'[i] \in Chars
        /\ UNCHANGED Fifo!fifoVars
    BY <1>1, RingAlone
  <1>3. SioGetNumRxChar \in 0 .. RingSize - 1
    BY ContentIs
  <1>4. TypeOK'
    BY <1>1, <1>3 DEF RingInv, TypeOK, Idle, Wake, BusCheck, Busy, vars
  <1>5. HeldRight'
    BY <1>1 DEF RingInv, HeldRight, Idle, Wake, BusCheck, Busy, vars
  <1>6. CopyRight'
    <2>1. pc' = "copy" => pc = "copy"
      BY DEF Idle, Wake, BusCheck, Busy, vars
    <2>2. pc' # "copy" => undo = <<>>
      BY DEF RingInv, CopyRight, Idle, Wake, BusCheck, Busy, vars
    <2> QED
      BY <1>1, <1>2, <2>1, <2>2 DEF RingInv, CopyRight
  <1>7. IdleRight'
    BY <1>2 DEF RingInv, IdleRight, Idle, Wake, BusCheck, Busy, vars
  <1> QED
    BY <1>2, <1>4, <1>5, <1>6, <1>7 DEF RingInv

-----------------------------------------------------------------------------
LEMMA RingBegins == Init => RingInv /\ Fifo!FifoInit
  <1> SUFFICES ASSUME Init PROVE RingInv /\ Fifo!FifoInit
    OBVIOUS
  <1>1. RingSize \in Nat \ {0} /\ MaxChars \in Nat /\ Word \in Nat \ {0} /\ 0 \in 0 .. RingSize - 1 /\ 0 \in 0 .. Word - 1
    BY RingAssumption
  <1>2. SioGetNumRxChar = 0
    <2>1. Masked(0) = 0 /\ Ahead(0, 0) = 0
      BY <1>1, MaskedIs DEF Ahead
    <2> QED
      BY <1>1, <2>1, CountIs DEF Init, SioGetNumRxChar
  <1>3. TypeOK
    BY <1>1 DEF Init, TypeOK
  <1>4. HeldRight /\ CopyRight /\ IdleRight
    <2>1. Len(sSioRxBuffer) = 0
      BY DEF Init
    <2> QED
      BY <1>1, <1>2, <2>1 DEF Init, HeldRight, CopyRight, IdleRight
  <1>5. Content = <<>>
    BY <1>2 DEF Content
  <1> QED
    BY <1>2, <1>3, <1>4, <1>5 DEF RingInv, Fifo!FifoInit, Init

LEMMA RingSteps == RingInv /\ [Next]_vars => RingInv' /\ [Fifo!FifoNext]_(Fifo!fifoVars)
  <1> SUFFICES ASSUME RingInv, [Next]_vars PROVE RingInv' /\ [Fifo!FifoNext]_(Fifo!fifoVars)
    OBVIOUS
  <1>1. CASE RXComplete
    BY <1>1, RXCompletePuts DEF Fifo!FifoNext
  <1>2. CASE SioRead
    BY <1>2, SioReadTakes DEF Fifo!FifoNext
  <1>3. CASE BusDecode
    BY <1>3, BusDecodePutsBack DEF Fifo!FifoNext
  <1>4. CASE Copy
    BY <1>4, CopyStutters
  <1>5. CASE Idle \/ Wake \/ BusCheck \/ Busy \/ UNCHANGED vars
    BY <1>5, LoopStutters
  <1> QED
    BY <1>1, <1>2, <1>3, <1>4, <1>5 DEF Next

LEMMA RingInvariance == Spec => []RingInv
  <1>1. Init => RingInv
    BY RingBegins
  <1>2. RingInv /\ [Next]_vars => RingInv'
    BY RingSteps
  <1> QED
    BY <1>1, <1>2, PTL DEF Spec

-----------------------------------------------------------------------------
(* The queue on Linux *)
LinuxChars == 1 .. LinuxMaxChars

(* BusDecode finds the unread buffer empty, so that what it puts back always *)
(* fits: a read takes all of the unread buffer, which never has more         *)
(* characters than a read may take or SioGetNumRxChar may report.            *)
UnReadRight ==
  /\ Linux!UnReadBufLen <= LinuxMaxRead /\ Linux!UnReadBufLen <= MaxNum
  /\ linuxPc = "read" => Linux!UnReadBufLen <= linuxNum
  /\ linuxPc = "decode" => Linux!UnReadBufLen = 0
  /\ linuxPc # "decode" => linuxBuffer = <<>>
  /\ Len(linuxBuffer) <= LinuxMaxRead /\ Len(linuxBuffer) <= MaxNum
  /\ Len(linuxBuffer) + (Linux!UnReadBufLen + Len(input)) <= linuxArrived

LinuxTypes ==
  /\ unRead \in [0 .. UnReadSize - 1 -> 0 .. LinuxMaxChars]
  /\ bufIdxWr \in 0 .. UnReadSize - 1 /\ bufIdxRd \in 0 .. UnReadSize - 1
  /\ input \in Seq(LinuxChars) /\ linuxPc \in {"check", "read", "decode"} /\ linuxNum \in 0 .. MaxNum
  /\ linuxBuffer \in Seq(LinuxChars)
  /\ linuxArrived \in 0 .. LinuxMaxChars /\ linuxTaken \in Seq(LinuxChars)

LinuxInv ==
  /\ LinuxTypes /\ UnReadRight
  /\ \A i \in 1 .. Linux!UnReadBufLen : Linux!UnReadChars[i] \in LinuxChars

LEMMA LinuxBounds ==
  /\ UnReadSize \in Nat \ {0} /\ LinuxMaxRead \in Nat \ {0} /\ LinuxMaxRead <= UnReadSize - 1
  /\ MaxNum \in Nat /\ LinuxMaxChars \in Nat
  BY LinuxConstants DEF Linux!LinuxConstantsOK

LEMMA LinuxMasked ==
  ASSUME NEW x \in 0 .. (2 * UnReadSize) - 1
  PROVE  /\ Linux!Masked(x) = IF x < UnReadSize THEN x ELSE x - UnReadSize
         /\ Linux!Masked(x) \in 0 .. UnReadSize - 1
  <1>1. CASE x < UnReadSize
    BY <1>1, LinuxBounds DEF Linux!Masked
  <1>2. CASE ~(x < UnReadSize)
    <2>1. (x - UnReadSize) \in 0 .. UnReadSize - 1 /\ x = UnReadSize + (x - UnReadSize)
      BY <1>2, LinuxBounds
    <2>2. (UnReadSize + (x - UnReadSize)) % UnReadSize = (x - UnReadSize) % UnReadSize
      BY <2>1, LinuxBounds
    <2>3. (x - UnReadSize) % UnReadSize = x - UnReadSize
      BY <2>1, LinuxBounds
    <2> QED
      BY <1>2, <2>1, <2>2, <2>3 DEF Linux!Masked
  <1> QED
    BY <1>1, <1>2

LEMMA UnReadLength ==
  ASSUME NEW wr \in 0 .. UnReadSize - 1, NEW rd \in 0 .. UnReadSize - 1
  PROVE  /\ Linux!Masked(wr + (UnReadSize - rd)) = IF wr >= rd THEN wr - rd ELSE (wr + UnReadSize) - rd
         /\ Linux!Masked(wr + (UnReadSize - rd)) \in 0 .. UnReadSize - 1
  <1>1. wr + (UnReadSize - rd) \in 0 .. (2 * UnReadSize) - 1
    BY LinuxBounds
  <1>2. PICK x : x = wr + (UnReadSize - rd)
    OBVIOUS
  <1>3. Linux!Masked(x) = (IF x < UnReadSize THEN x ELSE x - UnReadSize) /\ Linux!Masked(x) \in 0 .. UnReadSize - 1
    BY <1>1, <1>2, LinuxMasked
  <1>4. (IF x < UnReadSize THEN x ELSE x - UnReadSize) = IF wr >= rd THEN wr - rd ELSE (wr + UnReadSize) - rd
    BY <1>2, LinuxBounds
  <1> QED
    BY <1>2, <1>3, <1>4

(* The unread buffer is a sequence of as many characters, and the queue is *)
(* what it holds followed by the driver's queue.                           *)
LEMMA UnReadIs ==
  ASSUME LinuxInv
  PROVE  /\ Linux!UnReadBufLen \in 0 .. UnReadSize - 1
         /\ Linux!UnReadChars \in Seq(LinuxChars) /\ Len(Linux!UnReadChars) = Linux!UnReadBufLen
         /\ Linux!UnReadChars \o input \in Seq(LinuxChars)
         /\ Len(Linux!UnReadChars \o input) = Linux!UnReadBufLen + Len(input)
         /\ Len(input) \in Nat /\ Len(linuxBuffer) \in Nat
  <1>1. bufIdxWr \in 0 .. UnReadSize - 1 /\ bufIdxRd \in 0 .. UnReadSize - 1 /\ input \in Seq(LinuxChars)
    BY DEF LinuxInv, LinuxTypes
  <1>2. Linux!UnReadBufLen \in 0 .. UnReadSize - 1
    BY <1>1, UnReadLength DEF Linux!UnReadBufLen
  <1>3. Linux!UnReadChars = [i \in 1 .. Linux!UnReadBufLen |-> Linux!UnReadChars[i]]
    BY DEF Linux!UnReadChars
  <1>4. Linux!UnReadChars \in Seq(LinuxChars) /\ Len(Linux!UnReadChars) = Linux!UnReadBufLen
    <2>1. PICK u, s : u = Linux!UnReadBufLen /\ s = Linux!UnReadChars
      OBVIOUS
    <2>2. u \in Nat /\ s = [i \in 1 .. u |-> s[i]] /\ \A i \in 1 .. u : s[i] \in LinuxChars
      BY <1>2, <1>3, <2>1, LinuxBounds DEF LinuxInv
    <2>3. s \in Seq(LinuxChars) /\ Len(s) = u
      BY <2>2
    <2> QED
      BY <2>1, <2>3
  <1>5. Linux!UnReadChars \o input \in Seq(LinuxChars) /\ Len(Linux!UnReadChars \o input) = Linux!UnReadBufLen + Len(input)
    BY <1>1, <1>4, ConcatProperties
  <1>6. Len(input) \in Nat /\ Len(linuxBuffer) \in Nat
    BY DEF LinuxInv, LinuxTypes
  <1> QED
    BY <1>2, <1>4, <1>5, <1>6

(* What has arrived fits into the queue. *)
LEMMA LinuxFits ==
  ASSUME NEW s \in Seq(LinuxChars), Len(s) <= LinuxMaxChars
  PROVE  Linux!Fifo!Fitting(s) = s
  <1>1. ~(Len(s) > LinuxMaxChars)
    BY LinuxBounds
  <1> QED
    BY <1>1, SubSeqFull DEF Linux!Fifo!Fitting

-----------------------------------------------------------------------------
LEMMA ArrivePuts == LinuxInv /\ Linux!Arrive => LinuxInv' /\ Linux!Fifo!Put
  <1> SUFFICES ASSUME LinuxInv, Linux!Arrive PROVE LinuxInv' /\ Linux!Fifo!Put
    OBVIOUS
  <1>1. /\ linuxArrived' = linuxArrived + 1 /\ linuxArrived' \in LinuxChars /\ linuxArrived' \in 0 .. LinuxMaxChars
        /\ input' = Append(input, linuxArrived') /\ input \in Seq(LinuxChars)
        /\ UNCHANGED <<unRead, bufIdxWr, bufIdxRd, linuxPc, linuxNum, linuxBuffer, linuxTaken>>
    BY LinuxBounds DEF LinuxInv, LinuxTypes, LinuxChars, Linux!Arrive
  <1>2. input' \in Seq(LinuxChars) /\ Len(input') = Len(input) + 1
    BY <1>1
  <1>3. Linux!UnReadBufLen' = Linux!UnReadBufLen
    BY <1>1 DEF Linux!UnReadBufLen
  <1>4. Linux!UnReadChars' = Linux!UnReadChars
    BY <1>1, <1>3 DEF Linux!UnReadChars
  <1>5. LinuxTypes'
    BY <1>1, <1>2 DEF LinuxInv, LinuxTypes
  <1>6. /\ Len(linuxBuffer) + (Linux!UnReadBufLen + Len(input)) <= linuxArrived
        /\ linuxArrived \in Nat /\ Len(linuxBuffer) \in Nat /\ Len(input) \in Nat /\ Linux!UnReadBufLen \in Nat
    BY UnReadIs, LinuxBounds, SMTT(20) DEF LinuxInv, LinuxTypes, UnReadRight
  <1>7. UnReadRight'
    <2>1. Len(linuxBuffer') + (Linux!UnReadBufLen' + Len(input')) <= linuxArrived'
      <3>1. Len(linuxBuffer) + (Linux!UnReadBufLen + (Len(input) + 1)) <= linuxArrived + 1
        BY <1>6
      <3> QED
        BY <1>1, <1>2, <1>3, <3>1
    <2> QED
      BY <1>1, <1>3, <2>1 DEF LinuxInv, UnReadRight
  <1>8. LinuxInv'
    BY <1>3, <1>4, <1>5, <1>7 DEF LinuxInv
  <1>9. Linux!Fifo!Put
    <2>1. PICK u, q : u = Linux!UnReadChars /\ q = u \o input
      OBVIOUS
    <2>2. u \in Seq(LinuxChars) /\ q \in Seq(LinuxChars) /\ Len(q) = Linux!UnReadBufLen + Len(input)
      BY <2>1, UnReadIs
    <2>3. u \o Append(input, linuxArrived') = Append(q, linuxArrived')
      BY <1>1, <2>1, <2>2
    <2>4. Append(q, linuxArrived') \in Seq(LinuxChars) /\ Len(Append(q, linuxArrived')) = Len(q) + 1
      BY <1>1, <2>2
    <2>5. Len(Append(q, linuxArrived')) <= LinuxMaxChars
      <3>1. Len(q) + 1 <= linuxArrived + 1 /\ linuxArrived + 1 <= LinuxMaxChars
        <4>1. linuxArrived + 1 \in 0 .. LinuxMaxChars
          BY <1>1
        <4>2. Len(q) <= linuxArrived
          BY <1>6, <2>2
        <4> QED
          BY <1>6, <2>2, <4>1, <4>2, LinuxBounds
      <3> QED
        BY <1>6, <2>2, <2>4, <3>1, LinuxBounds
    <2>6. Linux!Fifo!Fitting(Append(q, linuxArrived')) = Append(q, linuxArrived')
      BY <2>4, <2>5, LinuxFits
    <2> QED
      BY <1>1, <1>4, <2>1, <2>3, <2>6 DEF Linux!Fifo!Put
  <1> QED
    BY <1>8, <1>9

LEMMA CheckStutters ==
  LinuxInv /\ (Linux!SioGetNumRxChar \/ UNCHANGED linuxVars) => LinuxInv' /\ UNCHANGED Linux!Fifo!fifoVars
  <1> SUFFICES ASSUME LinuxInv, Linux!SioGetNumRxChar \/ UNCHANGED linuxVars
               PROVE  LinuxInv' /\ UNCHANGED Linux!Fifo!fifoVars
    OBVIOUS
  <1>1. UNCHANGED <<unRead, bufIdxWr, bufIdxRd, input, linuxBuffer, linuxArrived, linuxTaken>>
    BY DEF Linux!SioGetNumRxChar, linuxVars
  <1>2. Linux!UnReadBufLen' = Linux!UnReadBufLen
    BY <1>1 DEF Linux!UnReadBufLen
  <1>3. Linux!UnReadChars' = Linux!UnReadChars
    BY <1>1, <1>2 DEF Linux!UnReadChars
  <1>4. CASE UNCHANGED linuxVars
    <2>1. LinuxTypes' /\ UnReadRight'
      BY <1>2, <1>4 DEF LinuxInv, LinuxTypes, UnReadRight, linuxVars
    <2> QED
      BY <1>1, <1>2, <1>3, <2>1 DEF LinuxInv, Linux!Fifo!fifoVars
  <1>5. CASE Linux!SioGetNumRxChar
    <2>1. PICK n : n = Linux!Lesser(Len(input) + Linux!UnReadBufLen, MaxNum)
      OBVIOUS
    <2>2. linuxPc = "check" /\ linuxNum' = n /\ linuxPc' \in {"check", "read"}
      BY <1>5, <2>1 DEF Linux!SioGetNumRxChar
    <2>3. Linux!UnReadBufLen <= MaxNum /\ Linux!UnReadBufLen \in Nat /\ Len(input) \in Nat
      BY UnReadIs, LinuxBounds DEF LinuxInv, UnReadRight
    <2>4. n \in 0 .. MaxNum /\ Linux!UnReadBufLen <= n
      BY <2>1, <2>3, LinuxBounds DEF Linux!Lesser
    <2>5. LinuxTypes'
      BY <1>1, <2>2, <2>4 DEF LinuxInv, LinuxTypes
    <2>6. UnReadRight'
      BY <1>1, <1>2, <2>2, <2>4 DEF LinuxInv, UnReadRight
    <2> QED
      BY <1>1, <1>2, <1>3, <2>5, <2>6 DEF LinuxInv, Linux!Fifo!fifoVars
  <1> QED
    BY <1>4, <1>5

LEMMA LinuxReadTakes == LinuxInv /\ Linux!SioRead => LinuxInv' /\ (Linux!Fifo!Take \/ UNCHANGED Linux!Fifo!fifoVars)
  <1> SUFFICES ASSUME LinuxInv, Linux!SioRead PROVE LinuxInv' /\ (Linux!Fifo!Take \/ UNCHANGED Linux!Fifo!fifoVars)
    OBVIOUS
  <1>1. PICK u, chars, size, rest :
          /\ u = Linux!UnReadBufLen /\ chars = Linux!UnReadChars
          /\ size = Linux!Lesser(linuxNum, LinuxMaxRead)
          /\ rest = Linux!Lesser(size - u, Len(input))
    OBVIOUS
  <1>2. /\ u \in 0 .. UnReadSize - 1 /\ chars \in Seq(LinuxChars) /\ Len(chars) = u
        /\ input \in Seq(LinuxChars) /\ Len(input) \in Nat
        /\ bufIdxWr \in 0 .. UnReadSize - 1 /\ bufIdxRd \in 0 .. UnReadSize - 1
    BY <1>1, UnReadIs DEF LinuxInv, LinuxTypes
  <1>3. linuxPc = "read" /\ linuxPc' = "decode" /\ UNCHANGED <<unRead, bufIdxWr, linuxNum, linuxArrived, linuxTaken>>
    BY DEF Linux!SioRead
  <1>4. /\ linuxBuffer = <<>> /\ u + Len(input) <= linuxArrived
        /\ u <= linuxNum /\ u <= LinuxMaxRead /\ linuxNum \in 0 .. MaxNum
    <2>1. linuxBuffer = <<>> /\ u <= linuxNum /\ u <= LinuxMaxRead /\ linuxNum \in 0 .. MaxNum
      BY <1>1, <1>3 DEF LinuxInv, UnReadRight, LinuxTypes
    <2>2. Len(linuxBuffer) + (u + Len(input)) <= linuxArrived /\ Len(linuxBuffer) = 0
      BY <1>1, <2>1 DEF LinuxInv, UnReadRight
    <2>3. u + Len(input) <= linuxArrived
      BY <1>2, <2>2, LinuxBounds
    <2> QED
      BY <2>1, <2>3
  <1>5. /\ size \in Nat /\ u <= size /\ size <= LinuxMaxRead /\ size <= MaxNum
        /\ rest \in Nat /\ u + rest <= size /\ rest <= Len(input)
    <2>1. size \in Nat /\ u <= size /\ size <= LinuxMaxRead /\ size <= MaxNum
      BY <1>1, <1>4, LinuxBounds DEF Linux!Lesser
    <2>2. size - u \in Nat
      BY <1>2, <2>1
    <2>3. rest \in Nat /\ rest <= size - u /\ rest <= Len(input)
      BY <1>1, <1>2, <2>2 DEF Linux!Lesser
    <2> QED
      BY <1>2, <2>1, <2>2, <2>3, LinuxBounds
  <1>6. Linux!Lesser(size, u) = u
    BY <1>2, <1>5 DEF Linux!Lesser
  <1>7. /\ linuxBuffer' = SubSeq(chars, 1, u) \o SubSeq(input, 1, rest)
        /\ bufIdxRd' = Linux!Masked(bufIdxRd + u)
        /\ input' = SubSeq(input, rest + 1, Len(input))
    BY <1>1, <1>6 DEF Linux!SioRead, Linux!Joined
  <1>8. SubSeq(chars, 1, u) = chars
    BY <1>2, SubSeqFull
  <1>9. bufIdxRd' = bufIdxWr
    <2>1. u = IF bufIdxWr >= bufIdxRd THEN bufIdxWr - bufIdxRd ELSE (bufIdxWr + UnReadSize) - bufIdxRd
      BY <1>1, <1>2, UnReadLength DEF Linux!UnReadBufLen
    <2>2. bufIdxRd + u \in 0 .. (2 * UnReadSize) - 1
      BY <1>2, LinuxBounds
    <2>3. PICK x : x = bufIdxRd + u
      OBVIOUS
    <2>4. Linux!Masked(x) = IF x < UnReadSize THEN x ELSE x - UnReadSize
      BY <2>2, <2>3, LinuxMasked
    <2>5. (IF x < UnReadSize THEN x ELSE x - UnReadSize) = bufIdxWr
      BY <1>2, <2>1, <2>3, LinuxBounds
    <2> QED
      BY <1>7, <2>3, <2>4, <2>5
  <1>10. Linux!UnReadBufLen' = 0 /\ Linux!UnReadChars' = <<>>
    <2>1. Linux!UnReadBufLen' = Linux!Masked(bufIdxWr + (UnReadSize - bufIdxWr))
      BY <1>3, <1>9 DEF Linux!UnReadBufLen
    <2>2. Linux!Masked(bufIdxWr + (UnReadSize - bufIdxWr)) = 0
      BY <1>2, UnReadLength, LinuxBounds
    <2> QED
      BY <2>1, <2>2 DEF Linux!UnReadChars
  <1>11. PICK front, back : front = SubSeq(input, 1, rest) /\ back = SubSeq(input, rest + 1, Len(input))
    OBVIOUS
  <1>12. /\ front \in Seq(LinuxChars) /\ Len(front) = rest /\ \A i \in 1 .. rest : front[i] = input[i]
         /\ back \in Seq(LinuxChars) /\ Len(back) = Len(input) - rest
         /\ \A i \in 1 .. Len(input) - rest : back[i] = input[rest + i]
    <2>1. rest \in Nat /\ Len(input) \in Nat /\ rest <= Len(input) /\ input \in Seq(LinuxChars)
      BY <1>2, <1>5
    <2>2. front \in Seq(LinuxChars) /\ Len(front) = rest /\ \A i \in 1 .. rest : front[i] = input[i]
      BY <1>11, <2>1
    <2>3. /\ back \in Seq(LinuxChars) /\ Len(back) = Len(input) - rest
          /\ \A i \in 1 .. Len(input) - rest : back[i] = input[rest + i]
      BY <1>11, <2>1
    <2> QED
      BY <2>2, <2>3
  <1>13. PICK held : held = chars \o front
    OBVIOUS
  <1>14. /\ linuxBuffer' = held /\ input' = back /\ held \in Seq(LinuxChars) /\ Len(held) = u + rest
         /\ \A i \in 1 .. u + rest : held[i] = IF i <= u THEN chars[i] ELSE front[i - u]
    <2>1. linuxBuffer' = held /\ input' = back
      BY <1>7, <1>8, <1>11, <1>13
    <2> QED
      BY <1>2, <1>12, <1>13, <2>1, ConcatProperties
  <1>15. LinuxTypes'
    BY <1>2, <1>3, <1>9, <1>12, <1>14 DEF LinuxInv, LinuxTypes
  <1>16. UnReadRight'
    <2>1. Len(held) <= LinuxMaxRead /\ Len(held) <= MaxNum
      BY <1>2, <1>5, <1>14, LinuxBounds
    <2>2. Len(held) + (0 + Len(back)) <= linuxArrived
      <3>1. linuxArrived \in Nat /\ (u + rest) + (0 + (Len(input) - rest)) = u + Len(input)
        BY <1>2, <1>5, LinuxBounds DEF LinuxInv, LinuxTypes
      <3> QED
        BY <1>4, <1>12, <1>14, <3>1
    <2>3. 0 <= LinuxMaxRead /\ 0 <= MaxNum
      BY LinuxBounds
    <2> QED
      BY <1>3, <1>10, <1>14, <2>1, <2>2, <2>3 DEF UnReadRight
  <1>17. LinuxInv'
    <2>1. \A i \in 1 .. Linux!UnReadBufLen' : Linux!UnReadChars'[i] \in LinuxChars
      BY <1>10
    <2> QED
      BY <1>15, <1>16, <2>1 DEF LinuxInv
  <1>18. PICK q, k : q = chars \o input /\ k = u + rest
    OBVIOUS
  <1>19. /\ q \in Seq(LinuxChars) /\ Len(q) = u + Len(input)
         /\ \A i \in 1 .. u + Len(input) : q[i] = IF i <= u THEN chars[i] ELSE input[i - u]
    BY <1>2, <1>18, ConcatProperties
  <1>20. k \in Nat /\ k <= Len(q)
    BY <1>2, <1>5, <1>18, <1>19
  <1>21. held = SubSeq(q, 1, k)
    <2>1. SubSeq(q, 1, k) \in Seq(LinuxChars) /\ Len(SubSeq(q, 1, k)) = k /\ \A i \in 1 .. k : SubSeq(q, 1, k)[i] = q[i]
      BY <1>19, <1>20
    <2>2. ASSUME NEW i \in 1 .. k PROVE held[i] = q[i]
      <3>1. i \in 1 .. u + rest /\ i \in 1 .. u + Len(input)
        BY <1>2, <1>5, <1>18, <1>20
      <3>2. CASE i <= u
        BY <1>14, <1>19, <3>1, <3>2
      <3>3. CASE ~(i <= u)
        <4>1. i - u \in 1 .. rest
          BY <1>2, <1>5, <3>1, <3>3
        <4> QED
          BY <1>12, <1>14, <1>19, <3>1, <3>3, <4>1
      <3> QED
        BY <3>2, <3>3
    <2> QED
      BY <1>14, <1>18, <2>1, <2>2, SeqEqual
  <1>22. back = SubSeq(q, k + 1, Len(q))
    <2>1. /\ SubSeq(q, k + 1, Len(q)) \in Seq(LinuxChars) /\ Len(SubSeq(q, k + 1, Len(q))) = Len(q) - k
          /\ \A i \in 1 .. Len(q) - k : SubSeq(q, k + 1, Len(q))[i] = q[k + i]
      BY <1>19, <1>20
    <2>2. Len(back) = Len(q) - k
      BY <1>2, <1>5, <1>12, <1>18, <1>19
    <2>3. ASSUME NEW i \in 1 .. Len(q) - k PROVE back[i] = q[k + i]
      <3>1. i \in 1 .. Len(input) - rest /\ k + i \in 1 .. u + Len(input) /\ ~(k + i <= u) /\ (k + i) - u = rest + i
        BY <1>2, <1>5, <1>18, <1>19
      <3> QED
        BY <1>12, <1>19, <3>1
    <2> QED
      BY <1>12, <2>1, <2>2, <2>3, SeqEqual
  <1>23. Linux!UnReadChars' \o input' = back
    BY <1>10, <1>12, <1>14, ConcatEmptySeq
  <1>24. Linux!Fifo!Take \/ UNCHANGED Linux!Fifo!fifoVars
    <2>1. CASE k = 0
      <3>1. held = <<>>
        BY <1>14, <1>18, <2>1, EmptySeq
      <3>2. back = q
        <4>1. SubSeq(q, 1, Len(q)) = q /\ k + 1 = 1
          BY <1>19, <2>1, SubSeqFull
        <4> QED
          BY <1>22, <4>1
      <3> QED
        BY <1>1, <1>3, <1>4, <1>14, <1>18, <1>23, <3>1, <3>2 DEF Linux!Fifo!fifoVars
    <2>2. CASE k # 0
      <3>1. k \in 1 .. Len(q)
        BY <1>19, <1>20, <2>2
      <3>2. q = Linux!UnReadChars \o input
        BY <1>1, <1>18
      <3> QED
        BY <1>3, <1>4, <1>14, <1>21, <1>22, <1>23, <3>1, <3>2 DEF Linux!Fifo!Take
    <2> QED
      BY <2>1, <2>2
  <1> QED
    BY <1>17, <1>24

LEMMA LinuxDecodePutsBack ==
  LinuxInv /\ Linux!BusDecode => LinuxInv' /\ (Linux!Fifo!PutBack \/ UNCHANGED Linux!Fifo!fifoVars)
  <1> SUFFICES ASSUME LinuxInv, Linux!BusDecode
               PROVE  LinuxInv' /\ (Linux!Fifo!PutBack \/ UNCHANGED Linux!Fifo!fifoVars)
    OBVIOUS
  <1>1. PICK held, wr, rd : held = linuxBuffer /\ wr = bufIdxWr /\ rd = bufIdxRd
    OBVIOUS
  <1>2. /\ linuxPc = "decode" /\ linuxBuffer' = <<>> /\ linuxPc' = "check"
        /\ UNCHANGED <<input, linuxNum, linuxArrived>>
    BY DEF Linux!BusDecode
  <1>3. PICK k \in 0 .. Len(held) :
          /\ linuxTaken' = linuxTaken \o SubSeq(held, 1, k)
          /\ unRead' = [i \in DOMAIN unRead |->
               LET ahead == Linux!Masked(i + (UnReadSize - wr))
               IN  IF ahead < Len(held) - k THEN held[(k + 1) + ahead] ELSE unRead[i]]
          /\ bufIdxRd' = IF (UnReadSize - 1) - Linux!UnReadBufLen < Len(held) - k
                         THEN Linux!Masked(Linux!Masked(wr + (Len(held) - k)) + 1) ELSE rd
          /\ bufIdxWr' = Linux!Masked(wr + (Len(held) - k))
    BY <1>1 DEF Linux!BusDecode
  <1>4. PICK size, rest : size = Len(held) - k /\ rest = SubSeq(held, k + 1, Len(held))
    OBVIOUS
  <1>5. /\ UnReadSize \in Nat \ {0} /\ wr \in 0 .. UnReadSize - 1 /\ rd \in 0 .. UnReadSize - 1
        /\ held \in Seq(LinuxChars) /\ Len(held) \in Nat /\ input \in Seq(LinuxChars) /\ Len(input) \in Nat
        /\ unRead \in [0 .. UnReadSize - 1 -> 0 .. LinuxMaxChars]
        /\ linuxArrived \in 0 .. LinuxMaxChars /\ linuxTaken \in Seq(LinuxChars)
    BY <1>1, LinuxBounds DEF LinuxInv, LinuxTypes
  <1>6. /\ Linux!UnReadBufLen = 0 /\ Len(held) <= LinuxMaxRead /\ Len(held) <= MaxNum
        /\ Len(held) + (0 + Len(input)) <= linuxArrived
    BY <1>1, <1>2 DEF LinuxInv, UnReadRight
  <1>7. /\ size \in Nat /\ size <= Len(held) /\ size <= UnReadSize - 1 /\ k \in Nat /\ k + size = Len(held)
        /\ size <= LinuxMaxRead /\ size <= MaxNum
    <2>1. PICK len : len = Len(held)
      OBVIOUS
    <2>2. len \in Nat /\ k \in 0 .. len /\ size = len - k /\ len <= LinuxMaxRead /\ len <= MaxNum
      BY <1>3, <1>4, <1>5, <1>6, <2>1
    <2>3. /\ size \in Nat /\ size <= len /\ size <= UnReadSize - 1 /\ k \in Nat /\ k + size = len
          /\ size <= LinuxMaxRead /\ size <= MaxNum
      BY <2>2, LinuxBounds
    <2> QED
      BY <2>1, <2>3
  <1>8. rest \in Seq(LinuxChars) /\ Len(rest) = size /\ \A i \in 1 .. size : rest[i] = held[k + i]
    <2>1. k \in Nat /\ Len(held) \in Nat /\ k <= Len(held) /\ held \in Seq(LinuxChars)
      BY <1>3, <1>5
    <2> QED
      BY <1>4, <2>1
  <1>9. rd = wr
    <2>1. (IF wr >= rd THEN wr - rd ELSE (wr + UnReadSize) - rd) = 0
      BY <1>1, <1>5, <1>6, UnReadLength DEF Linux!UnReadBufLen
    <2> QED
      BY <1>5, <2>1
  <1>10. PICK wrIdx : wrIdx = Linux!Masked(wr + size)
    OBVIOUS
  <1>11. wrIdx = (IF wr + size < UnReadSize THEN wr + size ELSE (wr + size) - UnReadSize) /\ wrIdx \in 0 .. UnReadSize - 1
    <2>1. wr + size \in 0 .. (2 * UnReadSize) - 1
      BY <1>5, <1>7
    <2> QED
      BY <1>10, <2>1, LinuxMasked
  <1>12. bufIdxWr' = wrIdx /\ bufIdxRd' = wr
    <2>1. ~((UnReadSize - 1) - 0 < size)
      BY <1>5, <1>7
    <2> QED
      BY <1>3, <1>4, <1>6, <1>9, <1>10, <2>1
  <1>13. Linux!UnReadBufLen' = size
    <2>1. Linux!UnReadBufLen' = Linux!Masked(wrIdx + (UnReadSize - wr))
      BY <1>12 DEF Linux!UnReadBufLen
    <2>2. Linux!Masked(wrIdx + (UnReadSize - wr)) = IF wrIdx >= wr THEN wrIdx - wr ELSE (wrIdx + UnReadSize) - wr
      BY <1>5, <1>11, UnReadLength
    <2>3. (IF wrIdx >= wr THEN wrIdx - wr ELSE (wrIdx + UnReadSize) - wr) = size
      BY <1>5, <1>7, <1>11
    <2> QED
      BY <2>1, <2>2, <2>3
  <1>14. unRead' \in [0 .. UnReadSize - 1 -> 0 .. LinuxMaxChars]
    <2>1. ASSUME NEW i \in 0 .. UnReadSize - 1
          PROVE  LET ahead == Linux!Masked(i + (UnReadSize - wr))
                 IN  (IF ahead < size THEN held[(k + 1) + ahead] ELSE unRead[i]) \in 0 .. LinuxMaxChars
      <3>1. PICK ahead : ahead = Linux!Masked(i + (UnReadSize - wr))
        OBVIOUS
      <3>2. ahead \in 0 .. UnReadSize - 1
        BY <1>5, <3>1, UnReadLength
      <3>3. CASE ahead < size
        <4>1. (k + 1) + ahead \in 1 .. Len(held)
          BY <1>5, <1>7, <3>2, <3>3
        <4>2. held[(k + 1) + ahead] \in LinuxChars
          BY <1>5, <4>1
        <4> QED
          BY <3>1, <3>3, <4>2, LinuxBounds DEF LinuxChars
      <3>4. CASE ~(ahead < size)
        BY <1>5, <3>1, <3>4
      <3> QED
        BY <3>3, <3>4
    <2>2. DOMAIN unRead = 0 .. UnReadSize - 1
      BY <1>5
    <2> QED
      BY <1>3, <1>4, <2>1, <2>2
  <1>15. ASSUME NEW i \in 1 .. size PROVE Linux!UnReadChars'[i] = rest[i]
    <2>1. PICK at : at = Linux!Masked(wr + (i - 1))
      OBVIOUS
    <2>2. /\ at = IF wr + (i - 1) < UnReadSize THEN wr + (i - 1) ELSE (wr + (i - 1)) - UnReadSize
          /\ at \in 0 .. UnReadSize - 1
      <3>1. wr + (i - 1) \in 0 .. (2 * UnReadSize) - 1
        BY <1>5, <1>7
      <3> QED
        BY <2>1, <3>1, LinuxMasked
    <2>3. Linux!Masked(at + (UnReadSize - wr)) = i - 1
      <3>1. Linux!Masked(at + (UnReadSize - wr)) = IF at >= wr THEN at - wr ELSE (at + UnReadSize) - wr
        BY <1>5, <2>2, UnReadLength
      <3>2. (IF at >= wr THEN at - wr ELSE (at + UnReadSize) - wr) = i - 1
        BY <1>5, <1>7, <2>2
      <3> QED
        BY <3>1, <3>2
    <2>4. i - 1 < size /\ (k + 1) + (i - 1) = k + i
      BY <1>7
    <2>5. unRead'[at] = held[k + i]
      BY <1>3, <1>4, <1>5, <2>2, <2>3, <2>4
    <2>6. Linux!UnReadChars'[i] = unRead'[at]
      BY <1>12, <1>13, <2>1 DEF Linux!UnReadChars
    <2> QED
      BY <1>8, <2>5, <2>6
  <1>16. Linux!UnReadChars' = rest
    <2>1. Linux!UnReadChars' = [i \in 1 .. size |-> Linux!UnReadChars'[i]]
      BY <1>13 DEF Linux!UnReadChars
    <2>2. rest = [i \in 1 .. size |-> rest[i]]
      BY <1>8
    <2> QED
      BY <1>15, <2>1, <2>2
  <1>17. LinuxTypes'
    <2>1. linuxTaken' \in Seq(LinuxChars)
      <3>1. SubSeq(held, 1, k) \in Seq(LinuxChars)
        BY <1>3, <1>5
      <3> QED
        BY <1>3, <1>5, <3>1
    <2>2. linuxNum' \in 0 .. MaxNum
      BY <1>2 DEF LinuxInv, LinuxTypes
    <2> QED
      <3>1. linuxBuffer' \in Seq(LinuxChars) /\ input' \in Seq(LinuxChars)
        BY <1>2, <1>5
      <3>2. linuxPc' \in {"check", "read", "decode"} /\ linuxArrived' \in 0 .. LinuxMaxChars
        BY <1>2, <1>5
      <3>3. bufIdxWr' \in 0 .. UnReadSize - 1 /\ bufIdxRd' \in 0 .. UnReadSize - 1
        BY <1>5, <1>11, <1>12
      <3> QED
        BY <1>14, <2>1, <2>2, <3>1, <3>2, <3>3 DEF LinuxTypes
  <1>18. UnReadRight'
    <2>1. Len(linuxBuffer') = 0
      BY <1>2
    <2>2. 0 + (size + Len(input)) <= linuxArrived /\ 0 <= LinuxMaxRead /\ 0 <= MaxNum
      BY <1>5, <1>6, <1>7, LinuxBounds
    <2> QED
      BY <1>2, <1>7, <1>13, <2>1, <2>2 DEF UnReadRight
  <1>19. LinuxInv'
    <2>1. \A i \in 1 .. size : rest[i] \in LinuxChars
      BY <1>8
    <2> QED
      BY <1>13, <1>16, <1>17, <1>18, <2>1 DEF LinuxInv
  <1>20. Linux!UnReadChars = <<>> /\ Linux!UnReadChars \o input = input
    <2>1. Linux!UnReadChars = <<>>
      BY <1>6 DEF Linux!UnReadChars
    <2> QED
      BY <1>5, <2>1, ConcatEmptySeq
  <1>21. Linux!Fifo!Fitting(rest \o input) = rest \o input
    <2>1. rest \o input \in Seq(LinuxChars) /\ Len(rest \o input) = size + Len(input)
      BY <1>5, <1>8, ConcatProperties
    <2>2. size + Len(input) <= LinuxMaxChars
      BY <1>5, <1>6, <1>7, LinuxBounds
    <2> QED
      BY <2>1, <2>2, LinuxFits
  <1>22. Linux!Fifo!PutBack \/ UNCHANGED Linux!Fifo!fifoVars
    <2>1. CASE held = <<>>
      <3>1. size = 0 /\ k = 0
        BY <1>3, <1>4, <2>1
      <3>2. rest = <<>> /\ SubSeq(held, 1, k) = <<>>
        BY <1>8, <2>1, <3>1, EmptySeq
      <3>3. linuxTaken' = linuxTaken
        BY <1>3, <1>5, <3>2, ConcatEmptySeq
      <3>4. Linux!UnReadChars' = Linux!UnReadChars
        BY <1>16, <1>20, <3>2
      <3> QED
        BY <1>1, <1>2, <2>1, <3>3, <3>4 DEF Linux!Fifo!fifoVars
    <2>2. CASE held # <<>>
      BY <1>1, <1>2, <1>3, <1>4, <1>16, <1>20, <1>21, <2>2 DEF Linux!Fifo!PutBack
    <2> QED
      BY <2>1, <2>2
  <1> QED
    BY <1>19, <1>22

LEMMA LinuxBegins == Linux!Init => LinuxInv /\ Linux!Fifo!FifoInit
  <1> SUFFICES ASSUME Linux!Init PROVE LinuxInv /\ Linux!Fifo!FifoInit
    OBVIOUS
  <1>1. Linux!UnReadBufLen = 0
    <2>1. 0 \in 0 .. UnReadSize - 1
      BY LinuxBounds
    <2>2. Linux!Masked(0 + (UnReadSize - 0)) = 0
      BY <2>1, UnReadLength
    <2> QED
      BY <2>2 DEF Linux!Init, Linux!UnReadBufLen
  <1>2. Linux!UnReadChars = <<>>
    BY <1>1 DEF Linux!UnReadChars
  <1>3. LinuxTypes
    BY LinuxBounds DEF Linux!Init, LinuxTypes
  <1>4. UnReadRight
    <2>1. Len(linuxBuffer) = 0 /\ Len(input) = 0
      BY DEF Linux!Init
    <2> QED
      BY <1>1, <2>1, LinuxBounds DEF Linux!Init, UnReadRight
  <1>5. Linux!UnReadChars \o input = <<>>
    BY <1>2 DEF Linux!Init
  <1> QED
    BY <1>1, <1>3, <1>4, <1>5 DEF LinuxInv, Linux!Fifo!FifoInit, Linux!Init

LEMMA LinuxSteps ==
  LinuxInv /\ (Linux!Next \/ UNCHANGED linuxVars) => LinuxInv' /\ [Linux!Fifo!FifoNext]_(Linux!Fifo!fifoVars)
  <1> SUFFICES ASSUME LinuxInv, Linux!Next \/ UNCHANGED linuxVars
               PROVE  LinuxInv' /\ [Linux!Fifo!FifoNext]_(Linux!Fifo!fifoVars)
    OBVIOUS
  <1>1. CASE Linux!Arrive
    BY <1>1, ArrivePuts DEF Linux!Fifo!FifoNext
  <1>2. CASE Linux!SioGetNumRxChar \/ UNCHANGED linuxVars
    BY <1>2, CheckStutters
  <1>3. CASE Linux!SioRead
    BY <1>3, LinuxReadTakes DEF Linux!Fifo!FifoNext
  <1>4. CASE Linux!BusDecode
    BY <1>4, LinuxDecodePutsBack DEF Linux!Fifo!FifoNext
  <1> QED
    BY <1>1, <1>2, <1>3, <1>4 DEF Linux!Next

-----------------------------------------------------------------------------
(* The types of the ring: its indices stay within the ring or, the write     *)
(* index, within its word, and all that it hands on has arrived              *)
(* (SioGetNumRxChar, SioRead and SioUnRead of sio/avr/siosingle.c).          *)
THEOREM RingTyped == Spec => []TypeOK
  <1>1. RingInv => TypeOK
    BY DEF RingInv
  <1> QED
    BY <1>1, RingInvariance, PTL

(* The main loop of an AVR node never sleeps while characters wait in the    *)
(* ring, however the receive interrupt falls between its steps: the idle     *)
(* flag that SioRead sets and the interrupt and SioUnRead clear.             *)
THEOREM NoCharacterOversleeps == Spec => []SleepsEmpty
  <1>1. RingInv => SleepsEmpty
    BY DEF RingInv, IdleRight, SleepsEmpty
  <1> QED
    BY <1>1, RingInvariance, PTL

(* The ring of the AVR sio implements the receive queue: SioUnRead puts back *)
(* exactly what was not decoded, character by character, while the interrupt *)
(* stores others behind it.                                                  *)
THEOREM RingIsQueue == Spec => FifoSpec
  <1>1. Init => Fifo!FifoInit
    BY RingBegins
  <1>2. RingInv /\ [Next]_vars => [Fifo!FifoNext]_(Fifo!fifoVars)
    BY RingSteps
  <1> QED
    BY <1>1, <1>2, RingInvariance, PTL DEF Spec, FifoSpec, Fifo!FifoSpec

(* The same of the sio on Linux, together with it: the unread buffer never   *)
(* overflows and comes before the driver's queue (sio/linux/sio.c).          *)
THEOREM BothAreQueues == MCSpec => ReceiveQueues
  <1>1. MCInit => RingInv /\ LinuxInv /\ Fifo!FifoInit /\ Linux!Fifo!FifoInit
    BY RingBegins, LinuxBegins DEF MCInit
  <1>2. [MCNext]_<<vars, linuxVars, sio>> => [Next]_vars /\ (Linux!Next \/ UNCHANGED linuxVars)
    BY DEF MCNext
  <1>3. RingInv /\ LinuxInv /\ [MCNext]_<<vars, linuxVars, sio>>
          => /\ RingInv' /\ LinuxInv'
             /\ [Fifo!FifoNext]_(Fifo!fifoVars) /\ [Linux!Fifo!FifoNext]_(Linux!Fifo!fifoVars)
    BY <1>2, RingSteps, LinuxSteps
  <1> QED
    BY <1>1, <1>3, PTL DEF MCSpec, ReceiveQueues, FifoSpec, Fifo!FifoSpec, Linux!FifoSpec, Linux!Fifo!FifoSpec
=============================================================================
