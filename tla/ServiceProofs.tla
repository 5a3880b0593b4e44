--------------------------- MODULE ServiceProofs ----------------------------
(***************************************************************************)
(* Proofs about Service: the queue of transactions of bus/busvar.c empties *)
(* when all are closed, and what the application of the other DO31 reads   *)
(* is what the variable was, as long as nothing odd has happened.          *)
(***************************************************************************)
EXTENDS Service, TLAPS, WellFoundedInduction

Size == TRANSACTION_FIFO_LEN

-----------------------------------------------------------------------------
(* Arithmetic modulo the size of the queue. *)
LEMMA SizeIs == Size \in Nat /\ Size > 1 /\ Place = 0 .. Size - 1 /\ NoHandle \notin Place
  BY BusVarAssumption DEF Size, Place, NoHandle

LEMMA ModIs ==
  ASSUME NEW x \in Int, - Size <= x, x < Size + Size
  PROVE  x % Size = IF x < 0 THEN x + Size ELSE IF x < Size THEN x ELSE x - Size
<1>1. Size \in Nat /\ Size > 0
  BY SizeIs
<1>2. CASE x < 0
  <2>1. x = Size * (-1) + (x + Size) /\ 0 <= x + Size /\ x + Size < Size
    BY <1>1, <1>2
  <2> QED BY <1>1, <1>2, <2>1, Z3
<1>3. CASE 0 <= x /\ x < Size
  BY <1>1, <1>3, Z3
<1>4. CASE Size <= x
  BY <1>1, <1>4, Z3
<1> QED BY <1>1, <1>2, <1>3, <1>4

(* How far one place is behind another. *)
Distance(a, b) == IF a <= b THEN b - a ELSE b - a + Size
Onward(a, k) == IF a + k < Size THEN a + k ELSE a + k - Size

LEMMA DistanceIs == ASSUME NEW a \in Place, NEW b \in Place PROVE (b - a) % Size = Distance(a, b) /\ Distance(a, b) \in Place
<1>1. Size \in Nat /\ Size > 1 /\ a \in 0 .. Size - 1 /\ b \in 0 .. Size - 1
  BY SizeIs
<1>2. b - a \in Int /\ - Size <= b - a /\ b - a < Size + Size /\ b - a < Size
  BY <1>1
<1>3. (b - a) % Size = IF b - a < 0 THEN b - a + Size ELSE IF b - a < Size THEN b - a ELSE b - a - Size
  BY <1>2, ModIs
<1>4. Distance(a, b) = IF b - a < 0 THEN b - a + Size ELSE b - a
  BY <1>1 DEF Distance
<1>5. Distance(a, b) \in 0 .. Size - 1
  BY <1>1, <1>4
<1> QED BY <1>2, <1>3, <1>4, <1>5, SizeIs

LEMMA OnwardIs ==
  ASSUME NEW a \in Place, NEW k \in Place
  PROVE  /\ (a + k) % Size = Onward(a, k) /\ Onward(a, k) \in Place /\ Distance(a, Onward(a, k)) = k
         /\ \A b \in Place : Onward(a, Distance(a, b)) = b
<1>1. Size \in Nat /\ Size > 1 /\ a \in 0 .. Size - 1 /\ k \in 0 .. Size - 1
  BY SizeIs
<1>2. a + k \in Int /\ - Size <= a + k /\ a + k < Size + Size /\ ~ (a + k < 0)
  BY <1>1
<1>3. (a + k) % Size = IF a + k < 0 THEN a + k + Size ELSE IF a + k < Size THEN a + k ELSE a + k - Size
  <2> DEFINE x == a + k
  <2>1. x \in Int /\ - Size <= x /\ x < Size + Size
    BY <1>2
  <2> HIDE DEF x
  <2>2. x % Size = IF x < 0 THEN x + Size ELSE IF x < Size THEN x ELSE x - Size
    BY <2>1, ModIs
  <2>3. x = a + k
    BY DEF x
  <2> QED BY <1>1, <2>1, <2>2, <2>3
<1>4. Onward(a, k) \in 0 .. Size - 1 /\ Distance(a, Onward(a, k)) = k
  BY <1>1 DEF Onward, Distance
<1>5. ASSUME NEW b \in 0 .. Size - 1 PROVE Onward(a, Distance(a, b)) = b
  BY <1>1 DEF Onward, Distance
<1>6. Place = 0 .. Size - 1
  BY SizeIs
<1> QED BY <1>2, <1>3, <1>4, <1>5, <1>6 DEF Onward

-----------------------------------------------------------------------------
(* The queue. *)
Bounded(v) == v.rd \in Place /\ v.wr \in Place

LEMMA QueueIs ==
  ASSUME NEW v, Bounded(v)
  PROVE  /\ Len(Queue(v)) = Distance(v.rd, v.wr) /\ DOMAIN Queue(v) = 1 .. Distance(v.rd, v.wr)
         /\ \A k \in 1 .. Distance(v.rd, v.wr) : Queue(v)[k] = Onward(v.rd, k - 1)
<1>1. (v.wr - v.rd) % Size = Distance(v.rd, v.wr) /\ Distance(v.rd, v.wr) \in 0 .. Size - 1
  BY DistanceIs, SizeIs DEF Bounded
<1>2. DOMAIN Queue(v) = 1 .. Distance(v.rd, v.wr)
  BY <1>1 DEF Queue, Size
<1>3. ASSUME NEW k \in 1 .. Distance(v.rd, v.wr) PROVE Queue(v)[k] = Onward(v.rd, k - 1)
  <2>1. k - 1 \in Place /\ v.rd + k - 1 = v.rd + (k - 1) /\ v.rd \in Place
    BY <1>1, SizeIs DEF Bounded
  <2>2. Queue(v)[k] = (v.rd + k - 1) % Size
    BY <1>1 DEF Queue, Size
  <2> QED BY <2>1, <2>2, OnwardIs
<1>4. Queue(v) \in Seq(Place)
  <2>1. \A k \in 1 .. Distance(v.rd, v.wr) : Queue(v)[k] \in Place
    <3>1. ASSUME NEW k \in 1 .. Distance(v.rd, v.wr) PROVE Onward(v.rd, k - 1) \in Place
      <4>1. k - 1 \in Place /\ v.rd \in Place
        BY <1>1, SizeIs DEF Bounded
      <4> QED BY <4>1, OnwardIs
    <3> QED BY <3>1, <1>3
  <2>2. Queue(v) = [k \in 1 .. Distance(v.rd, v.wr) |-> Queue(v)[k]]
    BY <1>1 DEF Queue, Size
  <2> QED BY <1>1, <2>1, <2>2
<1>5. Len(Queue(v)) = Distance(v.rd, v.wr)
  BY <1>1, <1>2, <1>4
<1> QED BY <1>2, <1>3, <1>5

LEMMA QueuedIs ==
  ASSUME NEW v, Bounded(v)
  PROVE  /\ Queued(v) \subseteq Place
         /\ \A h \in Place : h \in Queued(v) <=> Distance(v.rd, h) < Distance(v.rd, v.wr)
         /\ \A k \in DOMAIN Queue(v) : Queue(v)[k] \in Queued(v) /\ Distance(v.rd, Queue(v)[k]) = k - 1
         /\ \A h \in Queued(v) : Distance(v.rd, h) + 1 \in DOMAIN Queue(v) /\ Queue(v)[Distance(v.rd, h) + 1] = h
<1>1. v.rd \in Place /\ v.wr \in Place /\ Distance(v.rd, v.wr) \in 0 .. Size - 1
  BY DistanceIs, SizeIs DEF Bounded
<1>2. Size \in Nat /\ Size > 1 /\ Place = 0 .. Size - 1
  BY SizeIs
<1>3. \A k \in DOMAIN Queue(v) : Queue(v)[k] \in Queued(v)
  BY DEF Queued
<1>4. ASSUME NEW k \in DOMAIN Queue(v) PROVE Queue(v)[k] \in Place /\ Distance(v.rd, Queue(v)[k]) = k - 1 /\ k \in 1 .. Distance(v.rd, v.wr)
  <2>1. k \in 1 .. Distance(v.rd, v.wr) /\ Queue(v)[k] = Onward(v.rd, k - 1)
    BY QueueIs
  <2>2. k - 1 \in Place
    BY <1>1, <1>2, <2>1
  <2> QED BY <1>1, <2>1, <2>2, OnwardIs
<1>5. ASSUME NEW h \in Place, Distance(v.rd, h) < Distance(v.rd, v.wr)
      PROVE  Distance(v.rd, h) + 1 \in DOMAIN Queue(v) /\ Queue(v)[Distance(v.rd, h) + 1] = h
  <2>1. Distance(v.rd, h) \in 0 .. Size - 1
    BY <1>1, <1>2, DistanceIs
  <2>2. Distance(v.rd, h) + 1 \in 1 .. Distance(v.rd, v.wr) /\ Distance(v.rd, h) + 1 - 1 = Distance(v.rd, h)
    BY <1>1, <1>5, <2>1
  <2>3. Onward(v.rd, Distance(v.rd, h)) = h
    BY <1>1, <1>2, <2>1, OnwardIs
  <2>4. Queue(v)[Distance(v.rd, h) + 1] = Onward(v.rd, Distance(v.rd, h) + 1 - 1)
    <3> DEFINE k == Distance(v.rd, h) + 1
    <3>1. k \in 1 .. Distance(v.rd, v.wr)
      BY <2>2
    <3> HIDE DEF k
    <3>2. Queue(v)[k] = Onward(v.rd, k - 1)
      BY <3>1, QueueIs
    <3>3. k = Distance(v.rd, h) + 1
      BY DEF k
    <3> QED BY <2>1, <3>1, <3>2, <3>3
  <2>5. DOMAIN Queue(v) = 1 .. Distance(v.rd, v.wr)
    BY QueueIs
  <2> QED BY <2>2, <2>3, <2>4, <2>5
<1>6. ASSUME NEW h \in Queued(v) PROVE h \in Place /\ Distance(v.rd, h) < Distance(v.rd, v.wr)
  <2>1. PICK k \in DOMAIN Queue(v) : h = Queue(v)[k]
    BY DEF Queued
  <2>2. k \in 1 .. Distance(v.rd, v.wr) /\ Distance(v.rd, h) = k - 1 /\ h \in Place
    BY <1>4, <2>1
  <2> QED BY <1>1, <2>2
<1>7. ASSUME NEW h \in Place, Distance(v.rd, h) < Distance(v.rd, v.wr) PROVE h \in Queued(v)
  BY <1>3, <1>5, <1>7
<1> QED BY <1>3, <1>4, <1>5, <1>6, <1>7

LEMMA Induct ==
  ASSUME NEW S, 0 \in S, \A n \in Nat : n \in S => n + 1 \in S
  PROVE  \A n \in Nat : n \in S
  <1> DEFINE T == {n \in Nat : n \notin S}
  <1>1. SUFFICES ASSUME T # {} PROVE FALSE
    OBVIOUS
  <1>2. PICK x \in T : \A y \in T : ~ (<<y, x>> \in OpToRel(<, Nat))
    BY <1>1, WFMin, NatLessThanWellFounded
  <1>3. \A y \in T : ~ (y < x)
    BY <1>2 DEF OpToRel
  <1>4. x \in Nat /\ 0 \in S /\ x \notin S
    BY <1>2
  <1>5. x # 0 /\ x - 1 \in Nat /\ x - 1 + 1 = x /\ x - 1 < x
    BY <1>4
  <1>6. x - 1 \in S
    BY <1>3, <1>5
  <1> QED BY <1>4, <1>5, <1>6

LEMMA Least ==
  ASSUME NEW S \in SUBSET Nat, S # {}
  PROVE  \E m \in S : \A n \in S : m <= n
<1>1. PICK x \in S : \A y \in S : ~ (<<y, x>> \in OpToRel(<, Nat))
  <2>1. IsWellFoundedOn(OpToRel(<, Nat), S)
    BY NatLessThanWellFounded, IsWellFoundedOnSubset
  <2> QED BY <2>1, WFMin
<1>2. \A y \in S : ~ (y < x)
  BY <1>1 DEF OpToRel
<1> QED BY <1>2


LEMMA DistancesIn == ASSUME NEW a \in Place, NEW b \in Place PROVE Distance(a, b) \in 0 .. Size - 1 /\ Distance(a, a) = 0
  BY SizeIs DEF Distance

(* The first of the places in the queue that are asked for. *)
LEMMA FirstIs ==
  ASSUME NEW v, Bounded(v), NEW places, NEW otherwise
  PROVE  \/ First(v, places, otherwise) = otherwise /\ Queued(v) \intersect places = {}
         \/ /\ First(v, places, otherwise) \in Queued(v) \intersect places
            /\ \A g \in Queued(v) \intersect places :
                 Distance(v.rd, First(v, places, otherwise)) <= Distance(v.rd, g)
<1> DEFINE fitting == {k \in DOMAIN Queue(v) : Queue(v)[k] \in places}
<1>1. DOMAIN Queue(v) = 1 .. Distance(v.rd, v.wr) /\ Distance(v.rd, v.wr) \in Nat
  BY QueueIs, DistancesIn, SizeIs DEF Bounded
<1>2. First(v, places, otherwise) =
        IF fitting = {} THEN otherwise ELSE Queue(v)[CHOOSE k \in fitting : \A l \in fitting : k <= l]
  BY DEF First
<1>3. \A g \in Queued(v) \intersect places : Distance(v.rd, g) + 1 \in fitting
  BY QueuedIs
<1>4. CASE fitting = {}
  BY <1>2, <1>3, <1>4
<1>5. CASE fitting # {}
  <2>1. fitting \in SUBSET Nat
    BY <1>1
  <2> DEFINE m == CHOOSE k \in fitting : \A l \in fitting : k <= l
  <2>2. \E k \in fitting : \A l \in fitting : k <= l
    <3> HIDE DEF fitting
    <3> QED BY <1>5, <2>1, Least
  <2>3. m \in fitting /\ \A l \in fitting : m <= l
    <3> HIDE DEF fitting
    <3> QED BY <2>2
  <2>4. First(v, places, otherwise) = Queue(v)[m]
    BY <1>2, <1>5
  <2> HIDE DEF m
  <2>5. m \in DOMAIN Queue(v) /\ Queue(v)[m] \in places /\ m \in Nat
    BY <2>1, <2>3
  <2>6. Queue(v)[m] \in Queued(v) /\ Distance(v.rd, Queue(v)[m]) = m - 1
    BY <2>5, QueuedIs
  <2>7. ASSUME NEW g \in Queued(v) \intersect places PROVE m - 1 <= Distance(v.rd, g)
    <3>1. g \in Place /\ Distance(v.rd, g) \in 0 .. Size - 1
      BY QueuedIs, DistancesIn DEF Bounded
    <3>2. m <= Distance(v.rd, g) + 1
      BY <1>3, <2>3, <2>7
    <3> QED BY <2>5, <3>1, <3>2, SizeIs
  <2> QED BY <2>4, <2>5, <2>6, <2>7
<1> QED BY <1>4, <1>5

Dirs == {"Read", "Write"}
Running == {"Scheduled", "Waiting", "TxRetry"}
AnyTransaction ==
  [addr : {0, DeviceAddress}, idx : Variables \union {0}, dir : Dirs, state : Running \union Final, txRetryCnt : Int]
AnyQueue == [fifo : [Place -> AnyTransaction], wr : Place, rd : Place]

LEMMA AnyBounded == ASSUME NEW v \in AnyQueue PROVE Bounded(v)
  BY DEF AnyQueue, Bounded

LEMMA NoneIsAny == NoTransaction \in AnyTransaction /\ NoTransaction.state = "Invalid"
<1>1. TX_RETRIES \in Int
  BY BusVarAssumption
<1>2. NoTransaction = [addr |-> 0, idx |-> 0, dir |-> "Read", state |-> "Invalid", txRetryCnt |-> 0]
  <2>1. Transaction(0, 0, "Read") = [addr |-> 0, idx |-> 0, dir |-> "Read", state |-> "Scheduled", txRetryCnt |-> TX_RETRIES]
    BY DEF Transaction
  <2> DEFINE t == [addr |-> 0, idx |-> 0, dir |-> "Read", state |-> "Scheduled", txRetryCnt |-> TX_RETRIES]
  <2>2. NoTransaction = [t EXCEPT !.state = "Invalid", !.txRetryCnt = 0]
    BY <2>1 DEF NoTransaction
  <2> QED BY <2>2
<1> QED BY <1>2 DEF AnyTransaction, Dirs, Running, Final

LEMMA TidyIs ==
  ASSUME NEW v \in AnyQueue
  PROVE  /\ Tidy(v) \in AnyQueue /\ Tidy(v).rd = v.rd /\ Tidy(v).wr = v.wr /\ Queued(Tidy(v)) = Queued(v)
         /\ \A h \in Queued(v) : Tidy(v).fifo[h] = v.fifo[h]
<1>1. Tidy(v) = [fifo |-> [h \in Place |-> IF h \in Queued(v) THEN v.fifo[h] ELSE NoTransaction], wr |-> v.wr, rd |-> v.rd]
  BY DEF Tidy, AnyQueue
<1>2. \A h \in Queued(v) : h \in Place
  BY QueuedIs, AnyBounded
<1>3. Tidy(v) \in AnyQueue
  BY <1>1, NoneIsAny DEF AnyQueue
<1>4. Queued(Tidy(v)) = Queued(v)
  <2>1. Tidy(v).rd = v.rd /\ Tidy(v).wr = v.wr
    BY <1>1
  <2>2. Queue(Tidy(v)) = Queue(v)
    BY <2>1 DEF Queue
  <2> QED BY <2>2 DEF Queued
<1> QED BY <1>1, <1>2, <1>3, <1>4

(* Places leave the queue at its front, as far as they are free.             *)
LEMMA FreedIs ==
  ASSUME NEW v \in AnyQueue
  PROVE  /\ Freed(v) \in AnyQueue /\ Freed(v).wr = v.wr /\ Queued(Freed(v)) \subseteq Queued(v)
         /\ \A h \in Queued(v) : v.fifo[h].state # "Invalid" => h \in Queued(Freed(v))
         /\ \A h \in Queued(Freed(v)) : Freed(v).fifo[h] = v.fifo[h]
         /\ Freed(v).rd # v.wr => Freed(v).rd \in Queued(Freed(v)) /\ Freed(v).fifo[Freed(v).rd].state # "Invalid"
<1> DEFINE places == {h \in Place : v.fifo[h].state # "Invalid"}
           f == First(v, places, v.wr)
           u == [v EXCEPT !.rd = f]
<1>1. Freed(v) = Tidy(u)
  BY DEF Freed
<1>2. Bounded(v) /\ v.wr \in Place /\ v.rd \in Place /\ Queued(v) \subseteq Place
  BY AnyBounded, QueuedIs DEF Bounded
<1>3. \/ f = v.wr /\ Queued(v) \intersect places = {}
      \/ f \in Queued(v) \intersect places /\ \A g \in Queued(v) \intersect places : Distance(v.rd, f) <= Distance(v.rd, g)
  <2> HIDE DEF places
  <2> QED BY <1>2, FirstIs
<1> HIDE DEF f
<1>4. f \in Place
  BY <1>2, <1>3
<1>5. u \in AnyQueue /\ u.rd = f /\ u.wr = v.wr /\ u.fifo = v.fifo
  BY <1>4 DEF AnyQueue
<1> HIDE DEF u
<1>6. Bounded(u)
  BY <1>5, AnyBounded
<1>7. \A a \in Place, b \in Place : Distance(a, b) \in 0 .. Size - 1 /\ Distance(a, a) = 0
  BY DistancesIn
<1>8. Size \in Nat /\ Place = 0 .. Size - 1
  BY SizeIs
<1>9. ASSUME NEW h \in Queued(u) PROVE h \in Queued(v)
  <2>1. h \in Place /\ Distance(f, h) < Distance(f, v.wr)
    BY <1>5, <1>6, QueuedIs
  <2>2. f # v.wr
    <3>1. SUFFICES ASSUME f = v.wr PROVE FALSE
      OBVIOUS
    <3>2. Distance(f, h) \in 0 .. Size - 1 /\ Distance(f, f) = 0
      BY <2>1, <1>4, <1>7
    <3> QED BY <2>1, <3>1, <3>2, <1>8
  <2>3. f \in Queued(v) /\ Distance(v.rd, f) < Distance(v.rd, v.wr)
    BY <2>2, <1>2, <1>3, <1>4, QueuedIs
  <2>4. Distance(v.rd, h) < Distance(v.rd, v.wr)
    BY <2>1, <2>3, <1>2, <1>4, <1>8 DEF Distance
  <2> QED BY <2>1, <2>4, <1>2, QueuedIs
<1>10. ASSUME NEW h \in Queued(v), v.fifo[h].state # "Invalid" PROVE h \in Queued(u)
  <2>1. h \in Queued(v) \intersect places
    BY <1>2, <1>10
  <2>2. f \in Queued(v) /\ Distance(v.rd, f) <= Distance(v.rd, h)
    BY <2>1, <1>3
  <2>3. h \in Place /\ Distance(v.rd, h) < Distance(v.rd, v.wr) /\ Distance(v.rd, f) < Distance(v.rd, v.wr)
    BY <2>2, <1>2, <1>4, QueuedIs
  <2>4. Distance(f, h) < Distance(f, v.wr)
    <3> DEFINE r == v.rd
               w == v.wr
    <3>1. r \in 0 .. Size - 1 /\ w \in 0 .. Size - 1 /\ f \in 0 .. Size - 1 /\ h \in 0 .. Size - 1
      BY <1>2, <1>4, <1>8, <2>3
    <3>2. Distance(r, f) <= Distance(r, h) /\ Distance(r, h) < Distance(r, w) /\ Distance(r, f) < Distance(r, w)
      BY <2>2, <2>3
    <3> HIDE DEF r, w
    <3>3. Distance(f, h) < Distance(f, w)
      BY <3>1, <3>2, <1>8 DEF Distance
    <3> QED BY <3>3 DEF w
  <2> QED BY <2>3, <2>4, <1>5, <1>6, QueuedIs
<1>11. Tidy(u) \in AnyQueue /\ Tidy(u).rd = f /\ Tidy(u).wr = v.wr /\ Queued(Tidy(u)) = Queued(u)
       /\ \A h \in Queued(u) : Tidy(u).fifo[h] = v.fifo[h]
  BY <1>5, TidyIs
<1>12. ASSUME f # v.wr PROVE f \in Queued(u) /\ v.fifo[f].state # "Invalid"
  <2>1. f \in Queued(v) /\ v.fifo[f].state # "Invalid"
    BY <1>3, <1>12
  <2> QED BY <2>1, <1>10
<1> QED BY <1>1, <1>9, <1>10, <1>11, <1>12

-----------------------------------------------------------------------------
(* Every place in the queue belongs to the handle of its variable or is closed *)
(* and waits for one before it; the first one is not closed.                   *)
Held(v, handle) ==
  /\ v \in AnyQueue
  /\ \A h \in Queued(v) :
       /\ v.fifo[h].addr = DeviceAddress /\ v.fifo[h].idx \in Variables
       /\ v.fifo[h].state # "Invalid" => handle[v.fifo[h].idx] = h
  /\ \A i \in Variables :
       handle[i] # NoHandle => handle[i] \in Queued(v) /\ v.fifo[handle[i]].idx = i /\ v.fifo[handle[i]].state # "Invalid"
  /\ v.rd # v.wr => v.fifo[v.rd].state # "Invalid"

LEMMA FrontIs == ASSUME NEW v \in AnyQueue, v.rd # v.wr PROVE v.rd \in Queued(v)
<1>1. v.rd \in 0 .. Size - 1 /\ v.wr \in 0 .. Size - 1 /\ Size \in Nat /\ Place = 0 .. Size - 1
  BY SizeIs DEF AnyQueue
<1>2. Distance(v.rd, v.rd) < Distance(v.rd, v.wr)
  BY <1>1 DEF Distance
<1> QED BY <1>1, <1>2, QueuedIs, AnyBounded

(* A change of states alone, that neither closes nor opens.                    *)
LEMMA StatesChange ==
  ASSUME NEW v, NEW handle, Held(v, handle), NEW u \in AnyQueue, u.rd = v.rd, u.wr = v.wr,
         \A h \in Queued(v) : /\ u.fifo[h].addr = v.fifo[h].addr /\ u.fifo[h].idx = v.fifo[h].idx
                              /\ u.fifo[h].state = "Invalid" <=> v.fifo[h].state = "Invalid"
  PROVE  Held(u, handle) /\ Queued(u) = Queued(v)
<1>1. Queue(u) = Queue(v)
  BY DEF Queue
<1>2. Queued(u) = Queued(v)
  BY <1>1 DEF Queued
<1>3. v.rd # v.wr => v.rd \in Queued(v)
  BY FrontIs DEF Held
<1> QED BY <1>2, <1>3 DEF Held

LEMMA FreeIs ==
  ASSUME NEW v \in AnyQueue, NumFifoFree(v) # 0
  PROVE  Inc(v.wr) \in Place /\ Distance(v.rd, Inc(v.wr)) = Distance(v.rd, v.wr) + 1
<1> DEFINE r == v.rd
           w == v.wr
<1>1. r \in 0 .. Size - 1 /\ w \in 0 .. Size - 1 /\ Size \in Nat /\ Size > 1 /\ Place = 0 .. Size - 1
  BY SizeIs DEF AnyQueue
<1>2. (w + 1) % Size = Inc(w) /\ (r - w - 1) % Size = NumFifoFree(v)
  BY DEF Inc, NumFifoFree, Size
<1> HIDE DEF r, w
<1>3. PICK x \in Int : x = w + 1
  BY <1>1
<1>4. x % Size = IF x < 0 THEN x + Size ELSE IF x < Size THEN x ELSE x - Size
  <2>1. - Size <= x /\ x < Size + Size
    BY <1>1, <1>3
  <2> QED BY <2>1, ModIs
<1>5. PICK y \in Int : y = r - w - 1
  BY <1>1
<1>6. y % Size = IF y < 0 THEN y + Size ELSE IF y < Size THEN y ELSE y - Size
  <2>1. - Size <= y /\ y < Size + Size
    BY <1>1, <1>5
  <2> QED BY <2>1, ModIs
<1>7. Inc(w) = IF x < Size THEN x ELSE x - Size
  BY <1>1, <1>2, <1>3, <1>4
<1>8. y # - Size
  BY <1>1, <1>2, <1>5, <1>6
<1>9. y # 0
  BY <1>1, <1>2, <1>5, <1>6
<1>10. Inc(w) \in Place /\ Distance(r, Inc(w)) = Distance(r, w) + 1
  BY <1>1, <1>3, <1>5, <1>7, <1>8, <1>9 DEF Distance
<1> QED BY <1>10 DEF r, w

LEMMA OpenIs ==
  ASSUME NEW v, NEW handle, Held(v, handle), handle = [i \in Variables |-> handle[i]],
         NEW i \in Variables, handle[i] = NoHandle, NEW dir \in Dirs, NumFifoFree(v) # 0,
         NEW u, u = BusVarTransactionOpen(v, Transaction(DeviceAddress, i, dir))
  PROVE  /\ Held(u, [handle EXCEPT ![i] = v.wr]) /\ v.wr # NoHandle /\ v.wr \notin Queued(v)
         /\ Queued(u) = Queued(v) \union {v.wr}
         /\ \A h \in Queued(v) : u.fifo[h] = v.fifo[h]
         /\ u.fifo[v.wr].state = "Scheduled"
<1> DEFINE t == Transaction(DeviceAddress, i, dir)
           after == [handle EXCEPT ![i] = v.wr]
<1>1. v \in AnyQueue /\ v.wr \in Place /\ v.rd \in Place /\ Bounded(v) /\ Queued(v) \subseteq Place
  BY AnyBounded, QueuedIs DEF Held, Bounded
<1>2. t = [addr |-> DeviceAddress, idx |-> i, dir |-> dir, state |-> "Scheduled", txRetryCnt |-> TX_RETRIES]
  BY DEF Transaction
<1>3. t \in AnyTransaction
  BY <1>2, BusVarAssumption DEF AnyTransaction, Running
<1>4. Inc(v.wr) \in Place /\ Distance(v.rd, Inc(v.wr)) = Distance(v.rd, v.wr) + 1
  BY <1>1, FreeIs
<1>5. u = [fifo |-> [v.fifo EXCEPT ![v.wr] = t], wr |-> Inc(v.wr), rd |-> v.rd]
  BY <1>1 DEF BusVarTransactionOpen, AnyQueue
<1> HIDE DEF t
<1>6. u \in AnyQueue /\ Bounded(u)
  BY <1>1, <1>3, <1>4, <1>5, AnyBounded DEF AnyQueue
<1>7. \A h \in Place : Distance(v.rd, h) \in Nat
  BY <1>1, DistancesIn, SizeIs
<1>8. ASSUME NEW h \in Place PROVE h \in Queued(u) <=> h \in Queued(v) \/ h = v.wr
  <2>1. h \in Queued(u) <=> Distance(v.rd, h) < Distance(v.rd, v.wr) + 1
    BY <1>4, <1>5, <1>6, QueuedIs
  <2>2. h \in Queued(v) <=> Distance(v.rd, h) < Distance(v.rd, v.wr)
    BY <1>1, QueuedIs
  <2>3. Distance(v.rd, h) = Distance(v.rd, v.wr) <=> h = v.wr
    BY <1>1, SizeIs DEF Distance
  <2> QED BY <1>1, <1>7, <2>1, <2>2, <2>3
<1>9. Queued(u) \subseteq Place
  BY <1>6, QueuedIs
<1>10. Queued(u) = Queued(v) \union {v.wr}
  BY <1>1, <1>8, <1>9
<1>11. v.wr \notin Queued(v)
  BY <1>1, <1>7, QueuedIs
<1>12. v.wr # NoHandle
  BY <1>1, SizeIs
<1>13. \A h \in Queued(v) : u.fifo[h] = v.fifo[h]
  BY <1>1, <1>5, <1>11 DEF AnyQueue
<1>14. u.fifo[v.wr] = t
  BY <1>1, <1>5 DEF AnyQueue
<1>15. ASSUME NEW h \in Queued(u)
       PROVE  /\ u.fifo[h].addr = DeviceAddress /\ u.fifo[h].idx \in Variables
              /\ u.fifo[h].state # "Invalid" => after[u.fifo[h].idx] = h
  <2>1. CASE h = v.wr
    BY <2>1, <1>2, <1>14
  <2>2. CASE h \in Queued(v)
    <3>1. u.fifo[h] = v.fifo[h] /\ v.fifo[h].addr = DeviceAddress /\ v.fifo[h].idx \in Variables
      BY <2>2, <1>13 DEF Held
    <3>2. v.fifo[h].state # "Invalid" => handle[v.fifo[h].idx] = h
      BY <2>2 DEF Held
    <3>3. v.fifo[h].state # "Invalid" => v.fifo[h].idx # i
      BY <3>2, <1>1, <2>2, SizeIs
    <3> QED BY <3>1, <3>2, <3>3
  <2> QED BY <2>1, <2>2, <1>10
<1>16. ASSUME NEW j \in Variables, after[j] # NoHandle
       PROVE  after[j] \in Queued(u) /\ u.fifo[after[j]].idx = j /\ u.fifo[after[j]].state # "Invalid"
  <2>1. CASE j = i
    BY <2>1, <1>2, <1>10, <1>14
  <2>2. CASE j # i
    <3>1. after[j] = handle[j]
      BY <2>2
    <3>2. handle[j] \in Queued(v) /\ v.fifo[handle[j]].idx = j /\ v.fifo[handle[j]].state # "Invalid"
      BY <3>1, <1>16 DEF Held
    <3> QED BY <3>1, <3>2, <1>10, <1>13
  <2> QED BY <2>1, <2>2
<1>17. u.fifo[u.rd].state # "Invalid"
  <2>1. CASE v.rd = v.wr
    BY <2>1, <1>2, <1>5, <1>14
  <2>2. CASE v.rd # v.wr
    <3>1. v.rd \in Queued(v) /\ v.fifo[v.rd].state # "Invalid"
      BY <2>2, <1>1, FrontIs DEF Held
    <3> QED BY <3>1, <1>5, <1>13
  <2> QED BY <2>1, <2>2
<1>18. Held(u, after)
  BY <1>6, <1>15, <1>16, <1>17 DEF Held
<1> QED BY <1>2, <1>10, <1>11, <1>12, <1>13, <1>14, <1>18

Handles(handle, F) == {handle[i] : i \in F}
Without(handle, F) == [i \in Variables |-> IF i \in F THEN NoHandle ELSE handle[i]]

LEMMA CloseIs ==
  ASSUME NEW v, NEW handle, Held(v, handle), NEW F \in SUBSET Variables, \A i \in F : handle[i] # NoHandle,
         NEW u, u = BusVarTransactionClose(v, Handles(handle, F))
  PROVE  /\ Held(u, Without(handle, F))
         /\ \A i \in Variables \ F : handle[i] # NoHandle => u.fifo[handle[i]] = v.fifo[handle[i]]
<1> DEFINE closed == {handle[i] : i \in F}
           w == [v EXCEPT !.fifo = [h \in Place |-> IF h \in closed THEN [@[h] EXCEPT !.state = "Invalid"] ELSE @[h]]]
           after == [i \in Variables |-> IF i \in F THEN NoHandle ELSE handle[i]]
<1>1. u = Freed(w)
  BY DEF BusVarTransactionClose, Handles
<1>2. v \in AnyQueue /\ Queued(v) \subseteq Place
  BY AnyBounded, QueuedIs DEF Held
<1>3. w = [fifo |-> [h \in Place |-> IF h \in closed THEN [v.fifo[h] EXCEPT !.state = "Invalid"] ELSE v.fifo[h]],
           wr |-> v.wr, rd |-> v.rd]
  BY <1>2 DEF AnyQueue
<1>4. ASSUME NEW h \in Place PROVE v.fifo[h] \in AnyTransaction /\ [v.fifo[h] EXCEPT !.state = "Invalid"] \in AnyTransaction
                                   /\ [v.fifo[h] EXCEPT !.state = "Invalid"].addr = v.fifo[h].addr
                                   /\ [v.fifo[h] EXCEPT !.state = "Invalid"].idx = v.fifo[h].idx
                                   /\ [v.fifo[h] EXCEPT !.state = "Invalid"].state = "Invalid"
  <2>1. v.fifo[h] \in AnyTransaction
    BY <1>2 DEF AnyQueue
  <2> QED BY <2>1 DEF AnyTransaction, Final
<1> HIDE DEF w, closed
<1>5. w \in AnyQueue /\ w.rd = v.rd /\ w.wr = v.wr
  BY <1>2, <1>3, <1>4 DEF AnyQueue
<1>6. \A h \in Place : w.fifo[h] = IF h \in closed THEN [v.fifo[h] EXCEPT !.state = "Invalid"] ELSE v.fifo[h]
  BY <1>3
<1>7. Queued(w) = Queued(v)
  <2>1. Queue(w) = Queue(v)
    BY <1>5 DEF Queue
  <2> QED BY <2>1 DEF Queued
<1>8. /\ u \in AnyQueue /\ u.wr = v.wr /\ Queued(u) \subseteq Queued(v)
      /\ \A h \in Queued(v) : w.fifo[h].state # "Invalid" => h \in Queued(u)
      /\ \A h \in Queued(u) : u.fifo[h] = w.fifo[h]
      /\ u.rd # v.wr => u.rd \in Queued(u) /\ u.fifo[u.rd].state # "Invalid"
  BY <1>1, <1>5, <1>7, FreedIs
<1>9. ASSUME NEW h \in Queued(u)
      PROVE  /\ h \in Queued(v) /\ u.fifo[h].addr = v.fifo[h].addr /\ u.fifo[h].idx = v.fifo[h].idx
             /\ \/ u.fifo[h].state = "Invalid"
                \/ h \notin closed /\ u.fifo[h] = v.fifo[h]
  <2>1. h \in Queued(v) /\ h \in Place /\ u.fifo[h] = w.fifo[h]
    BY <1>2, <1>8
  <2> QED BY <2>1, <1>4, <1>6
<1>10. ASSUME NEW i \in Variables, i \notin F, handle[i] # NoHandle
       PROVE  handle[i] \in Queued(u) /\ u.fifo[handle[i]] = v.fifo[handle[i]]
  <2>1. handle[i] \in Queued(v) /\ v.fifo[handle[i]].idx = i /\ v.fifo[handle[i]].state # "Invalid"
    BY <1>10 DEF Held
  <2>2. ASSUME NEW j \in F, handle[i] = handle[j] PROVE FALSE
    <3>1. v.fifo[handle[j]].idx = j
      BY <2>2 DEF Held
    <3> QED BY <2>1, <2>2, <3>1, <1>10
  <2>3. handle[i] \notin closed
    BY <2>2 DEF closed
  <2>4. w.fifo[handle[i]] = v.fifo[handle[i]]
    BY <2>1, <2>3, <1>2, <1>6
  <2> QED BY <2>1, <2>4, <1>8
<1>11. ASSUME NEW h \in Queued(u), u.fifo[h].state # "Invalid" PROVE after[u.fifo[h].idx] = h
  <2>1. h \in Queued(v) /\ h \notin closed /\ u.fifo[h] = v.fifo[h]
    BY <1>9, <1>11
  <2>2. v.fifo[h].idx \in Variables /\ handle[v.fifo[h].idx] = h
    BY <2>1, <1>11 DEF Held
  <2>3. v.fifo[h].idx \notin F
    BY <2>1, <2>2 DEF closed
  <2> QED BY <2>1, <2>2, <2>3
<1>12. ASSUME NEW i \in Variables, after[i] # NoHandle
       PROVE  after[i] \in Queued(u) /\ u.fifo[after[i]].idx = i /\ u.fifo[after[i]].state # "Invalid"
  <2>1. i \notin F /\ after[i] = handle[i]
    BY <1>12
  <2>2. v.fifo[handle[i]].idx = i /\ v.fifo[handle[i]].state # "Invalid"
    BY <2>1, <1>12 DEF Held
  <2> QED BY <2>1, <2>2, <1>10, <1>12
<1>13. \A h \in Queued(u) : u.fifo[h].addr = DeviceAddress /\ u.fifo[h].idx \in Variables
  BY <1>9 DEF Held
<1>14. Held(u, after)
  <2> HIDE DEF after
  <2> QED BY <1>8, <1>11, <1>12, <1>13 DEF Held
<1> QED BY <1>10, <1>14 DEF Without

-----------------------------------------------------------------------------
(* Process: what one place becomes.                                            *)
Shaped(p) ==
  /\ p = [v |-> p.v, msg |-> p.msg, sent |-> p.sent, free |-> p.free]
  /\ p.v \in AnyQueue /\ p.free \in BOOLEAN

Same(t, u) == t.addr = u.addr /\ t.idx = u.idx /\ t.dir = u.dir

Sending(p, q, h) ==
  \/ p.free /\ q.v.fifo[h].state = "Waiting" /\ q.sent = <<q.msg>> /\ q.free = FALSE
  \/ ~p.free /\ q.v.fifo[h].state = "TxRetry" /\ q.sent = p.sent /\ q.free = FALSE

Quiet(p, q) == q.msg = p.msg /\ q.sent = p.sent /\ q.free = p.free

Turn(p, q, h, elapsed) ==
  \/ p.v.fifo[h].state = "Scheduled" /\ q.msg.index = p.v.fifo[h].idx /\ Sending(p, q, h)
  \/ p.v.fifo[h].state = "TxRetry" /\ q.msg = p.msg /\ Sending(p, q, h)
  \/ p.v.fifo[h].state = "TxRetry" /\ q.v.fifo[h].state = "TxError" /\ Quiet(p, q)
  \/ p.v.fifo[h].state = "Waiting" /\ q.v.fifo[h].state = "Timeout" /\ h \in elapsed /\ Quiet(p, q)
  \/ p.v.fifo[h].state # "Scheduled" /\ q.v.fifo[h].state = p.v.fifo[h].state /\ Quiet(p, q)

WithState(v, h, s, n) ==
  [fifo |-> [v.fifo EXCEPT ![h] = [v.fifo[h] EXCEPT !.state = s, !.txRetryCnt = n]], wr |-> v.wr, rd |-> v.rd]

LEMMA WithStateIs ==
  ASSUME NEW v \in AnyQueue, NEW h \in Place, NEW s \in Running \union Final, NEW n \in Int
  PROVE  /\ WithState(v, h, s, n) \in AnyQueue /\ WithState(v, h, s, n).rd = v.rd /\ WithState(v, h, s, n).wr = v.wr
         /\ WithState(v, h, s, n).fifo[h].state = s /\ Same(WithState(v, h, s, n).fifo[h], v.fifo[h])
         /\ \A g \in Place \ {h} : WithState(v, h, s, n).fifo[g] = v.fifo[g]
<1> DEFINE t == [v.fifo[h] EXCEPT !.state = s, !.txRetryCnt = n]
<1>1. v.fifo[h] \in AnyTransaction /\ v.fifo \in [Place -> AnyTransaction] /\ v.wr \in Place /\ v.rd \in Place
  BY DEF AnyQueue
<1>2. t \in AnyTransaction /\ t.state = s /\ Same(t, v.fifo[h])
  BY <1>1 DEF AnyTransaction, Same
<1>3. WithState(v, h, s, n) = [fifo |-> [v.fifo EXCEPT ![h] = t], wr |-> v.wr, rd |-> v.rd]
  BY DEF WithState
<1> HIDE DEF t
<1> QED BY <1>1, <1>2, <1>3 DEF AnyQueue

LEMMA StateSet ==
  ASSUME NEW v \in AnyQueue, NEW h \in Place, NEW s
  PROVE  [v EXCEPT !.fifo[h].state = s] = WithState(v, h, s, v.fifo[h].txRetryCnt)
<1> DEFINE t == [v.fifo[h] EXCEPT !.state = s, !.txRetryCnt = v.fifo[h].txRetryCnt]
<1>1. v.fifo[h] \in AnyTransaction
  BY DEF AnyQueue
<1>2. [v.fifo[h] EXCEPT !.state = s] = t
  BY <1>1 DEF AnyTransaction
<1>3. [v EXCEPT !.fifo[h].state = s] = [fifo |-> [v.fifo EXCEPT ![h] = t], wr |-> v.wr, rd |-> v.rd]
  BY <1>2 DEF AnyQueue
<1> QED BY <1>3 DEF WithState

LEMMA SendIs ==
  ASSUME NEW p, Shaped(p), NEW h \in Place, NEW msg, NEW q, q = Send(p, h, msg)
  PROVE  /\ Shaped(q) /\ q.v.rd = p.v.rd /\ q.v.wr = p.v.wr /\ q.msg = msg /\ Sending(p, q, h)
         /\ Same(q.v.fifo[h], p.v.fifo[h]) /\ \A g \in Place \ {h} : q.v.fifo[g] = p.v.fifo[g]
<1> DEFINE s == IF p.free THEN "Waiting" ELSE "TxRetry"
           u == WithState(p.v, h, s, p.v.fifo[h].txRetryCnt)
<1>1. p.v \in AnyQueue /\ p.v.fifo[h] \in AnyTransaction /\ p.v.fifo[h].txRetryCnt \in Int
  BY DEF Shaped, AnyQueue, AnyTransaction
<1>2. s \in Running \union Final
  BY DEF Running
<1>3. [p.v EXCEPT !.fifo[h].state = s] = u
  BY <1>1, StateSet
<1>5. q = [v |-> [p.v EXCEPT !.fifo[h].state = s], msg |-> msg, sent |-> IF p.free THEN <<msg>> ELSE p.sent, free |-> FALSE]
  BY DEF Send, Shaped
<1>6. /\ u \in AnyQueue /\ u.rd = p.v.rd /\ u.wr = p.v.wr /\ u.fifo[h].state = s /\ Same(u.fifo[h], p.v.fifo[h])
      /\ \A g \in Place \ {h} : u.fifo[g] = p.v.fifo[g]
  <2> HIDE DEF s
  <2> QED BY <1>1, <1>2, WithStateIs
<1> HIDE DEF u
<1>7. q = [v |-> u, msg |-> msg, sent |-> IF p.free THEN <<msg>> ELSE p.sent, free |-> FALSE]
  BY <1>3, <1>5
<1>8. Shaped(q) /\ q.v = u /\ q.msg = msg /\ q.free = FALSE
  BY <1>6, <1>7 DEF Shaped
<1>9. p.free \in BOOLEAN
  BY DEF Shaped
<1>10. Sending(p, q, h)
  BY <1>6, <1>7, <1>9 DEF Sending
<1> QED BY <1>6, <1>8, <1>10

LEMMA RetriedIs ==
  ASSUME NEW p, Shaped(p), NEW h \in Place, NEW q, q = Retried(p, h)
  PROVE  /\ Shaped(q) /\ q.v.rd = p.v.rd /\ q.v.wr = p.v.wr /\ q.msg = p.msg
         /\ Sending(p, q, h) \/ (q.v.fifo[h].state = "TxError" /\ Quiet(p, q))
         /\ Same(q.v.fifo[h], p.v.fifo[h]) /\ \A g \in Place \ {h} : q.v.fifo[g] = p.v.fifo[g]
<1>1. p.v \in AnyQueue /\ p.v.fifo[h] \in AnyTransaction /\ p.v.fifo[h].txRetryCnt \in Int
      /\ p = [v |-> p.v, msg |-> p.msg, sent |-> p.sent, free |-> p.free] /\ p.free \in BOOLEAN
  BY DEF Shaped, AnyQueue, AnyTransaction
<1>2. CASE p.v.fifo[h].txRetryCnt = 0
  <2> DEFINE u == WithState(p.v, h, "TxError", p.v.fifo[h].txRetryCnt)
  <2>2. [p.v EXCEPT !.fifo[h].state = "TxError"] = u
    BY <1>1, StateSet
  <2>3. q = [p EXCEPT !.v.fifo[h].state = "TxError"]
    BY <1>2 DEF Retried
  <2>4. q = [v |-> [p.v EXCEPT !.fifo[h].state = "TxError"], msg |-> p.msg, sent |-> p.sent, free |-> p.free]
    BY <1>1, <2>3
  <2>5. "TxError" \in Running \union Final
    BY DEF Final
  <2>6. /\ u \in AnyQueue /\ u.rd = p.v.rd /\ u.wr = p.v.wr /\ u.fifo[h].state = "TxError" /\ Same(u.fifo[h], p.v.fifo[h])
        /\ \A g \in Place \ {h} : u.fifo[g] = p.v.fifo[g]
    BY <1>1, <2>5, WithStateIs
  <2> HIDE DEF u
  <2>7. q.v = u /\ q.msg = p.msg /\ q.sent = p.sent /\ q.free = p.free /\ Shaped(q)
    BY <1>1, <2>2, <2>4, <2>6 DEF Shaped
  <2> QED BY <2>6, <2>7 DEF Quiet
<1>3. CASE p.v.fifo[h].txRetryCnt # 0 /\ p.free
  <2>1. q = Send(p, h, p.msg)
    BY <1>3 DEF Retried
  <2> QED BY <2>1, SendIs
<1>4. CASE p.v.fifo[h].txRetryCnt # 0 /\ ~p.free
  <2> DEFINE n == p.v.fifo[h].txRetryCnt - 1
             s == p.v.fifo[h].state
             t == [p.v.fifo[h] EXCEPT !.state = s, !.txRetryCnt = n]
             u == WithState(p.v, h, s, n)
             r == [p EXCEPT !.v.fifo[h].txRetryCnt = @ - 1]
  <2>1. q = Send(r, h, p.msg)
    BY <1>4 DEF Retried
  <2>2. s \in Running \union Final /\ n \in Int
    BY <1>1 DEF AnyTransaction
  <2>3. [p.v.fifo[h] EXCEPT !.txRetryCnt = @ - 1] = t
    BY <1>1 DEF AnyTransaction
  <2>4. [p.v EXCEPT !.fifo[h].txRetryCnt = @ - 1] = u
    <3>1. [p.v EXCEPT !.fifo[h].txRetryCnt = @ - 1] = [fifo |-> [p.v.fifo EXCEPT ![h] = t], wr |-> p.v.wr, rd |-> p.v.rd]
      BY <1>1, <2>3 DEF AnyQueue
    <3> QED BY <3>1 DEF WithState
  <2>5. r = [v |-> [p.v EXCEPT !.fifo[h].txRetryCnt = @ - 1], msg |-> p.msg, sent |-> p.sent, free |-> p.free]
    BY <1>1
  <2>6. /\ u \in AnyQueue /\ u.rd = p.v.rd /\ u.wr = p.v.wr /\ Same(u.fifo[h], p.v.fifo[h])
        /\ \A g \in Place \ {h} : u.fifo[g] = p.v.fifo[g]
    <3> HIDE DEF s, n
    <3> QED BY <1>1, <2>2, WithStateIs
  <2> HIDE DEF u, r
  <2>7. r.v = u /\ r.msg = p.msg /\ r.sent = p.sent /\ r.free = p.free /\ Shaped(r)
    BY <1>1, <2>4, <2>5, <2>6 DEF Shaped
  <2>8. /\ Shaped(q) /\ q.v.rd = r.v.rd /\ q.v.wr = r.v.wr /\ q.msg = p.msg /\ Sending(r, q, h)
        /\ Same(q.v.fifo[h], r.v.fifo[h]) /\ \A g \in Place \ {h} : q.v.fifo[g] = r.v.fifo[g]
    BY <2>1, <2>7, SendIs
  <2>9. Sending(p, q, h) /\ Same(q.v.fifo[h], p.v.fifo[h])
    BY <2>6, <2>7, <2>8 DEF Sending, Same
  <2> QED BY <2>6, <2>7, <2>8, <2>9
<1> QED BY <1>1, <1>2, <1>3, <1>4

LEMMA ProcessIs ==
  ASSUME NEW p, Shaped(p), NEW h \in Place, NEW elapsed, NEW data, NEW q, q = Process(p, h, elapsed, data)
  PROVE  /\ Shaped(q) /\ q.v.rd = p.v.rd /\ q.v.wr = p.v.wr /\ Turn(p, q, h, elapsed)
         /\ Same(q.v.fifo[h], p.v.fifo[h]) /\ \A g \in Place \ {h} : q.v.fifo[g] = p.v.fifo[g]
<1>1. p.v \in AnyQueue /\ p.v.fifo[h] \in AnyTransaction /\ p.v.fifo[h].txRetryCnt \in Int
      /\ p = [v |-> p.v, msg |-> p.msg, sent |-> p.sent, free |-> p.free] /\ p.free \in BOOLEAN
  BY DEF Shaped, AnyQueue, AnyTransaction
<1>2. CASE p.v.fifo[h].state = "Scheduled"
  <2> DEFINE m == Request(h, p.v.fifo[h], data[h])
  <2>1. q = Send(p, h, m)
    BY <1>2 DEF Process
  <2>2. m.index = p.v.fifo[h].idx
    BY DEF Request
  <2> HIDE DEF m
  <2> QED BY <1>2, <2>1, <2>2, SendIs DEF Turn
<1>3. CASE p.v.fifo[h].state = "TxRetry" /\ h \in elapsed
  <2>1. q = Retried(p, h)
    BY <1>3 DEF Process
  <2> QED BY <1>3, <2>1, RetriedIs DEF Turn
<1>4. CASE p.v.fifo[h].state = "Waiting" /\ h \in elapsed
  <2> DEFINE u == WithState(p.v, h, "Timeout", p.v.fifo[h].txRetryCnt)
  <2>2. [p.v EXCEPT !.fifo[h].state = "Timeout"] = u
    BY <1>1, StateSet
  <2>3. q = [p EXCEPT !.v.fifo[h].state = "Timeout"]
    BY <1>4 DEF Process
  <2>4. q = [v |-> [p.v EXCEPT !.fifo[h].state = "Timeout"], msg |-> p.msg, sent |-> p.sent, free |-> p.free]
    BY <1>1, <2>3
  <2>5. "Timeout" \in Running \union Final
    BY DEF Final
  <2>6. /\ u \in AnyQueue /\ u.rd = p.v.rd /\ u.wr = p.v.wr /\ u.fifo[h].state = "Timeout" /\ Same(u.fifo[h], p.v.fifo[h])
        /\ \A g \in Place \ {h} : u.fifo[g] = p.v.fifo[g]
    BY <1>1, <2>5, WithStateIs
  <2> HIDE DEF u
  <2>7. q.v = u /\ q.msg = p.msg /\ q.sent = p.sent /\ q.free = p.free /\ Shaped(q)
    BY <1>1, <2>2, <2>4, <2>6 DEF Shaped
  <2> QED BY <1>4, <2>6, <2>7 DEF Quiet, Turn
<1>5. CASE p.v.fifo[h].state # "Scheduled" /\ (h \in elapsed => p.v.fifo[h].state \notin {"Waiting", "TxRetry"})
  <2>1. q = p
    BY <1>5 DEF Process
  <2> QED BY <1>5, <2>1 DEF Turn, Quiet, Same
<1> QED BY <1>2, <1>3, <1>4, <1>5

-----------------------------------------------------------------------------
(* BusVarProcess: the places in turn.                                          *)
Passes(f, queue, start, elapsed, data, m) ==
  f = [k \in 0 .. m |-> IF k = 0 THEN start ELSE Process(f[k - 1], queue[k], elapsed, data)]

LEMMA PassesExist ==
  ASSUME NEW queue, NEW start, NEW elapsed, NEW data
  PROVE  \A m \in Nat : \E f : Passes(f, queue, start, elapsed, data, m)
<1> DEFINE S == {m \in Nat : \E f : Passes(f, queue, start, elapsed, data, m)}
<1>1. 0 \in S
  <2>1. Passes([k \in 0 .. 0 |-> start], queue, start, elapsed, data, 0)
    BY DEF Passes
  <2> QED BY <2>1
<1>2. ASSUME NEW m \in Nat, m \in S PROVE m + 1 \in S
  <2>1. PICK f : Passes(f, queue, start, elapsed, data, m)
    BY <1>2
  <2> DEFINE g == [k \in 0 .. m + 1 |-> IF k <= m THEN f[k] ELSE Process(f[m], queue[m + 1], elapsed, data)]
  <2>2. ASSUME NEW k \in 0 .. m + 1
        PROVE  g[k] = IF k = 0 THEN start ELSE Process(g[k - 1], queue[k], elapsed, data)
    <3>1. CASE k = m + 1
      <4>1. k - 1 = m /\ g[k - 1] = f[m] /\ k # 0 /\ ~ (k <= m)
        BY <3>1
      <4> QED BY <3>1, <4>1
    <3>2. CASE k # m + 1
      <4>1. k <= m /\ k \in 0 .. m /\ g[k] = f[k]
        BY <3>2
      <4>2. k # 0 => k - 1 \in 0 .. m + 1 /\ k - 1 <= m /\ g[k - 1] = f[k - 1]
        BY <4>1
      <4>3. f[k] = IF k = 0 THEN start ELSE Process(f[k - 1], queue[k], elapsed, data)
        BY <2>1, <4>1 DEF Passes
      <4> QED BY <4>1, <4>2, <4>3
    <3> QED BY <3>1, <3>2
  <2>3. g = [k \in 0 .. m + 1 |-> g[k]]
    OBVIOUS
  <2> HIDE DEF g
  <2>4. Passes(g, queue, start, elapsed, data, m + 1)
    BY <2>2, <2>3 DEF Passes
  <2> QED BY <2>4
<1> HIDE DEF S
<1>3. \A m \in Nat : m \in S
  BY <1>1, <1>2, Induct
<1> QED BY <1>3 DEF S

Outcome(before, after, expired) ==
  \/ before = "Scheduled" /\ after \in {"Waiting", "TxRetry"}
  \/ before = "Waiting" /\ (after = "Waiting" \/ (after = "Timeout" /\ expired))
  \/ before = "TxRetry" /\ after \in {"TxRetry", "Waiting", "TxError"}
  \/ before \notin Running /\ after = before

Turned(v, u, h) == u.fifo[h].state = "Waiting" /\ v.fifo[h].state # "Waiting"

(* What was sent is the request of the place that waits now, or what a retry   *)
(* found in the static telegram, of which a later place may have taken hold.    *)
SentFor(v, p, s) ==
  \/ p.sent[1].index = v.fifo[s].idx
  \/ p.sent[1] = p.msg /\ v.fifo[s].state = "TxRetry"
  \/ /\ v.fifo[s].state = "TxRetry"
     /\ \E g \in Queued(v) \ {s} : v.fifo[g].state = "Scheduled" /\ p.msg.index = v.fifo[g].idx

(* After k places of the queue.                                                *)
Partly(v, p, k, elapsed) ==
  /\ Shaped(p) /\ p.v.rd = v.rd /\ p.v.wr = v.wr
  /\ \A h \in Queued(v) :
       /\ Same(p.v.fifo[h], v.fifo[h])
       /\ k <= Distance(v.rd, h) => p.v.fifo[h] = v.fifo[h]
       /\ Distance(v.rd, h) < k => Outcome(v.fifo[h].state, p.v.fifo[h].state, h \in elapsed)
  /\ p.free => p.sent = <<>>
  /\ p.sent = <<>> => \A h \in Queued(v) : ~Turned(v, p.v, h)
  /\ p.sent # <<>> =>
       /\ p.sent = <<p.sent[1]>>
       /\ \E s \in Queued(v) : Turned(v, p.v, s) /\ SentFor(v, p, s) /\ \A h \in Queued(v) : Turned(v, p.v, h) => h = s

LEMMA DistanceNat == \A a \in Place, b \in Place : Distance(a, b) \in Nat
<1>1. \A a \in Place, b \in Place : Distance(a, b) \in 0 .. Size - 1
  BY DistancesIn
<1> QED BY <1>1, SizeIs

LEMMA PartlyStep ==
  ASSUME NEW v \in AnyQueue, NEW elapsed, NEW data, NEW k \in Nat, NEW g \in Queued(v), Distance(v.rd, g) = k,
         NEW p, Partly(v, p, k, elapsed), NEW q, q = Process(p, g, elapsed, data)
  PROVE  Partly(v, q, k + 1, elapsed)
<1>1. Queued(v) \subseteq Place /\ Bounded(v)
  BY QueuedIs, AnyBounded
<1>2. \A h \in Queued(v) : Distance(v.rd, h) \in Nat
  BY <1>1, DistanceNat DEF Bounded
<1>3. \A h \in Queued(v) : Distance(v.rd, h) = k => h = g
  <2>1. \A h \in Queued(v) : Queue(v)[Distance(v.rd, h) + 1] = h
    BY <1>1, QueuedIs
  <2> QED BY <2>1
<1>4. /\ Shaped(q) /\ q.v.rd = p.v.rd /\ q.v.wr = p.v.wr /\ Turn(p, q, g, elapsed)
      /\ Same(q.v.fifo[g], p.v.fifo[g]) /\ \A h \in Place \ {g} : q.v.fifo[h] = p.v.fifo[h]
  BY <1>1, ProcessIs DEF Partly
<1>5. p.v.fifo[g] = v.fifo[g] /\ p.v.rd = v.rd /\ p.v.wr = v.wr
  BY <1>2 DEF Partly
<1>6. \A h \in Queued(v) : h # g => q.v.fifo[h] = p.v.fifo[h]
  BY <1>1, <1>4
<1>7. v.fifo[g].state \in Running \union Final
  BY <1>1 DEF AnyQueue, AnyTransaction
<1>8. Outcome(v.fifo[g].state, q.v.fifo[g].state, g \in elapsed)
  BY <1>4, <1>5, <1>7 DEF Turn, Sending, Outcome, Running
<1>9. \A h \in Queued(v) :
        /\ Same(q.v.fifo[h], v.fifo[h])
        /\ k + 1 <= Distance(v.rd, h) => q.v.fifo[h] = v.fifo[h]
        /\ Distance(v.rd, h) < k + 1 => Outcome(v.fifo[h].state, q.v.fifo[h].state, h \in elapsed)
  <2> SUFFICES ASSUME NEW h \in Queued(v)
               PROVE  /\ Same(q.v.fifo[h], v.fifo[h])
                      /\ k + 1 <= Distance(v.rd, h) => q.v.fifo[h] = v.fifo[h]
                      /\ Distance(v.rd, h) < k + 1 => Outcome(v.fifo[h].state, q.v.fifo[h].state, h \in elapsed)
    OBVIOUS
  <2>1. CASE h = g
    BY <2>1, <1>2, <1>4, <1>5, <1>8
  <2>2. CASE h # g
    <3>1. Distance(v.rd, h) \in Nat /\ Distance(v.rd, h) # k
      BY <2>2, <1>2, <1>3
    <3>2. (k + 1 <= Distance(v.rd, h) => k <= Distance(v.rd, h)) /\ (Distance(v.rd, h) < k + 1 => Distance(v.rd, h) < k)
      BY <3>1
    <3> QED BY <2>2, <3>2, <1>6 DEF Partly
  <2> QED BY <2>1, <2>2
<1>10. \A h \in Queued(v) : h # g => (Turned(v, q.v, h) <=> Turned(v, p.v, h))
  BY <1>6 DEF Turned
<1>11. ~Turned(v, p.v, g)
  BY <1>5 DEF Turned
<1>12. CASE Sending(p, q, g) /\ p.free
  <2>1. q.sent = <<q.msg>> /\ q.sent[1] = q.msg /\ q.sent # <<>> /\ q.free = FALSE /\ q.v.fifo[g].state = "Waiting"
    BY <1>12 DEF Sending
  <2>2. v.fifo[g].state \in {"Scheduled", "TxRetry"} /\ (v.fifo[g].state = "Scheduled" => q.msg.index = v.fifo[g].idx)
    <3>1. ~Quiet(p, q)
      BY <1>12, <2>1 DEF Quiet
    <3> QED BY <3>1, <1>4, <1>5 DEF Turn
  <2>3. Turned(v, q.v, g) /\ SentFor(v, q, g)
    BY <2>1, <2>2 DEF Turned, SentFor
  <2>4. \A h \in Queued(v) : ~Turned(v, p.v, h)
    BY <1>12 DEF Partly
  <2> QED BY <2>1, <2>3, <2>4, <1>4, <1>5, <1>9, <1>10 DEF Partly
<1>13. CASE (Sending(p, q, g) /\ ~p.free) \/ Quiet(p, q)
  <2>1. q.sent = p.sent /\ (q.free => p.free) /\ (q.free => q.sent = <<>>)
    BY <1>13 DEF Sending, Quiet, Partly
  <2>2. q.msg = p.msg \/ (v.fifo[g].state = "Scheduled" /\ q.msg.index = v.fifo[g].idx)
    BY <1>4, <1>5 DEF Turn, Quiet
  <2>3. ~Turned(v, q.v, g)
    <3>1. CASE Sending(p, q, g) /\ ~p.free
      BY <3>1 DEF Sending, Turned
    <3>2. CASE Quiet(p, q)
      <4>1. CASE Sending(p, q, g)
        BY <3>2, <4>1 DEF Sending, Turned, Quiet
      <4> QED BY <3>2, <4>1, <1>4, <1>5 DEF Turn, Turned
    <3> QED BY <3>1, <3>2, <1>13
  <2>4. \A h \in Queued(v) : Turned(v, q.v, h) <=> Turned(v, p.v, h)
    BY <2>3, <1>10, <1>11
  <2>5. ASSUME NEW s \in Queued(v), Turned(v, p.v, s), SentFor(v, p, s) PROVE SentFor(v, q, s)
    <3>1. s # g
      BY <2>5, <1>11
    <3> QED BY <3>1, <2>1, <2>2, <2>5 DEF SentFor
  <2>6. p.sent # <<>> => \E s \in Queued(v) : Turned(v, q.v, s) /\ SentFor(v, q, s) /\ \A h \in Queued(v) : Turned(v, q.v, h) => h = s
    BY <2>4, <2>5 DEF Partly
  <2>7. /\ q.sent = <<>> => \A h \in Queued(v) : ~Turned(v, q.v, h)
        /\ q.sent # <<>> => q.sent = <<q.sent[1]>>
    BY <2>1, <2>4 DEF Partly
  <2> QED BY <2>1, <2>6, <2>7, <1>4, <1>5, <1>9 DEF Partly
<1> QED BY <1>4, <1>12, <1>13 DEF Turn

LEMMA PassIs ==
  ASSUME NEW v \in AnyQueue, NEW msg, NEW free \in BOOLEAN, NEW elapsed, NEW data,
         NEW p, p = BusVarProcess(v, msg, free, elapsed, data)
  PROVE  /\ Partly(v, p, Len(Queue(v)), elapsed)
         /\ \A h \in Queued(v) : Distance(v.rd, h) < Len(Queue(v))
         /\ ~free => p.sent = <<>>
<1> DEFINE n == Len(Queue(v))
           start == [v |-> v, msg |-> msg, sent |-> <<>>, free |-> free]
           f == CHOOSE f : f = [k \in 0 .. n |-> IF k = 0 THEN start ELSE Process(f[k - 1], Queue(v)[k], elapsed, data)]
<1>1. n \in Nat /\ Bounded(v) /\ DOMAIN Queue(v) = 1 .. n
  BY QueueIs, AnyBounded, DistancesIn, SizeIs DEF Bounded
<1>2. p = f[n]
  BY DEF BusVarProcess
<1> HIDE DEF start
<1>3. Passes(f, Queue(v), start, elapsed, data, n)
  <2>1. \E g : Passes(g, Queue(v), start, elapsed, data, n)
    BY <1>1, PassesExist
  <2> QED BY <2>1 DEF Passes
<1> HIDE DEF n, f
<1>4. f[0] = start
  BY <1>1, <1>3 DEF Passes
<1>5. ASSUME NEW k \in Nat, k + 1 <= n PROVE f[k + 1] = Process(f[k], Queue(v)[k + 1], elapsed, data)
  <2> DEFINE l == k + 1
  <2>1. l \in 0 .. n /\ l # 0 /\ l - 1 = k
    BY <1>1, <1>5
  <2> HIDE DEF l
  <2>2. f[l] = Process(f[l - 1], Queue(v)[l], elapsed, data)
    BY <2>1, <1>3 DEF Passes
  <2> QED BY <2>1, <2>2 DEF l
<1>6. Partly(v, f[0], 0, elapsed)
  <2>1. Shaped(start) /\ start.v = v /\ start.sent = <<>>
    BY DEF start, Shaped
  <2>2. \A h \in Queued(v) : Distance(v.rd, h) \in Nat
    <3>1. Queued(v) \subseteq Place
      BY <1>1, QueuedIs
    <3> QED BY <3>1, <1>1, DistanceNat DEF Bounded
  <2> QED BY <1>4, <2>1, <2>2 DEF Partly, Turned, Same
<1>7. ASSUME NEW k \in Nat, k + 1 <= n, Partly(v, f[k], k, elapsed) PROVE Partly(v, f[k + 1], k + 1, elapsed)
  <2>1. k + 1 \in DOMAIN Queue(v) /\ k + 1 - 1 = k
    BY <1>1, <1>7
  <2>2. Queue(v)[k + 1] \in Queued(v) /\ Distance(v.rd, Queue(v)[k + 1]) = k
    BY <2>1, <1>1, QueuedIs
  <2> QED BY <2>2, <1>5, <1>7, PartlyStep
<1> DEFINE Good(k) == Partly(v, f[k], k, elapsed) /\ (~free => f[k].free = FALSE /\ f[k].sent = <<>>)
           S == {k \in Nat : k <= n => Good(k)}
<1>8. 0 \in S
  <2>1. ~free => start.free = FALSE /\ start.sent = <<>>
    BY DEF start
  <2> QED BY <2>1, <1>4, <1>6
<1>9. ASSUME NEW k \in Nat, k \in S PROVE k + 1 \in S
  <2>1. ASSUME k + 1 <= n PROVE Good(k + 1)
    <3>2. k <= n /\ Partly(v, f[k], k, elapsed) /\ (~free => f[k].free = FALSE /\ f[k].sent = <<>>)
      BY <2>1, <1>1, <1>9
    <3>3. Partly(v, f[k + 1], k + 1, elapsed)
      BY <2>1, <3>2, <1>7
    <3>4. ASSUME ~free PROVE f[k + 1].free = FALSE /\ f[k + 1].sent = <<>>
      <4>1. k + 1 \in DOMAIN Queue(v) /\ Queue(v)[k + 1] \in Place
        <5>1. k + 1 \in DOMAIN Queue(v)
          BY <1>1, <2>1
        <5> QED BY <5>1, <1>1, QueuedIs
      <4>2. Turn(f[k], f[k + 1], Queue(v)[k + 1], elapsed)
        BY <4>1, <2>1, <3>2, <1>5, ProcessIs DEF Partly
      <4> QED BY <4>2, <3>2, <3>4 DEF Turn, Sending, Quiet
    <3> QED BY <3>3, <3>4
  <2>2. k + 1 \in Nat
    BY <1>9
  <2> HIDE DEF Good
  <2> QED BY <2>1, <2>2
<1> HIDE DEF S
<1>10. \A k \in Nat : k \in S
  BY <1>8, <1>9, Induct
<1>11. Partly(v, p, n, elapsed) /\ (~free => p.sent = <<>>)
  BY <1>1, <1>2, <1>10 DEF S
<1>12. \A h \in Queued(v) : Distance(v.rd, h) < n
  <2>1. n = Distance(v.rd, v.wr)
    BY <1>1, QueueIs DEF n
  <2> QED BY <2>1, <1>1, QueuedIs
<1> QED BY <1>11, <1>12 DEF n

-----------------------------------------------------------------------------
(* The application of the other DO31.                                          *)
(* What BusVarProcess makes of v.                                              *)
Processed(v, handle, elapsed, p) ==
  /\ Held(p.v, handle) /\ Queued(p.v) = Queued(v)
  /\ \A h \in Queued(v) : Outcome(v.fifo[h].state, p.v.fifo[h].state, h \in elapsed)
  /\ p.sent = <<>> => \A h \in Queued(v) : ~Turned(v, p.v, h)
  /\ p.sent # <<>> => p.sent = <<p.sent[1]>>
  /\ p.sent # <<>> /\ ~Crossed(v, p) =>
       \E s \in Queued(v) : /\ Turned(v, p.v, s) /\ p.sent[1].index = v.fifo[s].idx
                            /\ \A h \in Queued(v) : Turned(v, p.v, h) => h = s

LEMMA ProcessedIs ==
  ASSUME NEW v, NEW handle, Held(v, handle), NEW msg, NEW free, free \in BOOLEAN, NEW elapsed, NEW data,
         NEW p, p = BusVarProcess(v, msg, free, elapsed, data)
  PROVE  Processed(v, handle, elapsed, p)
<1>1. v \in AnyQueue
  BY DEF Held
<1>2. /\ Partly(v, p, Len(Queue(v)), elapsed)
      /\ \A h \in Queued(v) : Distance(v.rd, h) < Len(Queue(v))
      /\ ~free => p.sent = <<>>
  BY <1>1, PassIs
<1>3. p.v \in AnyQueue /\ p.v.rd = v.rd /\ p.v.wr = v.wr
  BY <1>2 DEF Partly, Shaped
<1>4. \A h \in Queued(v) : Same(p.v.fifo[h], v.fifo[h]) /\ Outcome(v.fifo[h].state, p.v.fifo[h].state, h \in elapsed)
  BY <1>2 DEF Partly
<1>5. \A h \in Queued(v) : /\ p.v.fifo[h].addr = v.fifo[h].addr /\ p.v.fifo[h].idx = v.fifo[h].idx
                           /\ p.v.fifo[h].state = "Invalid" <=> v.fifo[h].state = "Invalid"
  BY <1>4 DEF Same, Outcome, Running
<1>6. Held(p.v, handle) /\ Queued(p.v) = Queued(v)
  BY <1>3, <1>5, StatesChange
<1>7. /\ p.sent = <<>> => \A h \in Queued(v) : ~Turned(v, p.v, h)
      /\ p.sent # <<>> => p.sent = <<p.sent[1]>>
  BY <1>2 DEF Partly
<1>8. ASSUME p.sent # <<>>, ~Crossed(v, p)
      PROVE  \E s \in Queued(v) : /\ Turned(v, p.v, s) /\ p.sent[1].index = v.fifo[s].idx
                                  /\ \A h \in Queued(v) : Turned(v, p.v, h) => h = s
  <2>1. PICK s \in Queued(v) : Turned(v, p.v, s) /\ SentFor(v, p, s) /\ \A h \in Queued(v) : Turned(v, p.v, h) => h = s
    BY <1>2, <1>8 DEF Partly
  <2>2. v.fifo[s].state = "TxRetry" => p.msg.index = v.fifo[s].idx
    BY <1>8, <2>1 DEF Crossed, Turned
  <2>3. ASSUME NEW g \in Queued(v) \ {s}, v.fifo[s].state = "TxRetry", v.fifo[g].state = "Scheduled", p.msg.index = v.fifo[g].idx
        PROVE  FALSE
    <3>1. handle[v.fifo[g].idx] = g /\ handle[v.fifo[s].idx] = s
      BY <2>1, <2>3 DEF Held
    <3> QED BY <2>2, <2>3, <3>1
  <2>4. p.sent[1].index = v.fifo[s].idx
    BY <2>1, <2>2, <2>3 DEF SentFor
  <2> QED BY <2>1, <2>4
<1> QED BY <1>4, <1>6, <1>7, <1>8 DEF Processed

SentNothing(p) == p.sent = <<>>

LEMMA NothingSent ==
  ASSUME NEW v, v \in AnyQueue, NEW msg, NEW free, free = FALSE, NEW elapsed, NEW data,
         NEW p, p = BusVarProcess(v, msg, free, elapsed, data)
  PROVE  SentNothing(p)
<1>1. free \in BOOLEAN /\ ~free
  OBVIOUS
<1> QED BY <1>1, PassIs DEF SentNothing

AppShape(a) ==
  /\ a = [v |-> a.v, msg |-> a.msg, handle |-> a.handle, mem |-> a.mem, was |-> a.was, odd |-> a.odd]
  /\ a.handle = [i \in Variables |-> a.handle[i]] /\ a.mem = [i \in Variables |-> a.mem[i]]
  /\ a.odd \in BOOLEAN /\ a.was \in BOOLEAN

StateOf(a, i) == a.v.fifo[a.handle[i]].state

(* Between two passes a transaction that is open waits or is about to end.     *)
Resting(a) ==
  /\ Held(a.v, a.handle)
  /\ \A i \in Variables : a.handle[i] # NoHandle => StateOf(a, i) \in {"Waiting", "TxRetry", "Timeout", "TxError"}

(* b is a, but for an answer t that was taken.                                 *)
Took(a, b, t) ==
  /\ Held(b.v, b.handle) /\ b.handle = a.handle
  /\ \A i \in Variables : a.handle[i] # NoHandle =>
       \/ StateOf(b, i) = StateOf(a, i)
       \/ /\ t.type = "GetVar" /\ t.from = DeviceAddress /\ t.index = i
          /\ StateOf(b, i) = "Ready" /\ b.mem[i] = t.data

LEMMA RespondedIs ==
  ASSUME NEW a, AppShape(a), NEW t, NEW b, b = Responded(a, t)
  PROVE  /\ AppShape(b) /\ b.was = a.was /\ (a.odd => b.odd)
         /\ ~b.odd /\ Resting(a) => Took(a, b, t)
<1>1. CASE t.type = "GetVar"
  <2> DEFINE h == GetTaker(a.v, t.from, t.index)
             v2 == Answered(a.v, h)
             mem2 == IF h = NoHandle THEN a.mem ELSE [a.mem EXCEPT ![a.v.fifo[h].idx] = t.data]
             odd2 == a.odd \/ (h # NoHandle /\ a.v.fifo[h].state = "Invalid")
  <2>1. b = [a EXCEPT !.v = v2, !.mem = mem2, !.odd = odd2]
    BY <1>1 DEF Responded
  <2>2. mem2 = [i \in Variables |-> mem2[i]] /\ odd2 \in BOOLEAN
    BY DEF AppShape
  <2> HIDE DEF h, v2, mem2, odd2
  <2>3. b = [v |-> v2, msg |-> a.msg, handle |-> a.handle, mem |-> mem2, was |-> a.was, odd |-> odd2]
    BY <2>1 DEF AppShape
  <2>4. AppShape(b) /\ b.was = a.was /\ b.odd = odd2 /\ b.v = v2 /\ b.mem = mem2 /\ b.handle = a.handle
    BY <2>2, <2>3 DEF AppShape
  <2>5. ASSUME ~b.odd, Resting(a) PROVE Took(a, b, t)
    <3>1. CASE h = NoHandle
      <4>1. v2 = a.v
        BY <3>1 DEF v2, Answered
      <4> QED BY <4>1, <2>4, <2>5 DEF Took, Resting, StateOf
    <3>2. CASE h # NoHandle
      <4> DEFINE places == {g \in Place : FitsGet(a.v.fifo[g], t.from, t.index)}
                 i == a.v.fifo[h].idx
      <4>1. a.v \in AnyQueue /\ Bounded(a.v) /\ Held(a.v, a.handle) /\ Queued(a.v) \subseteq Place
        BY <2>5, AnyBounded, QueuedIs DEF Resting, Held
      <4>2. h \in Queued(a.v) /\ h \in places
        <5>1. h = First(a.v, places, NoHandle)
          BY DEF h, GetTaker
        <5> HIDE DEF places
        <5> QED BY <3>2, <4>1, <5>1, FirstIs
      <4>3. h \in Place /\ a.v.fifo[h].addr = t.from /\ i = t.index /\ a.v.fifo[h].addr = DeviceAddress /\ i \in Variables
        BY <4>1, <4>2 DEF FitsGet, Held
      <4>4. a.v.fifo[h].state # "Invalid"
        BY <2>4, <2>5, <3>2 DEF odd2
      <4>5. a.handle[i] = h
        BY <4>1, <4>2, <4>4 DEF Held
      <4>6. v2 = WithState(a.v, h, "Ready", a.v.fifo[h].txRetryCnt)
        BY <3>2, <4>1, <4>3, StateSet DEF v2, Answered
      <4>7. "Ready" \in Running \union Final /\ a.v.fifo[h].txRetryCnt \in Int
        BY <4>1, <4>3 DEF Final, AnyQueue, AnyTransaction
      <4>8. /\ v2 \in AnyQueue /\ v2.rd = a.v.rd /\ v2.wr = a.v.wr /\ v2.fifo[h].state = "Ready" /\ Same(v2.fifo[h], a.v.fifo[h])
            /\ \A g \in Place \ {h} : v2.fifo[g] = a.v.fifo[g]
        BY <4>1, <4>3, <4>6, <4>7, WithStateIs
      <4>9. \A g \in Queued(a.v) : /\ v2.fifo[g].addr = a.v.fifo[g].addr /\ v2.fifo[g].idx = a.v.fifo[g].idx
                                   /\ v2.fifo[g].state = "Invalid" <=> a.v.fifo[g].state = "Invalid"
        BY <4>1, <4>4, <4>8 DEF Same
      <4>10. Held(v2, a.handle)
        BY <4>1, <4>8, <4>9, StatesChange
      <4>11. mem2[i] = t.data
        BY <3>2, <4>3 DEF mem2, AppShape
      <4>12. ASSUME NEW j \in Variables, a.handle[j] # NoHandle, a.handle[j] # h PROVE v2.fifo[a.handle[j]] = a.v.fifo[a.handle[j]]
        BY <4>1, <4>8, <4>12 DEF Held
      <4>13. ASSUME NEW j \in Variables, a.handle[j] = h PROVE j = i
        BY <3>2, <4>1, <4>13 DEF Held
      <4> HIDE DEF i
      <4>14. Held(b.v, b.handle) /\ b.handle = a.handle
        BY <2>4, <4>10
      <4>15. ASSUME NEW j \in Variables, a.handle[j] # NoHandle
             PROVE  \/ StateOf(b, j) = StateOf(a, j)
                    \/ /\ t.type = "GetVar" /\ t.from = DeviceAddress /\ t.index = j
                       /\ StateOf(b, j) = "Ready" /\ b.mem[j] = t.data
        <5>1. CASE a.handle[j] = h
          BY <5>1, <1>1, <2>4, <4>3, <4>8, <4>11, <4>13 DEF StateOf
        <5>2. CASE a.handle[j] # h
          BY <5>2, <2>4, <4>12, <4>15 DEF StateOf
        <5> QED BY <5>1, <5>2
      <4> QED BY <4>14, <4>15 DEF Took
    <3> QED BY <3>1, <3>2
  <2>6. a.odd => b.odd
    BY <2>4 DEF odd2
  <2> QED BY <2>4, <2>5, <2>6
<1>2. CASE t.type = "SetVar"
  <2> DEFINE h == SetTaker(a.v, t.from, t.index)
             v2 == Answered(a.v, h)
             odd2 == a.odd \/ h # NoHandle
  <2>1. b = [a EXCEPT !.v = v2, !.odd = odd2]
    BY <1>2 DEF Responded
  <2>2. odd2 \in BOOLEAN
    OBVIOUS
  <2>3. ~odd2 => v2 = a.v
    BY DEF Answered
  <2>4. a.odd => odd2
    OBVIOUS
  <2> HIDE DEF h, v2, odd2
  <2>5. b = [v |-> v2, msg |-> a.msg, handle |-> a.handle, mem |-> a.mem, was |-> a.was, odd |-> odd2]
    BY <2>1 DEF AppShape
  <2>6. AppShape(b) /\ b.was = a.was /\ b.odd = odd2 /\ b.v = v2 /\ b.mem = a.mem /\ b.handle = a.handle
    BY <2>2, <2>5 DEF AppShape
  <2> QED BY <2>3, <2>4, <2>6 DEF Took, Resting, StateOf
<1>3. CASE t.type \notin {"GetVar", "SetVar"}
  <2>1. b = a
    BY <1>3 DEF Responded
  <2> QED BY <2>1 DEF Took, Resting
<1> QED BY <1>1, <1>2, <1>3

LEMMA OpenedIs ==
  ASSUME NEW a, AppShape(a), NEW i \in Variables, NEW dir \in Dirs, NEW b, b = Opened(a, i, dir)
  PROVE  /\ AppShape(b) /\ b.was = a.was /\ (a.odd => b.odd)
         /\ ~b.odd /\ Resting(a) =>
              /\ Held(b.v, b.handle) /\ a.handle[i] = NoHandle
              /\ b.handle[i] # NoHandle => StateOf(b, i) = "Scheduled"
              /\ \A j \in Variables \ {i} : b.handle[j] = a.handle[j] /\ (a.handle[j] # NoHandle => StateOf(b, j) = StateOf(a, j))
<1> DEFINE full == NumFifoFree(a.v) = 0
           handle2 == [a.handle EXCEPT ![i] = IF full THEN NoHandle ELSE a.v.wr]
           t == Transaction(DeviceAddress, i, dir)
           v2 == IF full THEN a.v ELSE BusVarTransactionOpen(a.v, t)
           mem2 == [a.mem EXCEPT ![i] = IF dir = "Write" THEN 1 ELSE @]
           odd2 == a.odd \/ a.handle[i] # NoHandle
<1>1. b = [a EXCEPT !.handle[i] = IF full THEN NoHandle ELSE a.v.wr, !.v = v2, !.mem[i] = IF dir = "Write" THEN 1 ELSE @, !.odd = odd2]
  BY DEF Opened
<1>2. handle2 = [j \in Variables |-> handle2[j]] /\ mem2 = [j \in Variables |-> mem2[j]] /\ odd2 \in BOOLEAN
  BY DEF AppShape
<1>3. b = [v |-> v2, msg |-> a.msg, handle |-> handle2, mem |-> mem2, was |-> a.was, odd |-> odd2]
  <2> HIDE DEF full, v2, odd2
  <2> QED BY <1>1 DEF AppShape
<1> HIDE DEF v2, mem2, odd2
<1>4. AppShape(b) /\ b.was = a.was /\ b.odd = odd2 /\ b.v = v2 /\ b.mem = mem2 /\ b.handle = handle2
  <2> HIDE DEF handle2
  <2> QED BY <1>2, <1>3 DEF AppShape
<1>5. ASSUME ~b.odd, Resting(a)
      PROVE  /\ Held(b.v, b.handle) /\ a.handle[i] = NoHandle
             /\ b.handle[i] # NoHandle => StateOf(b, i) = "Scheduled"
             /\ \A j \in Variables \ {i} : b.handle[j] = a.handle[j] /\ (a.handle[j] # NoHandle => StateOf(b, j) = StateOf(a, j))
  <2>1. a.handle[i] = NoHandle /\ Held(a.v, a.handle) /\ a.handle = [j \in Variables |-> a.handle[j]]
    BY <1>4, <1>5 DEF odd2, Resting, AppShape
  <2>2. CASE full
    <3>1. v2 = a.v /\ handle2 = a.handle
      BY <2>1, <2>2 DEF v2
    <3> QED BY <2>1, <3>1, <1>4 DEF StateOf
  <2>3. CASE ~full
    <3>1. v2 = BusVarTransactionOpen(a.v, t) /\ handle2 = [a.handle EXCEPT ![i] = a.v.wr]
      BY <2>3 DEF v2
    <3>2. /\ Held(v2, [a.handle EXCEPT ![i] = a.v.wr]) /\ a.v.wr # NoHandle
          /\ \A h \in Queued(a.v) : v2.fifo[h] = a.v.fifo[h]
          /\ v2.fifo[a.v.wr].state = "Scheduled"
      BY <2>1, <2>3, <3>1, OpenIs
    <3>3. handle2[i] = a.v.wr /\ \A j \in Variables \ {i} : handle2[j] = a.handle[j]
      BY <2>1, <3>1
    <3>4. \A j \in Variables \ {i} : a.handle[j] # NoHandle => a.handle[j] \in Queued(a.v)
      BY <2>1 DEF Held
    <3> QED BY <2>1, <3>1, <3>2, <3>3, <3>4, <1>4 DEF StateOf
  <2> QED BY <2>2, <2>3
<1>6. a.odd => b.odd
  BY <1>4 DEF odd2
<1> QED BY <1>4, <1>5, <1>6

LEMMA CheckIs ==
  ASSUME NEW b, AppShape(b), NEW a, a = ApplicationCheck(b)
  PROVE  /\ AppShape(a) /\ a.odd = b.odd /\ a.was = (b.was /\ \A i \in Finished(b) : Used(b, i))
         /\ Held(b.v, b.handle) =>
              /\ Held(a.v, a.handle)
              /\ \A i \in Variables :
                   /\ a.handle[i] # NoHandle => a.handle[i] = b.handle[i] /\ StateOf(a, i) = StateOf(b, i) /\ StateOf(a, i) \in Running
                   /\ b.handle[i] # NoHandle /\ StateOf(b, i) \in Running => a.handle[i] # NoHandle
<1> DEFINE F == Finished(b)
           closing == {b.handle[i] : i \in F}
           v2 == BusVarTransactionClose(b.v, closing)
           handle2 == [i \in Variables |-> IF i \in F THEN NoHandle ELSE b.handle[i]]
           mem2 == [i \in Variables |-> IF i \in F THEN 0 ELSE b.mem[i]]
           was2 == b.was /\ \A i \in F : Used(b, i)
<1>1. a = [b EXCEPT !.v = v2, !.handle = handle2, !.mem = mem2, !.was = was2]
  BY DEF ApplicationCheck
<1>2. handle2 = [i \in Variables |-> handle2[i]] /\ mem2 = [i \in Variables |-> mem2[i]] /\ was2 \in BOOLEAN
  BY DEF AppShape
<1>3. F \in SUBSET Variables /\ \A i \in Variables : i \in F <=> b.handle[i] # NoHandle /\ StateOf(b, i) \in Final
  BY DEF Finished, StateOf
<1> HIDE DEF F, v2, mem2, was2
<1>4. a = [v |-> v2, msg |-> b.msg, handle |-> handle2, mem |-> mem2, was |-> was2, odd |-> b.odd]
  <2> HIDE DEF handle2
  <2> QED BY <1>1 DEF AppShape
<1>5. AppShape(a) /\ a.odd = b.odd /\ a.was = was2 /\ a.v = v2 /\ a.handle = handle2
  <2> HIDE DEF handle2
  <2> QED BY <1>2, <1>4 DEF AppShape
<1>6. ASSUME Held(b.v, b.handle)
      PROVE  /\ Held(a.v, a.handle)
             /\ \A i \in Variables :
                  /\ a.handle[i] # NoHandle => a.handle[i] = b.handle[i] /\ StateOf(a, i) = StateOf(b, i) /\ StateOf(a, i) \in Running
                  /\ b.handle[i] # NoHandle /\ StateOf(b, i) \in Running => a.handle[i] # NoHandle
  <2>1. /\ Held(v2, handle2)
        /\ \A i \in Variables \ F : b.handle[i] # NoHandle => v2.fifo[b.handle[i]] = b.v.fifo[b.handle[i]]
    <3>1. \A i \in F : b.handle[i] # NoHandle
      BY <1>3
    <3>2. v2 = BusVarTransactionClose(b.v, Handles(b.handle, F)) /\ handle2 = Without(b.handle, F)
      BY DEF v2, Handles, Without
    <3> HIDE DEF handle2, closing
    <3> QED BY <1>3, <1>6, <3>1, <3>2, CloseIs
  <2>2. ASSUME NEW i \in Variables, b.handle[i] # NoHandle PROVE StateOf(b, i) \in Running \union Final
    <3>1. b.handle[i] \in Queued(b.v) /\ Queued(b.v) \subseteq Place /\ b.v \in AnyQueue
      BY <1>6, <2>2, QueuedIs, AnyBounded DEF Held
    <3>2. b.v.fifo[b.handle[i]] \in AnyTransaction
      BY <3>1 DEF AnyQueue
    <3> QED BY <3>2 DEF AnyTransaction, StateOf
  <2>3. ASSUME NEW i \in Variables
        PROVE  /\ a.handle[i] # NoHandle => a.handle[i] = b.handle[i] /\ StateOf(a, i) = StateOf(b, i) /\ StateOf(a, i) \in Running
               /\ b.handle[i] # NoHandle /\ StateOf(b, i) \in Running => a.handle[i] # NoHandle
    <3>1. a.handle[i] = IF i \in F THEN NoHandle ELSE b.handle[i]
      BY <1>5
    <3>2. CASE i \in F
      BY <3>1, <3>2, <1>3 DEF Running, Final
    <3>3. CASE i \notin F /\ b.handle[i] # NoHandle
      <4>1. StateOf(a, i) = StateOf(b, i)
        BY <3>1, <3>3, <2>1, <1>5 DEF StateOf
      <4> QED BY <3>1, <3>3, <4>1, <1>3, <2>2
    <3>4. CASE i \notin F /\ b.handle[i] = NoHandle
      BY <3>1, <3>4
    <3> QED BY <3>2, <3>3, <3>4
  <2> QED BY <2>1, <2>3, <1>5
<1> QED BY <1>5, <1>6 DEF was2, F

(* What a pass of BusVarProcess leaves of a, and whether it sent.              *)
LEMMA ServedIs ==
  ASSUME NEW a, AppShape(a), NEW buffers, buffers = [x \in DOMAIN out |-> buffers[x]], App \in DOMAIN out,
         NEW refused \in BOOLEAN, NEW elapsed, NEW hurries \in BOOLEAN, Served(buffers, a, refused, elapsed, hurries)
  PROVE  /\ AppShape(app') /\ app'.was = a.was /\ (a.odd => app'.odd)
         /\ ~app'.odd /\ Held(a.v, a.handle) /\ (\A i \in Variables : a.handle[i] # NoHandle => StateOf(a, i) \in Running) =>
              /\ Resting(app') /\ app'.handle = a.handle /\ ~hurries
              /\ \A i \in Variables : a.handle[i] # NoHandle /\ StateOf(a, i) = "Waiting" /\ a.handle[i] \notin elapsed =>
                   StateOf(app', i) = "Waiting"
              /\ \/ out' = buffers
                 \/ \E i \in Variables : \E m :
                      /\ buffers[App] = <<>> /\ out' = [buffers EXCEPT ![App] = <<m>>] /\ m.from = App /\ m.index = i
                      /\ a.handle[i] # NoHandle /\ StateOf(a, i) # "Waiting" /\ StateOf(app', i) = "Waiting"
<1> DEFINE data == [h \in Place |-> a.mem[a.v.fifo[h].idx]]
           free == Free(buffers[App], refused)
<1>1. PICK p : /\ p = BusVarProcess(a.v, a.msg, free, elapsed, data)
               /\ app' = [a EXCEPT !.v = p.v, !.msg = Remembered(p), !.odd = @ \/ hurries \/ Crossed(a.v, p)]
               /\ out' = [buffers EXCEPT ![App] = @ \o [k \in DOMAIN p.sent |-> FromApp(p.sent[k])]]
  BY DEF Served
<1> DEFINE odd2 == a.odd \/ hurries \/ Crossed(a.v, p)
<1>2. odd2 \in BOOLEAN /\ (a.odd => odd2) /\ (hurries => odd2) /\ (Crossed(a.v, p) => odd2)
  OBVIOUS
<1>3. free \in BOOLEAN /\ (free # FALSE => buffers[App] = <<>>)
  BY DEF Free
<1> HIDE DEF odd2, data, free
<1>4. app' = [v |-> p.v, msg |-> Remembered(p), handle |-> a.handle, mem |-> a.mem, was |-> a.was, odd |-> odd2]
  BY <1>1 DEF AppShape, odd2
<1>5. AppShape(app') /\ app'.was = a.was /\ app'.odd = odd2 /\ app'.v = p.v /\ app'.handle = a.handle
  BY <1>2, <1>4 DEF AppShape
<1>6. ASSUME ~app'.odd, Held(a.v, a.handle), \A i \in Variables : a.handle[i] # NoHandle => StateOf(a, i) \in Running
      PROVE  /\ Resting(app') /\ app'.handle = a.handle /\ ~hurries
             /\ \A i \in Variables : a.handle[i] # NoHandle /\ StateOf(a, i) = "Waiting" /\ a.handle[i] \notin elapsed =>
                  StateOf(app', i) = "Waiting"
             /\ \/ out' = buffers
                \/ \E i \in Variables : \E m :
                     /\ buffers[App] = <<>> /\ out' = [buffers EXCEPT ![App] = <<m>>] /\ m.from = App /\ m.index = i
                     /\ a.handle[i] # NoHandle /\ StateOf(a, i) # "Waiting" /\ StateOf(app', i) = "Waiting"
  <2>1. Processed(a.v, a.handle, elapsed, p) /\ (free = FALSE => p.sent = <<>>)
    <3>1. a.v \in AnyQueue
      BY <1>6 DEF Held
    <3>2. ASSUME free = FALSE PROVE SentNothing(p)
      BY <1>1, <3>1, <3>2, NothingSent
    <3>3. Processed(a.v, a.handle, elapsed, p)
      BY <1>1, <1>3, <1>6, ProcessedIs
    <3> QED BY <3>2, <3>3 DEF SentNothing
  <2>2. ~hurries /\ ~Crossed(a.v, p)
    BY <1>2, <1>5, <1>6
  <2>3. ASSUME NEW i \in Variables, a.handle[i] # NoHandle
        PROVE  /\ a.handle[i] \in Queued(a.v) /\ StateOf(a, i) \in Running
               /\ Outcome(StateOf(a, i), StateOf(app', i), a.handle[i] \in elapsed)
    <3>1. a.handle[i] \in Queued(a.v)
      BY <1>6, <2>3 DEF Held
    <3> QED BY <3>1, <2>1, <2>3, <1>5, <1>6 DEF StateOf, Processed
  <2>4. Resting(app')
    <3>1. ASSUME NEW i \in Variables, a.handle[i] # NoHandle PROVE StateOf(app', i) \in {"Waiting", "TxRetry", "Timeout", "TxError"}
      BY <3>1, <2>3 DEF Outcome, Running
    <3> QED BY <3>1, <2>1, <1>5 DEF Resting, Processed
  <2>5. \A i \in Variables : a.handle[i] # NoHandle /\ StateOf(a, i) = "Waiting" /\ a.handle[i] \notin elapsed =>
          StateOf(app', i) = "Waiting"
    BY <2>3 DEF Outcome, Running
  <2>6. CASE p.sent = <<>>
    <3>1. [k \in DOMAIN p.sent |-> FromApp(p.sent[k])] = <<>>
      BY <2>6
    <3>2. out' = [buffers EXCEPT ![App] = @ \o <<>>]
      BY <3>1, <1>1
    <3> QED BY <3>2, <2>2, <2>4, <2>5, <1>5
  <2>7. CASE p.sent # <<>>
    <3> DEFINE m == FromApp(p.sent[1])
    <3>1. PICK s \in Queued(a.v) : Turned(a.v, p.v, s) /\ p.sent[1].index = a.v.fifo[s].idx
      BY <2>1, <2>2, <2>7 DEF Processed
    <3> DEFINE i == a.v.fifo[s].idx
    <3>2. a.v.fifo[s].state # "Invalid" /\ i \in Variables /\ a.handle[i] = s
      <4>1. i \in Variables /\ (a.v.fifo[s].state # "Invalid" => a.handle[i] = s)
        BY <1>6 DEF Held
      <4>2. a.v.fifo[s].state # "Invalid"
        BY <2>1, <3>1 DEF Outcome, Running, Turned, Processed
      <4> QED BY <4>1, <4>2
    <3>3. s # NoHandle
      <4>1. s \in Place
        BY <1>6, QueuedIs, AnyBounded DEF Held
      <4> QED BY <4>1, SizeIs
    <3>4. StateOf(a, i) # "Waiting" /\ StateOf(app', i) = "Waiting"
      BY <3>1, <3>2, <1>5 DEF Turned, StateOf
    <3>5. m.from = App /\ m.index = i
      BY <3>1 DEF FromApp, Telegram
    <3>6. [k \in DOMAIN p.sent |-> FromApp(p.sent[k])] = <<m>>
      BY <2>1, <2>7 DEF Processed
    <3>7. buffers[App] = <<>> /\ out' = [buffers EXCEPT ![App] = <<m>>]
      <4>1. buffers[App] = <<>>
        BY <1>3, <2>1, <2>7
      <4>2. <<>> \o <<m>> = <<m>>
        OBVIOUS
      <4> QED BY <4>1, <4>2, <3>6, <1>1
    <3>8. \E j \in Variables : \E n :
            /\ buffers[App] = <<>> /\ out' = [buffers EXCEPT ![App] = <<n>>] /\ n.from = App /\ n.index = j
            /\ a.handle[j] # NoHandle /\ StateOf(a, j) # "Waiting" /\ StateOf(app', j) = "Waiting"
      <4> HIDE DEF m, i
      <4> QED BY <3>2, <3>3, <3>4, <3>5, <3>7
    <3> QED BY <2>2, <2>4, <2>5, <3>8, <1>5
  <2> QED BY <2>6, <2>7
<1> QED BY <1>2, <1>5, <1>6

-----------------------------------------------------------------------------
(* The wire.                                                                   *)
List(s) == s = [k \in 1 .. Len(s) |-> s[k]] /\ Len(s) \in Nat
Sent(s, x) == List(s) /\ \A k \in 1 .. Len(s) : s[k].from = x
Single(s, x) == s = <<>> \/ (s = <<s[1]>> /\ s[1].from = x)

Nodes == {Tool, App, Gateway, Switch, Device}
Others == {Tool, Gateway, Switch}

(* Who sends, and that App and Device have at most one telegram to send.       *)
Wired(o, addr) ==
  /\ o = [x \in Nodes |-> o[x]]
  /\ \A x \in Others : Sent(o[x], x)
  /\ Single(o[App], App) /\ Single(o[Device], addr)

(* The question about variable i, and its answer.                              *)
About(t, i) == t.type = "GetVar" /\ t.index = i
AnswerTo(t, i) == About(t, i) /\ t.from = DeviceAddress /\ t.to = App
Asked(o, i) == o[App] # <<>> /\ About(o[App][1], i)
Replied(o, i) == o[Device] # <<>> /\ AnswerTo(o[Device][1], i)
Kept(d, i) == d.retry # None /\ AnswerTo(d.retry, i)
Talk(o, d, i) == Asked(o, i) \/ Replied(o, i) \/ Kept(d, i)

(* Of a question and its answer at most one is on its way, and then the        *)
(* transaction waits; the answer says what the variable was since it began.    *)
Conversation(o, d, a, s) ==
  \A i \in Variables :
    /\ Talk(o, d, i) => a.handle[i] # NoHandle /\ StateOf(a, i) = "Waiting"
    /\ ~(Asked(o, i) /\ Replied(o, i)) /\ ~(Asked(o, i) /\ Kept(d, i)) /\ ~(Replied(o, i) /\ Kept(d, i))
    /\ Replied(o, i) => o[Device][1].data \in s[i]
    /\ Kept(d, i) => d.retry.data \in s[i]

DeviceShape(d) ==
  d = [addr |-> d.addr, eeprom |-> d.eeprom, var |-> d.var, sw8 |-> d.sw8, on |-> d.on, calib |-> d.calib, retry |-> d.retry]
RetryFrom(d) == d.retry # None => d.retry.from = d.addr
GatewayShape(g) == g = [left |-> g.left, queue |-> g.queue, was |-> g.was, unanswered |-> g.unanswered]
Asking(q) == List(q) /\ \A k \in 1 .. Len(q) : q[k] = [ask |-> q[k].ask, sent |-> q[k].sent] /\ q[k].ask.from = Gateway
SinceShape(s) == s = [tool |-> s.tool, gateway |-> s.gateway, var |-> s.var] /\ s.var = [i \in Variables |-> s.var[i]]

Sound(o, d, g, s, a) ==
  /\ Wired(o, d.addr) /\ DeviceShape(d) /\ RetryFrom(d)
  /\ GatewayShape(g) /\ Asking(g.queue) /\ SinceShape(s)
  /\ Conversation(o, d, a, s.var)

ServInv ==
  /\ AppShape(app) /\ app.was
  /\ ~app.odd => Resting(app) /\ Sound(out, device, gateway, since, app)

-----------------------------------------------------------------------------
(* Lists.                                                                      *)
LEMMA ListIs == ASSUME NEW s, List(s) PROVE s \in Seq({s[k] : k \in 1 .. Len(s)}) /\ DOMAIN s = 1 .. Len(s)
<1>1. Len(s) \in Nat /\ s = [k \in 1 .. Len(s) |-> s[k]]
  BY DEF List
<1> DEFINE n == Len(s)
           S == {s[k] : k \in 1 .. n}
<1>2. \A k \in 1 .. n : s[k] \in S
  OBVIOUS
<1> HIDE DEF S, n
<1>3. s = [k \in 1 .. n |-> s[k]] /\ n \in Nat
  BY <1>1 DEF n
<1>4. s \in Seq(S)
  BY <1>2, <1>3
<1> QED BY <1>3, <1>4 DEF S, n

LEMMA ListOf == ASSUME NEW S, NEW s \in Seq(S) PROVE List(s)
  BY DEF List

LEMMA ListRest ==
  ASSUME NEW s, List(s), s # <<>>
  PROVE  /\ List(Tail(s)) /\ Head(s) = s[1] /\ Len(s) \in Nat /\ Len(s) >= 1 /\ Len(Tail(s)) = Len(s) - 1
         /\ \A k \in 1 .. Len(Tail(s)) : Tail(s)[k] = s[k + 1] /\ k + 1 \in 1 .. Len(s)
<1> DEFINE S == {s[k] : k \in 1 .. Len(s)}
<1>1. s \in Seq(S)
  BY ListIs
<1> HIDE DEF S
<1>2. Tail(s) \in Seq(S) /\ Head(s) = s[1] /\ Len(s) \in Nat /\ Len(s) >= 1 /\ Len(Tail(s)) = Len(s) - 1
  BY <1>1
<1>3. \A k \in 1 .. Len(Tail(s)) : Tail(s)[k] = s[k + 1] /\ k + 1 \in 1 .. Len(s)
  BY <1>1, <1>2
<1> QED BY <1>2, <1>3, ListOf

LEMMA ListJoin ==
  ASSUME NEW s, List(s), NEW e
  PROVE  /\ List(Append(s, e)) /\ Len(s) \in Nat /\ Len(Append(s, e)) = Len(s) + 1
         /\ \A k \in 1 .. Len(s) + 1 : Append(s, e)[k] = IF k = Len(s) + 1 THEN e ELSE s[k]
         /\ s \o <<e>> = Append(s, e) /\ s \o <<>> = s
<1> DEFINE S == {s[k] : k \in 1 .. Len(s)}
           T == S \union {e}
<1>1. s \in Seq(S)
  BY ListIs
<1>2. s \in Seq(T)
  <2>1. \A k \in 1 .. Len(s) : s[k] \in T
    OBVIOUS
  <2> HIDE DEF T
  <2> QED BY <2>1 DEF List
<1>3. e \in T
  OBVIOUS
<1> HIDE DEF S, T
<1>4. Append(s, e) \in Seq(T) /\ Len(s) \in Nat /\ Len(Append(s, e)) = Len(s) + 1
  BY <1>2, <1>3
<1>5. \A k \in 1 .. Len(s) + 1 : Append(s, e)[k] = IF k = Len(s) + 1 THEN e ELSE s[k]
  BY <1>2, <1>3
<1>6. s \o <<>> = s
  BY <1>2
<1>7. s \o <<e>> = Append(s, e)
  BY <1>2, <1>3
<1> QED BY <1>4, <1>5, <1>6, <1>7, ListOf

LEMMA SentRest == ASSUME NEW s, NEW x, Sent(s, x), s # <<>> PROVE Sent(Tail(s), x) /\ Head(s).from = x
<1>1. /\ List(Tail(s)) /\ Head(s) = s[1] /\ Len(s) \in Nat /\ Len(s) >= 1 /\ Len(Tail(s)) = Len(s) - 1
      /\ \A k \in 1 .. Len(Tail(s)) : Tail(s)[k] = s[k + 1] /\ k + 1 \in 1 .. Len(s)
  BY ListRest DEF Sent
<1> QED BY <1>1 DEF Sent

LEMMA SentMore == ASSUME NEW s, NEW x, Sent(s, x), NEW e, e.from = x PROVE Sent(Append(s, e), x)
<1>1. /\ List(Append(s, e)) /\ Len(s) \in Nat /\ Len(Append(s, e)) = Len(s) + 1
      /\ \A k \in 1 .. Len(s) + 1 : Append(s, e)[k] = IF k = Len(s) + 1 THEN e ELSE s[k]
  BY ListJoin DEF Sent
<1>2. \A k \in 1 .. Len(s) + 1 : k = Len(s) + 1 \/ k \in 1 .. Len(s)
  BY <1>1
<1> QED BY <1>1, <1>2 DEF Sent

LEMMA SentNone == ASSUME NEW x PROVE Sent(<<>>, x)
  BY DEF Sent, List

LEMMA NodesAre ==
  /\ App \notin Others /\ Device \notin Others /\ App # Device /\ App # DeviceAddress /\ DeviceAddress \notin Others
  /\ Nodes = Others \union {App, Device}
  BY ServiceAssumption DEF Others, Nodes

(* What is left when the first telegram of x was heard or lost.                *)
LEMMA RestIs ==
  ASSUME NEW addr, Wired(out, addr), NEW x \in DOMAIN out, out[x] # <<>>
  PROVE  /\ x \in Nodes /\ DOMAIN out = Nodes /\ Wired(Rest(x), addr) /\ Rest(x) = [out EXCEPT ![x] = Tail(@)]
         /\ \A y \in Nodes \ {x} : Rest(x)[y] = out[y]
         /\ x \in Others => Head(out[x]).from = x
         /\ x \in {App, Device} => Rest(x)[x] = <<>> /\ Head(out[x]) = out[x][1] /\ Head(out[x]).from = IF x = App THEN App ELSE addr
<1>1. DOMAIN out = Nodes /\ x \in Nodes /\ out = [y \in Nodes |-> out[y]]
  BY DEF Wired
<1>2. Rest(x) = [out EXCEPT ![x] = Tail(out[x])]
  BY DEF Rest
<1>3. Rest(x) = [y \in Nodes |-> IF y = x THEN Tail(out[x]) ELSE out[y]]
  BY <1>1, <1>2
<1>4. Rest(x)[x] = Tail(out[x]) /\ \A y \in Nodes \ {x} : Rest(x)[y] = out[y]
  BY <1>1, <1>3
<1>5. CASE x \in Others
  <2>1. Sent(Tail(out[x]), x) /\ Head(out[x]).from = x
    BY <1>5, SentRest DEF Wired
  <2>2. \A y \in Others : Sent(Rest(x)[y], y)
    BY <1>4, <2>1, NodesAre DEF Wired
  <2>3. Rest(x)[App] = out[App] /\ Rest(x)[Device] = out[Device] /\ x \notin {App, Device}
    BY <1>4, <1>5, NodesAre
  <2>4. Wired(Rest(x), addr)
    BY <1>3, <2>2, <2>3 DEF Wired
  <2> QED BY <1>1, <1>2, <1>4, <2>1, <2>3, <2>4
<1>6. CASE x \in {App, Device}
  <2>1. out[x] = <<out[x][1]>> /\ out[x][1].from = IF x = App THEN App ELSE addr
    BY <1>6 DEF Wired, Single
  <2>2. Tail(out[x]) = <<>> /\ Head(out[x]) = out[x][1]
    <3> DEFINE m == out[x][1]
    <3>1. out[x] = <<m>>
      BY <2>1
    <3> HIDE DEF m
    <3>2. Tail(out[x]) = <<>> /\ Head(out[x]) = m
      BY <3>1
    <3> QED BY <3>2 DEF m
  <2>3. x \notin Others
    BY <1>6, NodesAre
  <2>4. \A y \in Others : Sent(Rest(x)[y], y)
    BY <1>4, <2>3, NodesAre DEF Wired
  <2>5. Single(Rest(x)[App], App) /\ Single(Rest(x)[Device], addr)
    BY <1>4, <1>6, <2>2, NodesAre DEF Wired, Single
  <2>6. Wired(Rest(x), addr)
    BY <1>3, <2>4, <2>5 DEF Wired
  <2> QED BY <1>1, <1>2, <1>4, <2>1, <2>2, <2>3, <2>6
<1> QED BY <1>1, <1>5, <1>6, NodesAre

(* Nobody but App asks in its name, and nobody but the DO31 answers for it.     *)
LEMMA ConversationShrinks ==
  ASSUME NEW o, NEW d, NEW a, NEW s, Conversation(o, d, a, s), NEW o2, NEW d2, NEW s2,
         \A i \in Variables :
           /\ Asked(o2, i) => Asked(o, i)
           /\ Replied(o2, i) => Replied(o, i) /\ o2[Device] = o[Device]
           /\ Kept(d2, i) => Kept(d, i) /\ d2.retry = d.retry
           /\ a.handle[i] # NoHandle => s[i] \subseteq s2[i]
  PROVE  Conversation(o2, d2, a, s2)
<1> SUFFICES ASSUME NEW i \in Variables
             PROVE  /\ Talk(o2, d2, i) => a.handle[i] # NoHandle /\ StateOf(a, i) = "Waiting"
                    /\ ~(Asked(o2, i) /\ Replied(o2, i)) /\ ~(Asked(o2, i) /\ Kept(d2, i)) /\ ~(Replied(o2, i) /\ Kept(d2, i))
                    /\ Replied(o2, i) => o2[Device][1].data \in s2[i]
                    /\ Kept(d2, i) => d2.retry.data \in s2[i]
  BY DEF Conversation
<1> QED BY DEF Conversation, Talk

(* Telegrams of which none is about a variable.                                *)
LEMMA RestQuiet ==
  ASSUME NEW o, NEW o2, o2[App] = o[App] \/ o2[App] = <<>>, o2[Device] = o[Device] \/ o2[Device] = <<>>
  PROVE  \A i \in Variables : (Asked(o2, i) => Asked(o, i)) /\ (Replied(o2, i) => Replied(o, i) /\ o2[Device] = o[Device])
  BY DEF Asked, Replied

-----------------------------------------------------------------------------
(* The DO31.                                                                   *)
LEMMA HandledIs ==
  ASSUME NEW d, DeviceShape(d), NEW t
  PROVE  /\ DeviceShape(Handled(d, t)) /\ Handled(d, t).addr = d.addr /\ Handled(d, t).retry = d.retry
         /\ t.type = "GetVar" => Handled(d, t) = d
<1> DEFINE e == Handled(d, t)
<1>1. CASE t.type = "SetVar"
  <2> DEFINE var2 == BusVarWrite(d.var, t.index, t.data)
             eeprom2 == WithNv(d.eeprom, WriteNv(Nv(d.eeprom), t.index, t.data))
  <2>1. e = [d EXCEPT !.var = var2, !.eeprom = eeprom2]
    BY <1>1 DEF Handled
  <2> HIDE DEF var2, eeprom2
  <2>2. e = [addr |-> d.addr, eeprom |-> eeprom2, var |-> var2, sw8 |-> d.sw8, on |-> d.on, calib |-> d.calib, retry |-> d.retry]
    BY <2>1 DEF DeviceShape
  <2> QED BY <1>1, <2>2 DEF DeviceShape
<1>2. ASSUME NEW eeprom2, e = [d EXCEPT !.eeprom = eeprom2], t.type # "GetVar" PROVE DeviceShape(e) /\ e.addr = d.addr /\ e.retry = d.retry
  <2>1. e = [addr |-> d.addr, eeprom |-> eeprom2, var |-> d.var, sw8 |-> d.sw8, on |-> d.on, calib |-> d.calib, retry |-> d.retry]
    BY <1>2 DEF DeviceShape
  <2> QED BY <2>1 DEF DeviceShape
<1>3. ASSUME NEW calib2, e = [d EXCEPT !.calib = calib2] PROVE DeviceShape(e) /\ e.addr = d.addr /\ e.retry = d.retry
  <2>1. e = [addr |-> d.addr, eeprom |-> d.eeprom, var |-> d.var, sw8 |-> d.sw8, on |-> d.on, calib |-> calib2, retry |-> d.retry]
    BY <1>3 DEF DeviceShape
  <2> QED BY <2>1 DEF DeviceShape
<1>4. CASE t.type \in {"EepromWrite", "SetAddr", "SetClientAddr"}
  <2>1. \E c : e = [d EXCEPT !.eeprom = [d.eeprom EXCEPT ![c] = t.data]]
    <3>1. t.type = "EepromWrite" => e = [d EXCEPT !.eeprom = [d.eeprom EXCEPT ![t.index] = t.data]]
      BY DEF Handled
    <3>2. t.type = "SetAddr" => e = [d EXCEPT !.eeprom = [d.eeprom EXCEPT ![MODUL_ADDRESS] = t.data]]
      BY DEF Handled
    <3>3. t.type = "SetClientAddr" => e = [d EXCEPT !.eeprom = [d.eeprom EXCEPT ![CLIENT_ADDRESS_BASE] = t.data]]
      BY DEF Handled
    <3> HIDE DEF e
    <3> QED BY <3>1, <3>2, <3>3, <1>4
  <2> QED BY <2>1, <1>2, <1>4
<1>5. CASE t.type = "SetValue"
  <2>1. e = [d EXCEPT !.on = t.data]
    BY <1>5 DEF Handled
  <2>2. e = [addr |-> d.addr, eeprom |-> d.eeprom, var |-> d.var, sw8 |-> d.sw8, on |-> t.data, calib |-> d.calib, retry |-> d.retry]
    BY <2>1 DEF DeviceShape
  <2> QED BY <1>5, <2>2 DEF DeviceShape
<1>6. CASE t.type = "SwitchState"
  <2>1. e = [d EXCEPT !.sw8 = t.data]
    BY <1>6 DEF Handled
  <2>2. e = [addr |-> d.addr, eeprom |-> d.eeprom, var |-> d.var, sw8 |-> t.data, on |-> d.on, calib |-> d.calib, retry |-> d.retry]
    BY <2>1 DEF DeviceShape
  <2> QED BY <1>6, <2>2 DEF DeviceShape
<1>7. CASE t.type = "ClockCalib"
  <2>1. e = [d EXCEPT !.calib = Calibrated(d.calib, t.word, t.index)]
    BY <1>7 DEF Handled
  <2> QED BY <1>3, <1>7, <2>1
<1>8. CASE t.type = "RespDoClockCalib"
  <2>1. e = [d EXCEPT !.calib = [d.calib EXCEPT !.state = t.word]]
    BY <1>8 DEF Handled
  <2> QED BY <1>3, <1>8, <2>1
<1>9. CASE t.type \notin {"SetVar", "EepromWrite", "SetAddr", "SetClientAddr", "SetValue", "SwitchState", "ClockCalib", "RespDoClockCalib"}
  <2>1. e = d
    BY <1>9 DEF Handled
  <2> QED BY <2>1
<1> QED BY <1>1, <1>4, <1>5, <1>6, <1>7, <1>8, <1>9

LEMMA ReplyIs ==
  ASSUME NEW d, NEW t, Reply(d, t) # None
  PROVE  /\ Reply(d, t).from = d.addr
         /\ \A i \in Variables : AnswerTo(Reply(d, t), i) =>
              t.type = "GetVar" /\ t.index = i /\ t.from = App /\ d.addr = DeviceAddress /\ Reply(d, t).data = d.var[i]
<1>1. Reply(d, t) = [type |-> t.type, from |-> d.addr, to |-> t.from, data |-> Content(d, t), word |-> Result(d, t),
                     index |-> IF t.type \in {"GetVar", "SetVar"} THEN t.index ELSE 0]
  BY DEF Reply
<1>2. ASSUME NEW i \in Variables, AnswerTo(Reply(d, t), i)
      PROVE  t.type = "GetVar" /\ t.index = i /\ t.from = App /\ d.addr = DeviceAddress /\ Reply(d, t).data = d.var[i]
  <2>1. t.type = "GetVar" /\ t.index = i /\ t.from = App /\ d.addr = DeviceAddress
    BY <1>1, <1>2 DEF AnswerTo, About
  <2>2. i \in Int /\ ~(i >= BUSVAR_NUMVAR - 1)
    BY BusVarAssumption
  <2>3. Content(d, t) = BusVarRead(d.var, i).data
    BY <2>1 DEF Content
  <2>4. BusVarRead(d.var, i) = [result |-> "Success", data |-> d.var[i]]
    BY <2>2 DEF BusVarRead
  <2> QED BY <1>1, <2>1, <2>3, <2>4
<1> QED BY <1>1, <1>2

(* A pass of its main loop: the response to t is sent or kept, unless one is kept. *)
LEMMA DevicePasses ==
  ASSUME ~app.odd, NEW buffers, Wired(buffers, device.addr), DeviceShape(device), RetryFrom(device), App # Device,
         Conversation(buffers, device, app, since.var),
         NEW t, t = None \/ \A i \in Variables : t.type = "GetVar" /\ t.index = i /\ t.from = App /\ device.addr = DeviceAddress =>
                              app.handle[i] # NoHandle /\ StateOf(app, i) = "Waiting" /\ ~Talk(buffers, device, i),
         NEW refused \in BOOLEAN, Pass(buffers, t, refused)
  PROVE  Wired(out', device'.addr) /\ DeviceShape(device') /\ RetryFrom(device') /\ SinceShape(since')
         /\ Conversation(out', device', app, since'.var)
<1> DEFINE d == IF device.retry = None THEN Handled(device, t) ELSE device
           reply == IF device.retry = None THEN Reply(device, t) ELSE device.retry
           sent == IF reply # None /\ Free(buffers[Device], refused) THEN <<reply>> ELSE <<>>
           asks == Due(d) /\ Free(buffers[Device] \o sent, refused)
           retry2 == IF sent = <<>> THEN reply ELSE None
           calib2 == [d.calib EXCEPT !.state = IF asks THEN "WaitForResponse" ELSE @]
           more == IF asks THEN <<DoClockCalib(d)>> ELSE <<>>
<1>1. /\ device' = [d EXCEPT !.retry = retry2, !.calib = calib2]
      /\ out' = [buffers EXCEPT ![Device] = @ \o sent \o more]
      /\ Noted(device')
  BY DEF Pass
<1>2. DeviceShape(d) /\ d.addr = device.addr /\ d.retry = device.retry
  BY HandledIs
<1>3. t.type = "GetVar" => d.var = device.var
  BY HandledIs
<1>4. reply # None => reply.from = device.addr
  BY ReplyIs DEF RetryFrom
<1>5. ASSUME NEW i \in Variables, reply # None, AnswerTo(reply, i)
      PROVE  /\ app.handle[i] # NoHandle /\ StateOf(app, i) = "Waiting" /\ ~Asked(buffers, i) /\ ~Replied(buffers, i)
             /\ reply.data \in since.var[i] \union {d.var[i]}
  <2>1. CASE device.retry # None
    <3>1. reply = device.retry /\ Kept(device, i)
      BY <1>5, <2>1 DEF Kept
    <3> QED BY <3>1 DEF Conversation, Talk
  <2>2. CASE device.retry = None
    <3>1. reply = Reply(device, t)
      BY <2>2
    <3>2. t.type = "GetVar" /\ t.index = i /\ t.from = App /\ device.addr = DeviceAddress /\ reply.data = device.var[i]
      <4> HIDE DEF reply
      <4> QED BY <1>5, <3>1, ReplyIs
    <3>3. t # None
      BY <3>2 DEF None
    <3>4. app.handle[i] # NoHandle /\ StateOf(app, i) = "Waiting" /\ ~Talk(buffers, device, i)
      BY <3>2, <3>3
    <3>5. d.var = device.var
      <4> HIDE DEF d
      <4> QED BY <3>2, <1>3
    <3> HIDE DEF d, reply
    <3> QED BY <3>2, <3>4, <3>5 DEF Talk
  <2> QED BY <2>1, <2>2
<1>6. Free(buffers[Device], refused) => buffers[Device] = <<>>
  BY DEF Free
<1>7. asks => buffers[Device] \o sent = <<>>
  BY DEF Free
<1>8. DoClockCalib(d).from = device.addr /\ DoClockCalib(d).type # "GetVar"
  <2> HIDE DEF d
  <2> QED BY <1>2 DEF DoClockCalib, Spoken, Telegram
<1> DEFINE ask == DoClockCalib(d)
<1>9. more = <<>> \/ (asks /\ more = <<ask>>)
  OBVIOUS
<1>10. sent = <<>> \/ (reply # None /\ buffers[Device] = <<>> /\ sent = <<reply>>)
  BY <1>6
<1>11. DOMAIN buffers = Nodes /\ Device \in Nodes /\ buffers = [x \in Nodes |-> buffers[x]] /\ Single(buffers[Device], device.addr)
  BY DEF Wired, Nodes
<1> HIDE DEF d, reply, sent, asks, retry2, calib2, more, ask
<1>12. device' = [addr |-> device.addr, eeprom |-> d.eeprom, var |-> d.var, sw8 |-> d.sw8, on |-> d.on, calib |-> calib2, retry |-> retry2]
  BY <1>1, <1>2 DEF DeviceShape
<1>13. DeviceShape(device') /\ device'.addr = device.addr /\ device'.retry = retry2 /\ device'.var = d.var
  BY <1>12 DEF DeviceShape
<1>14. out' = [x \in Nodes |-> IF x = Device THEN buffers[Device] \o sent \o more ELSE buffers[x]]
  BY <1>1, <1>11
<1>15. since'.var = SinceOpen(device') /\ SinceShape(since')
  BY <1>1 DEF Noted, SinceOpen, SinceShape
<1>16. ASSUME NEW i \in Variables, app.handle[i] # NoHandle PROVE since'.var[i] = since.var[i] \union {d.var[i]}
  BY <1>13, <1>15, <1>16 DEF SinceOpen
<1>17. out'[App] = buffers[App] /\ \A x \in Others : out'[x] = buffers[x]
  BY <1>14, NodesAre
<1>18. \A i \in Variables : Asked(out', i) <=> Asked(buffers, i)
  BY <1>17 DEF Asked
<1>19. CASE reply # None /\ buffers[Device] = <<>> /\ sent = <<reply>>
  <2>1. buffers[Device] \o sent = <<reply>> /\ <<reply>> # <<>>
    BY <1>19
  <2>2. more = <<>>
    BY <1>7, <1>9, <2>1
  <2>3. out'[Device] = <<reply>>
    BY <1>14, <1>11, <2>1, <2>2
  <2>4. retry2 = None
    BY <1>19 DEF retry2
  <2>5. Wired(out', device'.addr) /\ RetryFrom(device')
    <3>1. Single(out'[Device], device.addr)
      BY <1>4, <1>19, <2>3 DEF Single
    <3>2. out' = [x \in Nodes |-> out'[x]]
      BY <1>14
    <3> QED BY <1>13, <1>17, <2>4, <3>1, <3>2 DEF Wired, RetryFrom
  <2>6. ASSUME NEW i \in Variables
        PROVE  /\ Talk(out', device', i) => app.handle[i] # NoHandle /\ StateOf(app, i) = "Waiting"
               /\ ~(Asked(out', i) /\ Replied(out', i)) /\ ~(Asked(out', i) /\ Kept(device', i)) /\ ~(Replied(out', i) /\ Kept(device', i))
               /\ Replied(out', i) => out'[Device][1].data \in since'.var[i]
               /\ Kept(device', i) => device'.retry.data \in since'.var[i]
    <3>1. ~Kept(device', i)
      BY <1>13, <2>4 DEF Kept
    <3>2. Replied(out', i) <=> AnswerTo(reply, i)
      BY <2>3 DEF Replied
    <3>3. Asked(buffers, i) => app.handle[i] # NoHandle /\ StateOf(app, i) = "Waiting"
      BY DEF Conversation, Talk
    <3>4. out'[Device][1] = reply
      BY <2>3
    <3> QED BY <1>5, <1>16, <1>18, <1>19, <3>1, <3>2, <3>3, <3>4 DEF Talk
  <2>7. Conversation(out', device', app, since'.var)
    BY <2>6 DEF Conversation
  <2> QED BY <1>13, <1>15, <2>5, <2>7
<1>20. CASE sent = <<>>
  <2>1. retry2 = reply
    BY <1>20 DEF retry2
  <2>2. buffers[Device] \o sent = buffers[Device]
    <3>1. List(buffers[Device])
      <4>1. CASE buffers[Device] = <<>>
        BY <4>1 DEF List
      <4>2. CASE buffers[Device] = <<buffers[Device][1]>>
        <5> DEFINE m == buffers[Device][1]
        <5>1. buffers[Device] = <<m>>
          BY <4>2
        <5> HIDE DEF m
        <5> QED BY <5>1 DEF List
      <4> QED BY <4>1, <4>2, <1>11 DEF Single
    <3> QED BY <3>1, <1>20, ListJoin
  <2>3. \/ out'[Device] = buffers[Device]
        \/ out'[Device] = <<ask>> /\ buffers[Device] = <<>>
    <3>1. CASE more = <<>>
      <4>1. out'[Device] = buffers[Device] \o sent \o <<>>
        BY <3>1, <1>11, <1>14
      <4>2. sent \o <<>> = <<>>
        BY <1>20
      <4>3. buffers[Device] \o sent \o <<>> = buffers[Device]
        BY <1>20, <2>2
      <4> QED BY <4>1, <4>3
    <3>2. CASE asks /\ more = <<ask>>
      <4>1. buffers[Device] = <<>>
        BY <1>7, <2>2, <3>2
      <4> QED BY <1>11, <1>14, <1>20, <3>2, <4>1
    <3> QED BY <1>9, <3>1, <3>2
  <2>4. Wired(out', device'.addr) /\ RetryFrom(device')
    <3>1. Single(out'[Device], device.addr)
      BY <1>8, <1>11, <2>3 DEF Single, ask
    <3>2. out' = [x \in Nodes |-> out'[x]]
      BY <1>14
    <3> QED BY <1>4, <1>13, <1>17, <2>1, <3>1, <3>2 DEF Wired, RetryFrom
  <2>5. ASSUME NEW i \in Variables
        PROVE  /\ Talk(out', device', i) => app.handle[i] # NoHandle /\ StateOf(app, i) = "Waiting"
               /\ ~(Asked(out', i) /\ Replied(out', i)) /\ ~(Asked(out', i) /\ Kept(device', i)) /\ ~(Replied(out', i) /\ Kept(device', i))
               /\ Replied(out', i) => out'[Device][1].data \in since'.var[i]
               /\ Kept(device', i) => device'.retry.data \in since'.var[i]
    <3>1. Kept(device', i) <=> reply # None /\ AnswerTo(reply, i)
      BY <1>13, <2>1 DEF Kept
    <3>2. Replied(out', i) => Replied(buffers, i) /\ out'[Device] = buffers[Device]
      <4>1. out'[Device] = <<ask>> => ~Replied(out', i)
        BY <1>8 DEF Replied, AnswerTo, About, ask
      <4>2. out'[Device] = buffers[Device] => (Replied(out', i) <=> Replied(buffers, i))
        BY DEF Replied
      <4> QED BY <4>1, <4>2, <2>3
    <3>3. /\ Talk(buffers, device, i) => app.handle[i] # NoHandle /\ StateOf(app, i) = "Waiting"
          /\ ~(Asked(buffers, i) /\ Replied(buffers, i))
          /\ Replied(buffers, i) => buffers[Device][1].data \in since.var[i]
      BY DEF Conversation
    <3>4. device'.retry = reply
      BY <1>13, <2>1
    <3> QED BY <1>5, <1>16, <1>18, <3>1, <3>2, <3>3, <3>4 DEF Talk
  <2>6. Conversation(out', device', app, since'.var)
    BY <2>5 DEF Conversation
  <2> QED BY <1>13, <1>15, <2>4, <2>6
<1> QED BY <1>10, <1>19, <1>20

-----------------------------------------------------------------------------
(* The application of the other DO31 after a pass.                             *)
LEMMA PassSound ==
  ASSUME NEW a, AppShape(a), ~app.odd, NEW buffers, Wired(buffers, device.addr), Conversation(buffers, device, app, since.var),
         NEW refused \in BOOLEAN, NEW elapsed, NEW hurries \in BOOLEAN, Served(buffers, a, refused, elapsed, hurries),
         DOMAIN out = Nodes, ~app'.odd, Held(a.v, a.handle),
         \A i \in Variables : a.handle[i] # NoHandle => StateOf(a, i) \in Running,
         ~hurries => \A i \in Variables : Talk(buffers, device, i) =>
           a.handle[i] # NoHandle /\ StateOf(a, i) = "Waiting" /\ a.handle[i] \notin elapsed,
         \A i \in Variables : a.handle[i] # NoHandle /\ app'.handle[i] # NoHandle /\ Talk(buffers, device, i) => since'.var[i] = since.var[i]
  PROVE  Resting(app') /\ Wired(out', device.addr) /\ Conversation(out', device, app', since'.var)
<1>1. App \in DOMAIN out /\ buffers = [x \in DOMAIN out |-> buffers[x]]
  BY DEF Nodes, Wired
<1>2. /\ Resting(app') /\ app'.handle = a.handle /\ ~hurries
      /\ \A i \in Variables : a.handle[i] # NoHandle /\ StateOf(a, i) = "Waiting" /\ a.handle[i] \notin elapsed =>
           StateOf(app', i) = "Waiting"
      /\ \/ out' = buffers
         \/ \E i \in Variables : \E m :
              /\ buffers[App] = <<>> /\ out' = [buffers EXCEPT ![App] = <<m>>] /\ m.from = App /\ m.index = i
              /\ a.handle[i] # NoHandle /\ StateOf(a, i) # "Waiting" /\ StateOf(app', i) = "Waiting"
  BY <1>1, ServedIs
<1>3. ASSUME NEW i \in Variables, Talk(buffers, device, i)
      PROVE  app'.handle[i] # NoHandle /\ StateOf(app', i) = "Waiting" /\ StateOf(a, i) = "Waiting" /\ since'.var[i] = since.var[i]
  BY <1>2, <1>3
<1>4. CASE out' = buffers
  <2>1. \A i \in Variables :
          /\ Talk(out', device, i) => app'.handle[i] # NoHandle /\ StateOf(app', i) = "Waiting"
          /\ ~(Asked(out', i) /\ Replied(out', i)) /\ ~(Asked(out', i) /\ Kept(device, i)) /\ ~(Replied(out', i) /\ Kept(device, i))
          /\ Replied(out', i) => out'[Device][1].data \in since'.var[i]
          /\ Kept(device, i) => device.retry.data \in since'.var[i]
    BY <1>3, <1>4 DEF Conversation, Talk
  <2>2. Conversation(out', device, app', since'.var)
    BY <2>1 DEF Conversation
  <2> QED BY <1>2, <1>4, <2>2
<1>5. ASSUME NEW j \in Variables, NEW m, buffers[App] = <<>>, out' = [buffers EXCEPT ![App] = <<m>>], m.from = App, m.index = j,
             a.handle[j] # NoHandle, StateOf(a, j) # "Waiting", StateOf(app', j) = "Waiting"
      PROVE  Wired(out', device.addr) /\ Conversation(out', device, app', since'.var)
  <2>1. out' = [x \in Nodes |-> IF x = App THEN <<m>> ELSE buffers[x]] /\ App \in Nodes
    BY <1>5 DEF Wired, Nodes
  <2>2. out'[App] = <<m>> /\ out'[Device] = buffers[Device] /\ \A x \in Others : out'[x] = buffers[x]
    BY <2>1, NodesAre
  <2>3. Wired(out', device.addr)
    <3>1. Single(out'[App], App)
      BY <1>5, <2>2 DEF Single
    <3>2. out' = [x \in Nodes |-> out'[x]]
      BY <2>1
    <3> QED BY <2>2, <3>1, <3>2 DEF Wired
  <2>4. ~Talk(buffers, device, j)
    BY <1>3, <1>5
  <2>5. ASSUME NEW i \in Variables
        PROVE  /\ Talk(out', device, i) => app'.handle[i] # NoHandle /\ StateOf(app', i) = "Waiting"
               /\ ~(Asked(out', i) /\ Replied(out', i)) /\ ~(Asked(out', i) /\ Kept(device, i)) /\ ~(Replied(out', i) /\ Kept(device, i))
               /\ Replied(out', i) => out'[Device][1].data \in since'.var[i]
               /\ Kept(device, i) => device.retry.data \in since'.var[i]
    <3>1. Asked(out', i) => i = j
      BY <1>5, <2>2 DEF Asked, About
    <3>2. Replied(out', i) <=> Replied(buffers, i)
      BY <2>2 DEF Replied
    <3>3. i = j => ~Replied(buffers, i) /\ ~Kept(device, i) /\ app'.handle[i] # NoHandle /\ StateOf(app', i) = "Waiting"
      BY <1>2, <1>5, <2>4 DEF Talk
    <3>4. i # j => ~Asked(out', i)
      BY <3>1
    <3>5. Replied(buffers, i) \/ Kept(device, i) =>
            app'.handle[i] # NoHandle /\ StateOf(app', i) = "Waiting" /\ since'.var[i] = since.var[i]
      BY <1>3 DEF Talk
    <3>6. /\ ~(Replied(buffers, i) /\ Kept(device, i))
          /\ Replied(buffers, i) => buffers[Device][1].data \in since.var[i]
          /\ Kept(device, i) => device.retry.data \in since.var[i]
      BY DEF Conversation
    <3> QED BY <2>2, <3>1, <3>2, <3>3, <3>4, <3>5, <3>6 DEF Talk
  <2>6. Conversation(out', device, app', since'.var)
    BY <2>5 DEF Conversation
  <2> QED BY <2>3, <2>6
<1> QED BY <1>2, <1>4, <1>5

LEMMA TalkIsUnderWay ==
  ASSUME Wired(out, device.addr), NEW i \in Variables, Talk(out, device, i)
  PROVE  UnderWay(App)
<1>1. DOMAIN out = Nodes /\ App \in Nodes /\ Device \in Nodes
  BY DEF Wired, Nodes
<1>2. CASE Asked(out, i)
  <2>1. out[App] = <<out[App][1]>> /\ out[App][1].from = App
    BY <1>2 DEF Asked, Wired, Single
  <2>2. 1 \in DOMAIN out[App]
    <3> DEFINE m == out[App][1]
    <3>1. out[App] = <<m>>
      BY <2>1
    <3> HIDE DEF m
    <3> QED BY <3>1
  <2> QED BY <1>1, <2>1, <2>2 DEF UnderWay
<1>3. CASE Replied(out, i)
  <2>1. out[Device] = <<out[Device][1]>> /\ out[Device][1].to = App
    BY <1>3 DEF Replied, AnswerTo, Wired, Single
  <2>2. 1 \in DOMAIN out[Device]
    <3> DEFINE m == out[Device][1]
    <3>1. out[Device] = <<m>>
      BY <2>1
    <3> HIDE DEF m
    <3> QED BY <3>1
  <2> QED BY <1>1, <2>1, <2>2 DEF UnderWay
<1>4. CASE Kept(device, i)
  BY <1>4 DEF Kept, AnswerTo, UnderWay
<1> QED BY <1>2, <1>3, <1>4 DEF Talk

-----------------------------------------------------------------------------
(* The steps that leave the other DO31 alone.                                  *)
LEMMA KeepsApp ==
  ASSUME ServInv, app' = app, app.odd \/ Sound(out', device', gateway', since', app)
  PROVE  ServInv'
<1>1. AppShape(app') /\ app'.was
  BY DEF ServInv
<1>2. ASSUME ~app'.odd PROVE Resting(app') /\ Sound(out', device', gateway', since', app')
  BY <1>2 DEF ServInv
<1> QED BY <1>1, <1>2 DEF ServInv

LEMMA IsSound ==
  ASSUME ServInv, ~app.odd
  PROVE  /\ Resting(app) /\ Wired(out, device.addr) /\ DeviceShape(device) /\ RetryFrom(device) /\ GatewayShape(gateway)
         /\ Asking(gateway.queue) /\ SinceShape(since) /\ Conversation(out, device, app, since.var)
  BY DEF ServInv, Sound

Added(o, x, e) == [o EXCEPT ![x] = Append(o[x], e)]

LEMMA WiredMore ==
  ASSUME NEW o, NEW addr, Wired(o, addr), NEW x, x \in Others, NEW e, e.from = x
  PROVE  Wired(Added(o, x, e), addr) /\ Added(o, x, e)[App] = o[App] /\ Added(o, x, e)[Device] = o[Device]
<1> DEFINE o2 == Added(o, x, e)
<1>0. o2 = [o EXCEPT ![x] = Append(o[x], e)]
  BY DEF Added
<1> HIDE DEF o2
<1>1. o2 = [y \in Nodes |-> IF y = x THEN Append(o[x], e) ELSE o[y]] /\ x \in Nodes
  BY <1>0, NodesAre DEF Wired
<1>2. Sent(Append(o[x], e), x)
  BY SentMore DEF Wired
<1>3. \A y \in Others : Sent(o2[y], y)
  BY <1>1, <1>2, NodesAre DEF Wired
<1>4. o2[App] = o[App] /\ o2[Device] = o[Device]
  BY <1>1, NodesAre
<1>5. Wired(o2, addr)
  BY <1>1, <1>3, <1>4 DEF Wired
<1> QED BY <1>4, <1>5 DEF o2

LEMMA SinceIs ==
  ASSUME NEW s, SinceShape(s), NEW e
  PROVE  /\ SinceShape([s EXCEPT !.tool = e]) /\ [s EXCEPT !.tool = e].var = s.var
         /\ SinceShape([s EXCEPT !.gateway = e]) /\ [s EXCEPT !.gateway = e].var = s.var
<1>1. [s EXCEPT !.tool = e] = [tool |-> e, gateway |-> s.gateway, var |-> s.var]
  BY DEF SinceShape
<1>2. [s EXCEPT !.gateway = e] = [tool |-> s.tool, gateway |-> e, var |-> s.var]
  BY DEF SinceShape
<1> QED BY <1>1, <1>2 DEF SinceShape

(* Nothing is said of a variable.                                              *)
QuietOut(o) == ~app.odd => Wired(o, device.addr) /\ o[App] \in {out[App], <<>>} /\ o[Device] \in {out[Device], <<>>}
QuietGateway(g) == ~app.odd => GatewayShape(g) /\ Asking(g.queue)
QuietSince(s) == s = since \/ \E e : s = [since EXCEPT !.tool = e] \/ s = [since EXCEPT !.gateway = e]

LEMMA QuietStep ==
  ASSUME ServInv, app' = app, device' = device, QuietGateway(gateway'), QuietSince(since'), QuietOut(out')
  PROVE  ServInv'
<1>1. SUFFICES ASSUME ~app.odd PROVE Sound(out', device', gateway', since', app)
  BY KeepsApp DEF ServInv, AppShape
<1>2. /\ Wired(out, device.addr) /\ DeviceShape(device) /\ RetryFrom(device) /\ GatewayShape(gateway)
      /\ SinceShape(since) /\ Conversation(out, device, app, since.var)
  BY <1>1, IsSound
<1>3. SinceShape(since') /\ since'.var = since.var
  <2>1. CASE since' = since
    BY <1>2, <2>1
  <2>2. ASSUME NEW e, since' = [since EXCEPT !.tool = e] PROVE SinceShape(since') /\ since'.var = since.var
    BY <1>2, <2>2, SinceIs
  <2>3. ASSUME NEW e, since' = [since EXCEPT !.gateway = e] PROVE SinceShape(since') /\ since'.var = since.var
    BY <1>2, <2>3, SinceIs
  <2> QED BY <2>1, <2>2, <2>3 DEF QuietSince
<1>4. \A i \in Variables : (Asked(out', i) => Asked(out, i)) /\ (Replied(out', i) => Replied(out, i) /\ out'[Device] = out[Device])
  <2> DEFINE o2 == out'
  <2>1. o2[App] = out[App] \/ o2[App] = <<>>
    BY <1>1 DEF QuietOut
  <2>2. o2[Device] = out[Device] \/ o2[Device] = <<>>
    BY <1>1 DEF QuietOut
  <2> HIDE DEF o2
  <2>3. \A i \in Variables : (Asked(o2, i) => Asked(out, i)) /\ (Replied(o2, i) => Replied(out, i) /\ o2[Device] = out[Device])
    BY <2>1, <2>2, RestQuiet
  <2> QED BY <2>3 DEF o2
<1>5. Conversation(out', device', app, since'.var)
  <2>1. \A i \in Variables : Kept(device', i) => Kept(device, i) /\ device'.retry = device.retry
    OBVIOUS
  <2>2. \A i \in Variables : app.handle[i] # NoHandle => since.var[i] \subseteq since'.var[i]
    BY <1>3
  <2> DEFINE o2 == out'
             d2 == device'
             s2 == since'.var
  <2> HIDE DEF o2, d2, s2
  <2>3. \A i \in Variables :
           /\ Asked(o2, i) => Asked(out, i)
           /\ Replied(o2, i) => Replied(out, i) /\ o2[Device] = out[Device]
           /\ Kept(d2, i) => Kept(device, i) /\ d2.retry = device.retry
           /\ app.handle[i] # NoHandle => since.var[i] \subseteq s2[i]
    BY <1>4, <2>1, <2>2 DEF o2, d2, s2
  <2>4. Conversation(o2, d2, app, s2)
    BY <1>2, <2>3, ConversationShrinks
  <2> QED BY <2>4 DEF o2, d2, s2
<1> QED BY <1>1, <1>2, <1>3, <1>5 DEF Sound, QuietOut, QuietGateway

LEMMA RestKeeps ==
  ASSUME ServInv, ~app.odd, NEW x \in DOMAIN out, out[x] # <<>>
  PROVE  QuietOut(Rest(x))
<1>1. Wired(out, device.addr)
  BY IsSound
<1>2. /\ x \in Nodes /\ Wired(Rest(x), device.addr) /\ \A y \in Nodes \ {x} : Rest(x)[y] = out[y]
      /\ x \in {App, Device} => Rest(x)[x] = <<>>
  BY <1>1, RestIs
<1> QED BY <1>2, NodesAre DEF QuietOut

LEMMA GatewayKeeps == ASSUME ServInv, gateway' = gateway PROVE QuietGateway(gateway')
  BY IsSound DEF QuietGateway

LEMMA OutKeeps == ASSUME ServInv, out' = out PROVE QuietOut(out')
  BY IsSound DEF QuietOut

LEMMA NobodyHearsKeeps ==
  ASSUME ServInv, NEW x \in DOMAIN out, NobodyHears(x) \/ ToolHears(x) \/ Lose(x)
  PROVE  ServInv'
<1>1. out[x] # <<>> /\ out' = Rest(x) /\ app' = app /\ device' = device /\ gateway' = gateway /\ since' = since
  BY DEF NobodyHears, ToolHears, Lose, Rest
<1>2. QuietOut(out')
  BY <1>1, RestKeeps DEF QuietOut
<1> QED BY <1>1, <1>2, GatewayKeeps, QuietStep DEF QuietSince

LEMMA CalibrateKeeps ==
  ASSUME ServInv, NEW x \in DOMAIN out, Calibrate(x)
  PROVE  ServInv'
<1> DEFINE t == Head(out[x])
           n == Measured(t)
           state == IF n > MAX_CAL_TEL THEN "Error" ELSE IF n < MAX_CAL_TEL THEN "Continue" ELSE "Success"
           e == Spoken("RespDoClockCalib", Switch, t.from, 0, state)
           o == Rest(x)
           noted == [since.tool EXCEPT !.saved = @ \/ state = "Success"]
<1>1. /\ out[x] # <<>> /\ out' = Added(o, Switch, e) /\ since' = [since EXCEPT !.tool = noted]
      /\ app' = app /\ device' = device /\ gateway' = gateway
  BY DEF Calibrate, Added
<1>2. e.from = Switch /\ Switch \in Others
  BY DEF Spoken, Telegram, Others
<1>3. QuietOut(o)
  BY <1>1, RestKeeps DEF QuietOut
<1>4. QuietSince(since')
  BY <1>1 DEF QuietSince
<1> HIDE DEF t, n, state, e, o, noted
<1>5. QuietOut(out')
  BY <1>1, <1>2, <1>3, WiredMore DEF QuietOut
<1> QED BY <1>1, <1>4, <1>5, GatewayKeeps, QuietStep

(* The tool and the gateway ask in their own names.                            *)
LEMMA AskFrom == ASSUME NEW tl PROVE Ask(tl).from = Tool
  BY DEF Ask, Telegram, Spoken

LEMMA SendsKeeps == ASSUME ServInv, NEW tl, Sends(tl) PROVE QuietOut(out')
<1> SUFFICES ASSUME ~app.odd PROVE QuietOut(out')
  BY DEF QuietOut
<1> DEFINE e == Ask(tl)
<1>1. out' = [out EXCEPT ![Tool] = IF tl.step = "Done" THEN out[Tool] ELSE Append(out[Tool], e)]
  BY DEF Sends
<1>2. e.from = Tool /\ Tool \in Others /\ Wired(out, device.addr)
  BY AskFrom, IsSound DEF Others
<1> HIDE DEF e
<1>3. CASE tl.step = "Done"
  <2>1. out' = out
    BY <1>1, <1>2, <1>3 DEF Wired
  <2> QED BY <2>1, OutKeeps
<1>4. CASE tl.step # "Done"
  <2>1. out' = Added(out, Tool, e)
    BY <1>1, <1>4 DEF Added
  <2> QED BY <1>2, <2>1, WiredMore DEF QuietOut
<1> QED BY <1>3, <1>4

LEMMA ToolKeeps ==
  ASSUME ServInv, Command \/ ToolReceive \/ ToolTimeout
  PROVE  ServInv'
<1>1. app' = app /\ device' = device /\ gateway' = gateway /\ QuietSince(since')
  BY DEF Command, ToolReceive, ToolTimeout, QuietSince
<1>2. out' = out \/ \E tl : Sends(tl)
  BY DEF Command, ToolReceive, ToolTimeout
<1>3. QuietOut(out')
  BY <1>2, SendsKeeps, OutKeeps
<1> QED BY <1>1, <1>3, GatewayKeeps, QuietStep

LEMMA SetKeeps ==
  ASSUME ServInv, Set
  PROVE  ServInv'
<1> DEFINE c == Head(gateway.left)
           ask == Telegram(c.op, Gateway, DeviceAddress, c.at, c.data)
           e == [ask |-> ask, sent |-> FALSE]
<1>1. /\ gateway' = [gateway EXCEPT !.left = Tail(@), !.queue = Append(gateway.queue, e)]
      /\ QuietSince(since') /\ app' = app /\ device' = device /\ out' = out
  BY DEF Set, LL_APPEND, QuietSince
<1>2. ask.from = Gateway
  BY DEF Telegram
<1>3. e.ask = ask /\ e = [ask |-> e.ask, sent |-> e.sent]
  OBVIOUS
<1> HIDE DEF c, ask, e
<1>4. ASSUME ~app.odd PROVE GatewayShape(gateway') /\ Asking(gateway'.queue)
  <2>1. Asking(gateway.queue) /\ GatewayShape(gateway)
    BY <1>4, IsSound
  <2>2. gateway' = [left |-> Tail(gateway.left), queue |-> Append(gateway.queue, e), was |-> gateway.was,
                    unanswered |-> gateway.unanswered]
    BY <1>1, <2>1 DEF GatewayShape
  <2>3. /\ List(Append(gateway.queue, e)) /\ Len(gateway.queue) \in Nat /\ Len(Append(gateway.queue, e)) = Len(gateway.queue) + 1
        /\ \A k \in 1 .. Len(gateway.queue) + 1 :
             Append(gateway.queue, e)[k] = IF k = Len(gateway.queue) + 1 THEN e ELSE gateway.queue[k]
    BY <2>1, ListJoin DEF Asking
  <2> DEFINE q == gateway.queue
             q2 == Append(gateway.queue, e)
  <2>4. Asking(q2)
    <3>1. ASSUME NEW k \in 1 .. Len(q2) PROVE q2[k] = [ask |-> q2[k].ask, sent |-> q2[k].sent] /\ q2[k].ask.from = Gateway
      <4>1. CASE k = Len(q) + 1
        BY <4>1, <2>3, <1>2, <1>3
      <4>2. CASE k # Len(q) + 1
        <5>1. k \in 1 .. Len(q) /\ q2[k] = q[k]
          BY <4>2, <2>3
        <5> QED BY <5>1, <2>1 DEF Asking
      <4> QED BY <4>1, <4>2
    <3> QED BY <3>1, <2>3 DEF Asking
  <2> HIDE DEF q2
  <2> QED BY <2>2, <2>4 DEF GatewayShape, q2
<1> QED BY <1>1, <1>4, OutKeeps, QuietStep DEF QuietGateway

LEMMA ServedQueueIs ==
  ASSUME NEW q, Asking(q), NEW t, NEW expired, expired => q # <<>>, NEW s, s = serve_bus(q, t, expired)
  PROVE  Asking(s.queue) /\ (s.sent = <<>> \/ \E e : s.sent = <<e>> /\ e.from = Gateway)
<1> DEFINE due == q # <<>> /\ ~q[1].sent
           sent == IF due THEN [q EXCEPT ![1].sent = TRUE] ELSE q
           left == IF expired THEN Tail(sent) ELSE sent
           answered == left # <<>> /\ Compare(left[1].ask, t)
           m == q[1].ask
<1>1. /\ s.queue = IF answered THEN Tail(left) ELSE left
      /\ s.sent = IF due THEN <<m>> ELSE <<>>
  BY DEF serve_bus
<1>2. ASSUME NEW r, Asking(r), r # <<>> PROVE Asking(Tail(r))
  <2>1. /\ List(Tail(r)) /\ Len(r) \in Nat /\ Len(Tail(r)) = Len(r) - 1
        /\ \A k \in 1 .. Len(Tail(r)) : Tail(r)[k] = r[k + 1] /\ k + 1 \in 1 .. Len(r)
    BY <1>2, ListRest DEF Asking
  <2> QED BY <2>1, <1>2 DEF Asking
<1>3. ASSUME q # <<>> PROVE Len(q) \in Nat /\ 1 \in 1 .. Len(q) /\ DOMAIN q = 1 .. Len(q) /\ m.from = Gateway
  <2>1. Len(q) \in Nat /\ Len(q) >= 1 /\ DOMAIN q = 1 .. Len(q)
    BY <1>3, ListRest, ListIs DEF Asking
  <2> QED BY <2>1 DEF Asking
<1>4. Asking(sent) /\ (q # <<>> => sent # <<>>)
  <2>1. CASE due
    <3> DEFINE e == [ask |-> q[1].ask, sent |-> TRUE]
    <3>1. q[1] = [ask |-> q[1].ask, sent |-> q[1].sent]
      BY <1>3, <2>1 DEF Asking
    <3>2. sent = [q EXCEPT ![1] = [q[1] EXCEPT !.sent = TRUE]]
      BY <2>1
    <3>3. [q[1] EXCEPT !.sent = TRUE] = e
      <4>1. \A r, b : r = [ask |-> r.ask, sent |-> r.sent] => [r EXCEPT !.sent = b] = [ask |-> r.ask, sent |-> b]
        OBVIOUS
      <4> QED BY <3>1, <4>1
    <3>4. sent = [k \in 1 .. Len(q) |-> IF k = 1 THEN e ELSE q[k]]
      <4> HIDE DEF e, sent
      <4> QED BY <1>3, <2>1, <3>2, <3>3
    <3>5. e.ask = m /\ e = [ask |-> e.ask, sent |-> e.sent]
      OBVIOUS
    <3> HIDE DEF e, sent, m
    <3>6. ASSUME NEW k \in 1 .. Len(q) PROVE sent[k] = [ask |-> sent[k].ask, sent |-> sent[k].sent] /\ sent[k].ask.from = Gateway
      <4>1. CASE k = 1
        BY <4>1, <2>1, <3>4, <3>5, <1>3
      <4>2. CASE k # 1
        <5>1. sent[k] = q[k]
          BY <4>2, <3>4
        <5> QED BY <5>1 DEF Asking
      <4> QED BY <4>1, <4>2
    <3>7. List(sent) /\ Len(sent) = Len(q)
      <4> DEFINE S == {sent[k] : k \in 1 .. Len(q)}
      <4>1. \A k \in 1 .. Len(q) : sent[k] \in S
        OBVIOUS
      <4> HIDE DEF S
      <4>2. sent \in Seq(S) /\ Len(sent) = Len(q)
        <5>1. sent = [k \in 1 .. Len(q) |-> sent[k]] /\ Len(q) \in Nat
          BY <3>4, <1>3, <2>1
        <5> QED BY <5>1, <4>1
      <4> QED BY <4>2, ListOf
    <3>8. sent # <<>>
      BY <3>7, <1>3, <2>1
    <3> QED BY <3>6, <3>7, <3>8 DEF Asking
  <2>2. CASE ~due
    BY <2>2
  <2> QED BY <2>1, <2>2
<1>5. due => q # <<>>
  OBVIOUS
<1> HIDE DEF due, sent, m
<1>6. Asking(left)
  BY <1>2, <1>4
<1>7. answered => left # <<>>
  OBVIOUS
<1> HIDE DEF left, answered
<1>8. Asking(s.queue)
  BY <1>1, <1>2, <1>6, <1>7
<1> QED BY <1>1, <1>3, <1>5, <1>8

LEMMA GatewayPassKeeps ==
  ASSUME ServInv, NEW buffers, QuietOut(buffers), NEW t, NEW expired, GatewayPass(buffers, t, expired)
  PROVE  ServInv'
<1> DEFINE s == serve_bus(gateway.queue, t, expired)
           unanswered == gateway.unanswered \union Late(expired)
           was == gateway.was /\ \A r \in s.answered : Mistaken(r, unanswered) \/ Obeyed(r)
<1>1. /\ gateway' = [gateway EXCEPT !.queue = s.queue, !.unanswered = unanswered, !.was = was]
      /\ out' = [buffers EXCEPT ![Gateway] = buffers[Gateway] \o s.sent]
      /\ QuietSince(since') /\ app' = app /\ device' = device /\ (expired => gateway.queue # <<>>)
  BY DEF GatewayPass, QuietSince
<1>2. ASSUME ~app.odd PROVE Asking(s.queue) /\ (s.sent = <<>> \/ \E e : s.sent = <<e>> /\ e.from = Gateway)
  BY <1>1, <1>2, IsSound, ServedQueueIs
<1> HIDE DEF s, unanswered, was
<1>3. ASSUME ~app.odd PROVE GatewayShape(gateway') /\ Asking(gateway'.queue)
  <2>1. gateway' = [left |-> gateway.left, queue |-> s.queue, was |-> was, unanswered |-> unanswered]
    BY <1>1, <1>3, IsSound DEF GatewayShape
  <2> QED BY <2>1, <1>2, <1>3 DEF GatewayShape
<1>4. ASSUME ~app.odd PROVE QuietOut(out')
  <2>1. Wired(buffers, device.addr) /\ Gateway \in Others
    BY <1>4 DEF Others, QuietOut
  <2>2. List(buffers[Gateway])
    BY <2>1 DEF Wired, Sent
  <2>3. CASE s.sent = <<>>
    <3>1. buffers[Gateway] \o s.sent = buffers[Gateway]
      BY <2>2, <2>3, ListJoin
    <3>2. out' = buffers
      BY <1>1, <2>1, <3>1 DEF Wired
    <3> QED BY <3>2 DEF QuietOut
  <2>4. ASSUME NEW e, s.sent = <<e>>, e.from = Gateway PROVE QuietOut(out')
    <3>1. buffers[Gateway] \o <<e>> = Append(buffers[Gateway], e)
      BY <2>2, ListJoin
    <3>2. out' = Added(buffers, Gateway, e)
      BY <1>1, <2>4, <3>1 DEF Added
    <3> QED BY <2>1, <2>4, <3>2, WiredMore DEF QuietOut
  <2> QED BY <2>3, <2>4, <1>2, <1>4
<1> QED BY <1>1, <1>3, <1>4, QuietStep DEF QuietGateway, QuietOut

LEMMA GatewayHearsKeeps ==
  ASSUME ServInv, (\E x \in DOMAIN out : GatewayHears(x)) \/ GatewayIdle
  PROVE  ServInv'
<1>1. ASSUME NEW x \in DOMAIN out, GatewayHears(x) PROVE ServInv'
  <2>1. PICK expired \in BOOLEAN : GatewayPass(Rest(x), Head(out[x]), expired)
    BY <1>1 DEF GatewayHears
  <2>2. QuietOut(Rest(x))
    BY <1>1, RestKeeps DEF GatewayHears, QuietOut
  <2> QED BY <2>1, <2>2, GatewayPassKeeps
<1>2. ASSUME GatewayIdle PROVE ServInv'
  <2> DEFINE expired == gateway.queue[1].sent
  <2>1. GatewayPass(out, None, expired)
    BY <1>2 DEF GatewayIdle
  <2> HIDE DEF expired
  <2>2. QuietOut(out)
    BY IsSound DEF QuietOut
  <2> QED BY <2>1, <2>2, GatewayPassKeeps
<1> QED BY <1>1, <1>2

-----------------------------------------------------------------------------
(* The steps of the DO31.                                                      *)
LEMMA RestSpeaks ==
  ASSUME ServInv, ~app.odd, NEW x \in DOMAIN out, out[x] # <<>>
  PROVE  Conversation(Rest(x), device, app, since.var)
<1> DEFINE o == Rest(x)
<1>1. QuietOut(o)
  BY RestKeeps
<1>2. Conversation(out, device, app, since.var)
  BY IsSound
<1> HIDE DEF o
<1>3. (o[App] = out[App] \/ o[App] = <<>>) /\ (o[Device] = out[Device] \/ o[Device] = <<>>)
  BY <1>1 DEF QuietOut
<1>4. \A i \in Variables : (Asked(o, i) => Asked(out, i)) /\ (Replied(o, i) => Replied(out, i) /\ o[Device] = out[Device])
  BY <1>3, RestQuiet
<1> DEFINE s == since.var
<1> HIDE DEF s
<1>5. \A i \in Variables :
        /\ Asked(o, i) => Asked(out, i)
        /\ Replied(o, i) => Replied(out, i) /\ o[Device] = out[Device]
        /\ Kept(device, i) => Kept(device, i) /\ device.retry = device.retry
        /\ app.handle[i] # NoHandle => s[i] \subseteq s[i]
  BY <1>4
<1>6. Conversation(out, device, app, s)
  BY <1>2 DEF s
<1>7. Conversation(o, device, app, s)
  BY <1>5, <1>6, ConversationShrinks
<1> QED BY <1>7 DEF o, s

(* The question is no longer on its way when it is answered.                   *)
LEMMA QuestionHeard ==
  ASSUME ServInv, ~app.odd, NEW x \in DOMAIN out, out[x] # <<>>, NEW t, t = Head(out[x]), NEW i \in Variables,
         t.type = "GetVar", t.index = i, t.from = App, device.addr = DeviceAddress
  PROVE  app.handle[i] # NoHandle /\ StateOf(app, i) = "Waiting" /\ ~Talk(Rest(x), device, i)
<1>1. Wired(out, device.addr) /\ Conversation(out, device, app, since.var)
  BY IsSound
<1>2. /\ x \in Nodes /\ \A y \in Nodes \ {x} : Rest(x)[y] = out[y]
      /\ x \in Others => t.from = x
      /\ x \in {App, Device} => Rest(x)[x] = <<>> /\ t = out[x][1] /\ t.from = IF x = App THEN App ELSE device.addr
  BY <1>1, RestIs
<1>3. x = App
  BY <1>2, NodesAre
<1>4. Asked(out, i)
  BY <1>2, <1>3 DEF Asked, About
<1>5. ~Asked(Rest(x), i) /\ (Replied(Rest(x), i) <=> Replied(out, i))
  BY <1>2, <1>3, NodesAre DEF Asked, Replied
<1> QED BY <1>1, <1>4, <1>5 DEF Conversation, Talk

LEMMA DeviceKeeps ==
  ASSUME ServInv, (\E x \in DOMAIN out : DeviceHears(x)) \/ DeviceIdle
  PROVE  ServInv'
<1>1. app' = app /\ gateway' = gateway
  BY DEF DeviceHears, DeviceIdle
<1>2. ASSUME ~app.odd PROVE Sound(out', device', gateway', since', app)
  <2>1. /\ Wired(out, device.addr) /\ DeviceShape(device) /\ RetryFrom(device) /\ GatewayShape(gateway)
        /\ Asking(gateway.queue) /\ Conversation(out, device, app, since.var) /\ App # Device
    BY <1>2, IsSound, NodesAre
  <2>2. ASSUME NEW x \in DOMAIN out, DeviceHears(x)
        PROVE  Wired(out', device'.addr) /\ DeviceShape(device') /\ RetryFrom(device') /\ SinceShape(since')
               /\ Conversation(out', device', app, since'.var)
    <3> DEFINE t == Head(out[x])
               o == Rest(x)
    <3>1. PICK refused \in BOOLEAN : Pass(o, t, refused)
      BY <2>2 DEF DeviceHears
    <3>2. out[x] # <<>>
      BY <2>2 DEF DeviceHears
    <3>3. \A i \in Variables : t.type = "GetVar" /\ t.index = i /\ t.from = App /\ device.addr = DeviceAddress =>
            app.handle[i] # NoHandle /\ StateOf(app, i) = "Waiting" /\ ~Talk(o, device, i)
      BY <1>2, <3>2, QuestionHeard
    <3>4. Conversation(o, device, app, since.var) /\ Wired(o, device.addr)
      BY <1>2, <3>2, RestSpeaks, RestKeeps DEF QuietOut
    <3> HIDE DEF t, o
    <3> QED BY <1>2, <2>1, <3>1, <3>3, <3>4, DevicePasses
  <2>3. ASSUME DeviceIdle
        PROVE  Wired(out', device'.addr) /\ DeviceShape(device') /\ RetryFrom(device') /\ SinceShape(since')
               /\ Conversation(out', device', app, since'.var)
    <3>1. Pass(out, None, FALSE)
      BY <2>3 DEF DeviceIdle
    <3> QED BY <1>2, <2>1, <3>1, DevicePasses
  <2> QED BY <1>1, <2>1, <2>2, <2>3 DEF Sound
<1> QED BY <1>1, <1>2, KeepsApp DEF ServInv, AppShape

LEMMA RestartKeeps ==
  ASSUME ServInv, NEW x \in DOMAIN out, Restart(x)
  PROVE  ServInv'
<1> DEFINE d == Started(device.eeprom)
           e == Telegram("Startup", d.addr, Tool, 0, 0)
           o == Rest(x)
           seen == [Also(since.tool, d) EXCEPT !.restarted = TRUE]
           also == Also(since.gateway, d)
           open == SinceOpen(d)
<1>1. /\ out[x] # <<>> /\ device' = d /\ out' = [o EXCEPT ![Device] = <<e>>]
      /\ since' = [since EXCEPT !.tool = seen, !.gateway = also, !.var = open]
      /\ app' = app /\ gateway' = gateway
  BY DEF Restart
<1>2. DeviceShape(d) /\ d.retry = None
  BY DEF Started, DeviceShape
<1>3. e.from = d.addr /\ e.type = "Startup"
  BY DEF Telegram
<1>4. open = [i \in Variables |-> open[i]] /\ \A i \in Variables : app.handle[i] # NoHandle => since.var[i] \subseteq open[i]
  BY DEF SinceOpen
<1> HIDE DEF d, e, o, seen, also, open
<1>5. ASSUME ~app.odd PROVE Sound(out', device', gateway', since', app)
  <2>1. /\ SinceShape(since) /\ Conversation(out, device, app, since.var) /\ GatewayShape(gateway) /\ Asking(gateway.queue)
    BY <1>5, IsSound
  <2>2. QuietOut(o)
    BY <1>1, <1>5, RestKeeps DEF o
  <2>3. Wired(o, device.addr) /\ o[App] \in {out[App], <<>>}
    BY <1>5, <2>2 DEF QuietOut
  <2>4. out' = [y \in Nodes |-> IF y = Device THEN <<e>> ELSE o[y]] /\ Device \in Nodes
    BY <1>1, <2>3 DEF Wired, Nodes
  <2>5. out'[Device] = <<e>> /\ out'[App] = o[App] /\ \A y \in Others : out'[y] = o[y]
    BY <2>4, NodesAre
  <2>6. Wired(out', device'.addr)
    <3>1. Single(out'[Device], d.addr)
      BY <1>3, <2>5 DEF Single
    <3>2. out' = [y \in Nodes |-> out'[y]]
      BY <2>4
    <3> QED BY <1>1, <2>3, <2>5, <3>1, <3>2 DEF Wired
  <2>7. since' = [tool |-> seen, gateway |-> also, var |-> open]
    BY <1>1, <2>1 DEF SinceShape
  <2>8. SinceShape(since') /\ since'.var = open
    BY <1>4, <2>7 DEF SinceShape
  <2>9. Conversation(out', device', app, since'.var)
    <3>1. \A i \in Variables :
            /\ Asked(out', i) => Asked(out, i)
            /\ ~Replied(out', i)
            /\ ~Kept(d, i)
      <4>1. \A i \in Variables : Asked(out', i) => Asked(out, i)
        BY <2>3, <2>5 DEF Asked
      <4>2. \A i \in Variables : ~Replied(out', i)
        BY <1>3, <2>5 DEF Replied, AnswerTo, About
      <4>3. \A i \in Variables : ~Kept(d, i)
        BY <1>2 DEF Kept
      <4> QED BY <4>1, <4>2, <4>3
    <3> DEFINE o2 == out'
    <3> HIDE DEF o2
    <3>2. \A i \in Variables :
            /\ Asked(o2, i) => Asked(out, i)
            /\ Replied(o2, i) => Replied(out, i) /\ o2[Device] = out[Device]
            /\ Kept(d, i) => Kept(device, i) /\ d.retry = device.retry
            /\ app.handle[i] # NoHandle => since.var[i] \subseteq open[i]
      BY <1>4, <3>1 DEF o2
    <3>3. Conversation(o2, d, app, open)
      BY <2>1, <3>2, ConversationShrinks
    <3> QED BY <3>3, <2>8, <1>1 DEF o2
  <2>10. RetryFrom(device')
    BY <1>1, <1>2 DEF RetryFrom
  <2> QED BY <1>1, <1>2, <2>1, <2>6, <2>8, <2>9, <2>10 DEF Sound
<1> QED BY <1>1, <1>5, KeepsApp DEF ServInv, AppShape

LEMMA CalibTimeoutKeeps ==
  ASSUME ServInv, CalibTimeout
  PROVE  ServInv'
<1> DEFINE calib == [device.calib EXCEPT !.state = "Error"]
<1>1. device' = [device EXCEPT !.calib = calib] /\ app' = app /\ gateway' = gateway /\ out' = out /\ since' = since
  BY DEF CalibTimeout
<1> HIDE DEF calib
<1>2. ASSUME ~app.odd PROVE Sound(out', device', gateway', since', app)
  <2>1. /\ Wired(out, device.addr) /\ DeviceShape(device) /\ RetryFrom(device) /\ GatewayShape(gateway)
        /\ Asking(gateway.queue) /\ SinceShape(since) /\ Conversation(out, device, app, since.var)
    BY <1>2, IsSound
  <2>2. device' = [addr |-> device.addr, eeprom |-> device.eeprom, var |-> device.var, sw8 |-> device.sw8, on |-> device.on,
                   calib |-> calib, retry |-> device.retry]
    BY <1>1, <2>1 DEF DeviceShape
  <2>3. DeviceShape(device') /\ device'.addr = device.addr /\ device'.retry = device.retry
    BY <2>2 DEF DeviceShape
  <2>4. Conversation(out, device', app, since.var)
    <3>1. \A i \in Variables : Kept(device', i) <=> Kept(device, i)
      BY <2>3 DEF Kept
    <3> QED BY <2>1, <2>3, <3>1 DEF Conversation, Talk
  <2> QED BY <1>1, <2>1, <2>3, <2>4 DEF Sound, RetryFrom
<1> QED BY <1>1, <1>2, KeepsApp DEF ServInv, AppShape

-----------------------------------------------------------------------------
(* The steps of the other DO31.                                                *)
LEMMA ServedShape ==
  ASSUME NEW a, AppShape(a), NEW buffers, NEW refused, NEW elapsed, NEW hurries \in BOOLEAN,
         Served(buffers, a, refused, elapsed, hurries)
  PROVE  AppShape(app') /\ app'.was = a.was /\ (a.odd => app'.odd)
<1>1. PICK p : app' = [a EXCEPT !.v = p.v, !.msg = Remembered(p), !.odd = @ \/ hurries \/ Crossed(a.v, p)]
  BY DEF Served
<1> DEFINE odd2 == a.odd \/ hurries \/ Crossed(a.v, p)
<1>2. odd2 \in BOOLEAN /\ (a.odd => odd2)
  OBVIOUS
<1>3. app' = [v |-> p.v, msg |-> Remembered(p), handle |-> a.handle, mem |-> a.mem, was |-> a.was, odd |-> odd2]
  BY <1>1 DEF AppShape
<1> HIDE DEF odd2
<1> QED BY <1>2, <1>3 DEF AppShape

(* b is app before ApplicationCheck: a transaction of which is still talked    *)
(* waits, and the data of one that was answered is what the variable was.      *)
Taken(b, o) ==
  /\ Held(b.v, b.handle)
  /\ \A i \in Variables :
       /\ Talk(o, device, i) => b.handle[i] = app.handle[i] /\ StateOf(b, i) = "Waiting"
       /\ b.handle[i] # NoHandle /\ StateOf(b, i) = "Ready" => b.mem[i] \in since.var[i]

SinceKept(o) ==
  /\ SinceShape(since')
  /\ \A i \in Variables : app'.handle[i] # NoHandle /\ Talk(o, device, i) => since'.var[i] = since.var[i]

LEMMA PassKeeps ==
  ASSUME ServInv, NEW b, AppShape(b), b.was = app.was, app.odd => b.odd, NEW a, a = ApplicationCheck(b),
         NEW o, NEW refused \in BOOLEAN, NEW elapsed, NEW hurries \in BOOLEAN, Served(o, a, refused, elapsed, hurries),
         ~b.odd => Taken(b, o), ~app.odd => SinceKept(o) /\ Wired(o, device.addr) /\ Conversation(o, device, app, since.var),
         ~hurries => \A i \in Variables : Talk(o, device, i) => elapsed \intersect In(a.v, "Waiting") = {},
         device' = device, gateway' = gateway
  PROVE  ServInv'
<1>1. /\ AppShape(a) /\ a.odd = b.odd /\ a.was = (b.was /\ \A i \in Finished(b) : Used(b, i))
      /\ Held(b.v, b.handle) =>
           /\ Held(a.v, a.handle)
           /\ \A i \in Variables :
                /\ a.handle[i] # NoHandle => a.handle[i] = b.handle[i] /\ StateOf(a, i) = StateOf(b, i) /\ StateOf(a, i) \in Running
                /\ b.handle[i] # NoHandle /\ StateOf(b, i) \in Running => a.handle[i] # NoHandle
  BY CheckIs
<1>2. AppShape(app') /\ app'.was = a.was /\ (a.odd => app'.odd)
  BY <1>1, ServedShape
<1>3. ASSUME NEW i \in Finished(b) PROVE Used(b, i)
  <2>1. CASE b.odd
    BY <2>1 DEF Used
  <2>2. CASE ~b.odd
    <3>1. i \in Variables /\ b.handle[i] # NoHandle
      BY DEF Finished
    <3> QED BY <2>2, <3>1 DEF Used, Taken, StateOf
  <2> QED BY <2>1, <2>2
<1>4. app'.was
  BY <1>1, <1>2, <1>3 DEF ServInv
<1>5. ASSUME ~app'.odd PROVE Resting(app') /\ Sound(out', device', gateway', since', app')
  <2>1. ~a.odd /\ ~b.odd /\ ~app.odd
    BY <1>1, <1>2, <1>5
  <2>2. /\ Taken(b, o) /\ SinceKept(o) /\ Wired(o, device.addr) /\ Conversation(o, device, app, since.var)
        /\ Wired(out, device.addr) /\ DeviceShape(device) /\ RetryFrom(device) /\ GatewayShape(gateway) /\ Asking(gateway.queue)
    BY <2>1, IsSound
  <2>3. /\ Held(a.v, a.handle)
        /\ \A i \in Variables :
             /\ a.handle[i] # NoHandle => a.handle[i] = b.handle[i] /\ StateOf(a, i) = StateOf(b, i) /\ StateOf(a, i) \in Running
             /\ b.handle[i] # NoHandle /\ StateOf(b, i) \in Running => a.handle[i] # NoHandle
    BY <1>1, <2>2 DEF Taken
  <2>4. ASSUME ~hurries, NEW i \in Variables, Talk(o, device, i)
        PROVE  a.handle[i] # NoHandle /\ StateOf(a, i) = "Waiting" /\ a.handle[i] \notin elapsed
    <3>1. app.handle[i] # NoHandle
      BY <2>2, <2>4 DEF Conversation
    <3>2. b.handle[i] # NoHandle /\ StateOf(b, i) = "Waiting"
      BY <2>2, <2>4, <3>1 DEF Taken
    <3>3. a.handle[i] # NoHandle /\ StateOf(a, i) = "Waiting"
      BY <2>3, <3>2 DEF Running
    <3>4. a.handle[i] \in In(a.v, "Waiting")
      BY <2>3, <3>3 DEF In, Held, StateOf
    <3> QED BY <2>4, <3>3, <3>4
  <2>5. DOMAIN out = Nodes
    BY <2>2 DEF Wired
  <2>6. \A i \in Variables : a.handle[i] # NoHandle /\ app'.handle[i] # NoHandle /\ Talk(o, device, i) => since'.var[i] = since.var[i]
    BY <2>2 DEF SinceKept
  <2>7. Resting(app') /\ Wired(out', device.addr) /\ Conversation(out', device, app', since'.var)
    BY <1>1, <1>5, <2>1, <2>2, <2>3, <2>4, <2>5, <2>6, PassSound
  <2> QED BY <2>2, <2>7 DEF Sound, SinceKept
<1> QED BY <1>2, <1>4, <1>5 DEF ServInv

(* A pass with what was received, of which the buffers o are left.             *)
LEMMA AppPassKeeps ==
  ASSUME ServInv, NEW b, AppShape(b), b.was = app.was, app.odd => b.odd, NEW o, AppPass(o, b), QuietOut(o),
         ~b.odd => Taken(b, o), ~app.odd => Conversation(o, device, app, since.var),
         since' = [since EXCEPT !.var = [i \in Variables |-> IF app'.handle[i] = NoHandle THEN {} ELSE @[i]]],
         device' = device, gateway' = gateway
  PROVE  ServInv'
<1> DEFINE a == ApplicationCheck(b)
           hurry(elapsed) == elapsed \intersect In(a.v, "Waiting") # {} /\ UnderWay(App)
<1>1. PICK refused \in BOOLEAN, elapsed \in SUBSET (In(a.v, "Waiting") \union In(a.v, "TxRetry")) :
        Served(o, a, refused, elapsed, hurry(elapsed))
  BY DEF AppPass
<1> DEFINE hurries == hurry(elapsed)
<1>2. hurries \in BOOLEAN /\ Served(o, a, refused, elapsed, hurries)
  BY <1>1
<1>3. ASSUME ~hurries, NEW i \in Variables, Talk(o, device, i), ~app.odd PROVE elapsed \intersect In(a.v, "Waiting") = {}
  <2>1. Wired(out, device.addr)
    BY <1>3, IsSound
  <2>2. (o[App] = out[App] \/ o[App] = <<>>) /\ (o[Device] = out[Device] \/ o[Device] = <<>>)
    BY <1>3 DEF QuietOut
  <2>3. Talk(out, device, i)
    BY <1>3, <2>2 DEF Talk, Asked, Replied
  <2> QED BY <1>3, <2>1, <2>3, TalkIsUnderWay
<1> HIDE DEF a, hurry, hurries
<1>4. ~app.odd => SinceKept(o) /\ Wired(o, device.addr)
  <2>1. SUFFICES ASSUME ~app.odd PROVE SinceKept(o)
    BY DEF QuietOut
  <2> DEFINE var == [i \in Variables |-> IF app'.handle[i] = NoHandle THEN {} ELSE since.var[i]]
  <2>2. SinceShape(since)
    BY <2>1, IsSound
  <2>3. var = [i \in Variables |-> var[i]] /\ \A i \in Variables : app'.handle[i] # NoHandle => var[i] = since.var[i]
    OBVIOUS
  <2>4. since' = [since EXCEPT !.var = var]
    OBVIOUS
  <2> HIDE DEF var
  <2>5. since' = [tool |-> since.tool, gateway |-> since.gateway, var |-> var]
    BY <2>2, <2>4 DEF SinceShape
  <2> QED BY <2>3, <2>5 DEF SinceKept, SinceShape
<1>5. CASE app.odd
  <2>1. /\ AppShape(a) /\ a.odd = b.odd /\ a.was = (b.was /\ \A i \in Finished(b) : Used(b, i))
    BY CheckIs DEF a
  <2>2. AppShape(app') /\ app'.was = a.was /\ (a.odd => app'.odd)
    BY <1>2, <2>1, ServedShape
  <2>3. \A i \in Finished(b) : Used(b, i)
    BY <1>5 DEF Used
  <2> QED BY <1>5, <2>1, <2>2, <2>3 DEF ServInv
<1>6. CASE ~app.odd
  <2>1. a = ApplicationCheck(b)
    BY DEF a
  <2>2. ~hurries => \A i \in Variables : Talk(o, device, i) => elapsed \intersect In(a.v, "Waiting") = {}
    BY <1>3, <1>6
  <2> QED BY <1>2, <1>4, <1>6, <2>1, <2>2, PassKeeps
<1> QED BY <1>5, <1>6 DEF ServInv, AppShape

(* An answer is to the question that its transaction waits for.                *)
LEMMA AnswerHeard ==
  ASSUME ServInv, ~app.odd, NEW x \in DOMAIN out, out[x] # <<>>, NEW t, t = Head(out[x]), NEW i \in Variables,
         t.type = "GetVar", t.index = i, t.from = DeviceAddress, t.to = App
  PROVE  t.data \in since.var[i] /\ ~Talk(Rest(x), device, i)
<1>1. Wired(out, device.addr) /\ Conversation(out, device, app, since.var)
  BY IsSound
<1>2. /\ x \in Nodes /\ \A y \in Nodes \ {x} : Rest(x)[y] = out[y]
      /\ x \in Others => t.from = x
      /\ x \in {App, Device} => Rest(x)[x] = <<>> /\ t = out[x][1] /\ t.from = IF x = App THEN App ELSE device.addr
  BY <1>1, RestIs
<1>3. x = Device
  BY <1>2, NodesAre
<1>4. Replied(out, i)
  BY <1>2, <1>3 DEF Replied, AnswerTo, About
<1>5. ~Replied(Rest(x), i) /\ (Asked(Rest(x), i) <=> Asked(out, i))
  BY <1>2, <1>3, NodesAre DEF Asked, Replied
<1> QED BY <1>1, <1>2, <1>3, <1>4, <1>5 DEF Conversation, Talk

LEMMA AppHearsKeeps ==
  ASSUME ServInv, NEW x \in DOMAIN out, AppHears(x)
  PROVE  ServInv'
<1> DEFINE t == Head(out[x])
           b == Responded(app, t)
           o == Rest(x)
<1>1. /\ out[x] # <<>> /\ t.to = App /\ AppPass(o, b) /\ device' = device /\ gateway' = gateway
      /\ since' = [since EXCEPT !.var = [i \in Variables |-> IF app'.handle[i] = NoHandle THEN {} ELSE @[i]]]
  BY DEF AppHears
<1>2. QuietOut(o) /\ (~app.odd => Conversation(o, device, app, since.var))
  BY <1>1, RestKeeps, RestSpeaks DEF QuietOut
<1>3. AppShape(app)
  BY DEF ServInv
<1>4. AppShape(b) /\ b.was = app.was /\ (app.odd => b.odd) /\ (~b.odd /\ Resting(app) => Took(app, b, t))
  BY <1>3, RespondedIs
<1>5. ASSUME ~b.odd PROVE Taken(b, o)
  <2>1. ~app.odd /\ Resting(app) /\ Took(app, b, t)
    BY <1>4, <1>5, IsSound
  <2>2. Conversation(o, device, app, since.var)
    BY <1>2, <2>1
  <2>3. \A i \in Variables : t.type = "GetVar" /\ t.from = DeviceAddress /\ t.index = i =>
          t.data \in since.var[i] /\ ~Talk(o, device, i)
    BY <1>1, <2>1, AnswerHeard
  <2> HIDE DEF t, b, o
  <2>4. ASSUME NEW i \in Variables
        PROVE  /\ Talk(o, device, i) => b.handle[i] = app.handle[i] /\ StateOf(b, i) = "Waiting"
               /\ b.handle[i] # NoHandle /\ StateOf(b, i) = "Ready" => b.mem[i] \in since.var[i]
    <3>1. b.handle = app.handle
      BY <2>1 DEF Took
    <3>2. Talk(o, device, i) => app.handle[i] # NoHandle /\ StateOf(app, i) = "Waiting"
      BY <2>2 DEF Conversation
    <3>3. app.handle[i] # NoHandle => StateOf(app, i) \in {"Waiting", "TxRetry", "Timeout", "TxError"}
      BY <2>1 DEF Resting
    <3>4. app.handle[i] # NoHandle =>
            \/ StateOf(b, i) = StateOf(app, i)
            \/ /\ t.type = "GetVar" /\ t.from = DeviceAddress /\ t.index = i
               /\ StateOf(b, i) = "Ready" /\ b.mem[i] = t.data
      BY <2>1 DEF Took
    <3> QED BY <2>3, <3>1, <3>2, <3>3, <3>4
  <2> QED BY <2>1, <2>4 DEF Taken, Took
<1> HIDE DEF t, b, o
<1> QED BY <1>1, <1>2, <1>4, <1>5, AppPassKeeps

LEMMA AppIdleKeeps ==
  ASSUME ServInv, AppIdle
  PROVE  ServInv'
<1>1. /\ AppPass(out, app) /\ device' = device /\ gateway' = gateway
      /\ since' = [since EXCEPT !.var = [i \in Variables |-> IF app'.handle[i] = NoHandle THEN {} ELSE @[i]]]
  BY DEF AppIdle
<1>2. QuietOut(out) /\ AppShape(app) /\ (~app.odd => Conversation(out, device, app, since.var))
  BY IsSound DEF QuietOut, ServInv
<1>3. ASSUME ~app.odd PROVE Taken(app, out)
  <2>1. Resting(app) /\ Conversation(out, device, app, since.var)
    BY <1>3, IsSound
  <2> QED BY <2>1 DEF Taken, Resting, Conversation
<1> QED BY <1>1, <1>2, <1>3, AppPassKeeps

LEMMA AppOpenKeeps ==
  ASSUME ServInv, AppOpen
  PROVE  ServInv'
<1>1. PICK i \in Variables, dir \in Dirs :
        /\ Served(out, ApplicationCheck(Opened(app, i, dir)), FALSE, {}, FALSE)
        /\ since' = [since EXCEPT !.var[i] = {device.var[i]}]
  BY DEF AppOpen, Dirs
<1>2. device' = device /\ gateway' = gateway
  BY DEF AppOpen
<1> DEFINE b == Opened(app, i, dir)
           a == ApplicationCheck(b)
<1>3. AppShape(app)
  BY DEF ServInv
<1>4. /\ AppShape(b) /\ b.was = app.was /\ (app.odd => b.odd)
      /\ ~b.odd /\ Resting(app) =>
           /\ Held(b.v, b.handle) /\ app.handle[i] = NoHandle
           /\ b.handle[i] # NoHandle => StateOf(b, i) = "Scheduled"
           /\ \A j \in Variables \ {i} : b.handle[j] = app.handle[j] /\ (app.handle[j] # NoHandle => StateOf(b, j) = StateOf(app, j))
  BY <1>3, OpenedIs
<1>5. Served(out, a, FALSE, {}, FALSE) /\ a = ApplicationCheck(b)
  BY <1>1
<1> HIDE DEF a, b
<1>6. CASE b.odd
  <2>1. AppShape(a) /\ a.odd = b.odd /\ a.was = (b.was /\ \A j \in Finished(b) : Used(b, j))
    BY <1>4, <1>5, CheckIs
  <2>2. AppShape(app') /\ app'.was = a.was /\ (a.odd => app'.odd)
    BY <1>5, <2>1, ServedShape
  <2>3. \A j \in Finished(b) : Used(b, j)
    BY <1>6 DEF Used
  <2> QED BY <1>4, <1>6, <2>1, <2>2, <2>3 DEF ServInv
<1>7. CASE ~b.odd
  <2>1. ~app.odd
    BY <1>4, <1>7
  <2>2. Resting(app) /\ SinceShape(since) /\ Wired(out, device.addr) /\ Conversation(out, device, app, since.var)
    BY <2>1, IsSound
  <2>3. /\ Held(b.v, b.handle) /\ app.handle[i] = NoHandle
        /\ b.handle[i] # NoHandle => StateOf(b, i) = "Scheduled"
        /\ \A j \in Variables \ {i} : b.handle[j] = app.handle[j] /\ (app.handle[j] # NoHandle => StateOf(b, j) = StateOf(app, j))
    BY <1>4, <1>7, <2>2
  <2>4. \A j \in Variables : Talk(out, device, j) => j # i /\ app.handle[j] # NoHandle /\ StateOf(app, j) = "Waiting"
    BY <2>2, <2>3 DEF Conversation
  <2>5. Taken(b, out)
    <3>1. ASSUME NEW j \in Variables
          PROVE  /\ Talk(out, device, j) => b.handle[j] = app.handle[j] /\ StateOf(b, j) = "Waiting"
                 /\ b.handle[j] # NoHandle /\ StateOf(b, j) = "Ready" => b.mem[j] \in since.var[j]
      <4>1. CASE j = i
        BY <4>1, <2>3, <2>4
      <4>2. CASE j # i
        <5>1. app.handle[j] # NoHandle => StateOf(app, j) # "Ready"
          BY <2>2 DEF Resting
        <5> QED BY <4>2, <5>1, <2>3, <2>4
      <4> QED BY <4>1, <4>2
    <3> QED BY <2>3, <3>1 DEF Taken
  <2>6. SinceKept(out)
    <3> DEFINE var == [since.var EXCEPT ![i] = {device.var[i]}]
    <3>1. since' = [since EXCEPT !.var = var]
      BY <1>1
    <3>2. var = [j \in Variables |-> var[j]] /\ \A j \in Variables : j # i => var[j] = since.var[j]
      BY <2>2 DEF SinceShape
    <3> HIDE DEF var
    <3>3. since' = [tool |-> since.tool, gateway |-> since.gateway, var |-> var]
      BY <2>2, <3>1 DEF SinceShape
    <3> QED BY <2>4, <3>2, <3>3 DEF SinceKept, SinceShape
  <2> DEFINE none == {}
  <2>7. Served(out, a, FALSE, none, FALSE) /\ (~FALSE => \A j \in Variables : Talk(out, device, j) => none \intersect In(a.v, "Waiting") = {})
    BY <1>5
  <2> HIDE DEF none
  <2> QED BY <1>2, <1>4, <1>5, <1>7, <2>1, <2>2, <2>5, <2>6, <2>7, PassKeeps
<1> QED BY <1>4, <1>6, <1>7 DEF AppShape

-----------------------------------------------------------------------------
(* At the start nothing is open, and nothing has been said.                    *)
LEMMA EarlierIn == Earlier % TRANSACTION_FIFO_LEN \in Place
<1>1. Earlier \in Nat /\ TRANSACTION_FIFO_LEN \in Nat /\ TRANSACTION_FIFO_LEN > 0
  BY ServiceAssumption, BusVarAssumption
<1> QED BY <1>1, Z3 DEF Place

LEMMA StartHeld == ASSUME NEW v, v = [BusVarInit EXCEPT !.wr = Earlier % TRANSACTION_FIFO_LEN, !.rd = Earlier % TRANSACTION_FIFO_LEN],
                          NEW handle, handle = [i \in Variables |-> NoHandle]
                   PROVE Held(v, handle)
<1>1. v = [fifo |-> [h \in Place |-> NoTransaction], wr |-> Earlier % TRANSACTION_FIFO_LEN, rd |-> Earlier % TRANSACTION_FIFO_LEN]
  BY DEF BusVarInit
<1>2. v \in AnyQueue /\ v.rd = v.wr /\ v.rd \in Place
  <2> DEFINE fifo == [h \in Place |-> NoTransaction]
             at == Earlier % TRANSACTION_FIFO_LEN
  <2>1. fifo \in [Place -> AnyTransaction] /\ at \in Place
    BY NoneIsAny, EarlierIn
  <2>2. v = [fifo |-> fifo, wr |-> at, rd |-> at]
    BY <1>1
  <2> HIDE DEF fifo, at
  <2>3. [fifo |-> fifo, wr |-> at, rd |-> at] \in AnyQueue
    BY <2>1 DEF AnyQueue
  <2>4. v.rd = at /\ v.wr = at
    <3>1. [fifo |-> fifo, wr |-> at, rd |-> at].rd = at /\ [fifo |-> fifo, wr |-> at, rd |-> at].wr = at
      OBVIOUS
    <3> QED BY <2>2, <3>1
  <2> QED BY <2>1, <2>2, <2>3, <2>4
<1>3. Queued(v) = {}
  <2>1. Distance(v.rd, v.wr) = 0 /\ \A h \in Place : Distance(v.rd, h) \in 0 .. Size - 1
    BY <1>2, DistancesIn
  <2>2. Queued(v) \subseteq Place /\ \A h \in Place : h \in Queued(v) <=> Distance(v.rd, h) < Distance(v.rd, v.wr)
    BY <1>2, AnyBounded, QueuedIs
  <2> QED BY <2>1, <2>2
<1> QED BY <1>2, <1>3 DEF Held

LEMMA ServInit == Init => ServInv
<1> SUFFICES ASSUME Init PROVE ServInv
  OBVIOUS
<1> DEFINE v == [BusVarInit EXCEPT !.wr = Earlier % TRANSACTION_FIFO_LEN, !.rd = Earlier % TRANSACTION_FIFO_LEN]
           handle == [i \in Variables |-> NoHandle]
           mem == [i \in Variables |-> 0]
           seen == Seen(device)
           var == [i \in Variables |-> {}]
<1>1. app = [v |-> v, msg |-> None, handle |-> handle, mem |-> mem, was |-> TRUE, odd |-> FALSE]
  BY DEF Init
<1>2. /\ device = Started(Installed) /\ out = [x \in Nodes |-> <<>>] /\ since = [tool |-> seen, gateway |-> seen, var |-> var]
      /\ \E s \in Scenarios : gateway = [left |-> s.sets, queue |-> <<>>, was |-> TRUE, unanswered |-> {}]
  BY DEF Init, Nodes
<1>3. Held(v, handle)
  BY StartHeld
<1> HIDE DEF v, seen
<1>4. AppShape(app) /\ app.was
  BY <1>1 DEF AppShape
<1>5. Resting(app) /\ \A i \in Variables : app.handle[i] = NoHandle
  BY <1>1, <1>3 DEF Resting
<1>6. DeviceShape(device) /\ device.retry = None
  BY <1>2 DEF Started, DeviceShape
<1>7. Wired(out, device.addr) /\ out[App] = <<>> /\ out[Device] = <<>>
  <2>1. \A x \in Nodes : out[x] = <<>>
    BY <1>2
  <2>2. \A x \in Others : Sent(out[x], x)
    BY <2>1, SentNone, NodesAre
  <2> QED BY <1>2, <2>1, <2>2, NodesAre DEF Wired, Single
<1>8. GatewayShape(gateway) /\ Asking(gateway.queue)
  BY <1>2 DEF GatewayShape, Asking, List
<1>9. SinceShape(since)
  BY <1>2 DEF SinceShape
<1>10. Conversation(out, device, app, since.var)
  BY <1>6, <1>7 DEF Conversation, Talk, Asked, Replied, Kept
<1> QED BY <1>4, <1>5, <1>6, <1>7, <1>8, <1>9, <1>10 DEF ServInv, Sound, RetryFrom

LEMMA ServKept == ServInv /\ [Next]_vars => ServInv'
<1> SUFFICES ASSUME ServInv, [Next]_vars PROVE ServInv'
  OBVIOUS
<1>1. ASSUME NEW x \in DOMAIN out, DeviceHears(x) PROVE ServInv'
  BY <1>1, DeviceKeeps
<1>2. ASSUME NEW x \in DOMAIN out, Restart(x) PROVE ServInv'
  BY <1>2, RestartKeeps
<1>3. ASSUME NEW x \in DOMAIN out, Calibrate(x) PROVE ServInv'
  BY <1>3, CalibrateKeeps
<1>4. ASSUME NEW x \in DOMAIN out, AppHears(x) PROVE ServInv'
  BY <1>4, AppHearsKeeps
<1>5. ASSUME NEW x \in DOMAIN out, GatewayHears(x) PROVE ServInv'
  BY <1>5, GatewayHearsKeeps
<1>6. ASSUME NEW x \in DOMAIN out, ToolHears(x) \/ NobodyHears(x) \/ Lose(x) PROVE ServInv'
  BY <1>6, NobodyHearsKeeps
<1>7. CASE DeviceIdle
  BY <1>7, DeviceKeeps
<1>8. CASE CalibTimeout
  BY <1>8, CalibTimeoutKeeps
<1>9. CASE AppIdle
  BY <1>9, AppIdleKeeps
<1>10. CASE AppOpen
  BY <1>10, AppOpenKeeps
<1>11. CASE Command \/ ToolReceive \/ ToolTimeout
  BY <1>11, ToolKeeps
<1>12. CASE Set
  BY <1>12, SetKeeps
<1>13. CASE GatewayIdle
  BY <1>13, GatewayHearsKeeps
<1>14. CASE UNCHANGED vars
  <2>1. app' = app /\ device' = device /\ gateway' = gateway /\ out' = out /\ since' = since
    BY <1>14 DEF vars
  <2> QED BY <2>1, GatewayKeeps, OutKeeps, QuietStep DEF QuietSince
<1> QED BY <1>1, <1>2, <1>3, <1>4, <1>5, <1>6, <1>7, <1>8, <1>9, <1>10, <1>11, <1>12, <1>13, <1>14 DEF Next

(* When all transactions are closed the queue is empty, unless something odd    *)
(* has happened: the front of the queue is a transaction that is not closed, and *)
(* such a transaction has a handle.                                             *)
THEOREM QueueEmpties == Spec => []Emptied
<1>1. ASSUME ServInv PROVE Emptied
  <2> SUFFICES ASSUME \A i \in Variables : app.handle[i] = NoHandle, ~app.odd, app.v.rd # app.v.wr PROVE FALSE
    BY DEF Emptied
  <2>1. Held(app.v, app.handle)
    BY <1>1, IsSound DEF Resting
  <2>2. app.v.rd \in Queued(app.v) /\ Queued(app.v) \subseteq Place /\ app.v.fifo[app.v.rd].state # "Invalid"
    BY <2>1, FrontIs, AnyBounded, QueuedIs DEF Held
  <2>3. app.v.fifo[app.v.rd].idx \in Variables /\ app.handle[app.v.fifo[app.v.rd].idx] = app.v.rd
    BY <2>1, <2>2 DEF Held
  <2> QED BY <2>2, <2>3, SizeIs
<1> QED BY <1>1, ServInit, ServKept, PTL DEF Spec

(* What the application uses is a value that the variable of the DO31 had since *)
(* it asked, through lost and repeated telegrams, responses that are offered     *)
(* again, restarts of the DO31 and answers that come late, unless something odd  *)
(* has happened before.                                                         *)
THEOREM OnlyTrueValues == Spec => []Delivered
<1>1. ServInv => Delivered
  BY DEF ServInv, Delivered
<1> QED BY <1>1, ServInit, ServKept, PTL DEF Spec
=============================================================================
