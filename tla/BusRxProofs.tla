------------------------------ MODULE BusRxProofs ------------------------------
(***************************************************************************)
(* Proofs about the receive queue and the telegram decoder: RxFifo, BusRx. *)
(***************************************************************************)
EXTENDS BusRx, SequenceTheorems, WellFoundedInduction, TLAPS

(* Induction over the natural numbers, and the checksum. *)
LEMMA Induct ==
  ASSUME NEW S, 0 \in S, \A n \in Nat : n \in S => n + 1 \in S
  PROVE  \A n \in Nat : n \in S
  <1> DEFINE T == {n \in Nat : n \notin S}
  <1>1. SUFFICES ASSUME T # {} PROVE FALSE
    OBVIOUS
  <1>2. PICK x \in T : \A y \in T : ~ (<<y, x>> \in OpToRel(<, Nat))
    BY <1>1, WFMin, NatLessThanWellFounded
  <1>3. \A y \in T : ~ (y < x)
    BY <1>2 DEF OpToRel
  <1>4. x \in Nat /\ 0 \in S /\ x \notin S
    BY <1>2
  <1>5. x # 0 /\ x - 1 \in Nat /\ x - 1 + 1 = x /\ x - 1 < x
    BY <1>4
  <1>6. x - 1 \in S
    BY <1>3, <1>5
  <1> QED BY <1>4, <1>5, <1>6

LEMMA ConcatAt ==
  ASSUME NEW S, NEW s \in Seq(S), NEW t \in Seq(S)
  PROVE  /\ s \o t \in Seq(S) /\ Len(s \o t) = Len(s) + Len(t)
         /\ \A i \in 1 .. Len(s) : (s \o t)[i] = s[i]
         /\ \A k \in 1 .. Len(t) : (s \o t)[Len(s) + k] = t[k]
OBVIOUS

-----------------------------------------------------------------------------
(* The checksum of a sequence and one more character. *)
IsSums(f, s, n) == f = [i \in 0 .. n |-> IF i = 0 THEN CHECKSUM_START ELSE (f[i - 1] + s[i]) % 256]

LEMMA SumsExist == ASSUME NEW s PROVE \A n \in Nat : \E f : IsSums(f, s, n)
<1> DEFINE S == {n \in Nat : \E f : IsSums(f, s, n)}
<1>1. 0 \in S
  <2>1. IsSums([i \in 0 .. 0 |-> CHECKSUM_START], s, 0)
    BY DEF IsSums
  <2> QED BY <2>1
<1>2. ASSUME NEW n \in Nat, n \in S PROVE n + 1 \in S
  <2>1. PICK f : IsSums(f, s, n)
    BY <1>2
  <2> DEFINE g == [i \in 0 .. n + 1 |-> IF i <= n THEN f[i] ELSE (f[n] + s[n + 1]) % 256]
  <2>2. IsSums(g, s, n + 1)
    BY <2>1 DEF IsSums
  <2> QED BY <2>2
<1> HIDE DEF S
<1>3. \A n \in Nat : n \in S
  BY <1>1, <1>2, Induct
<1> QED BY <1>3 DEF S

LEMMA SumIs ==
  ASSUME NEW s, Len(s) \in Nat
  PROVE  \E f : IsSums(f, s, Len(s)) /\ Sum(s) = f[Len(s)]
<1> DEFINE F == CHOOSE f : IsSums(f, s, Len(s))
<1>1. IsSums(F, s, Len(s))
  BY SumsExist
<1>2. Sum(s) = F[Len(s)]
  BY DEF Sum, IsSums
<1> QED BY <1>1, <1>2

LEMMA SumsAgree ==
  ASSUME NEW s, NEW t, NEW n \in Nat, NEW m \in Nat, n <= m, \A i \in 1 .. n : s[i] = t[i],
         NEW f, NEW g, IsSums(f, s, n), IsSums(g, t, m)
  PROVE  f[n] = g[n]
<1> DEFINE S == {i \in Nat : i <= n => f[i] = g[i]}
<1>1. 0 \in S
  BY DEF IsSums
<1>2. ASSUME NEW i \in Nat, i \in S PROVE i + 1 \in S
  BY <1>2 DEF IsSums
<1> HIDE DEF S
<1>3. n \in S
  BY <1>1, <1>2, Induct
<1> QED BY <1>3 DEF S

LEMMA SumNext ==
  ASSUME NEW s \in Seq(Byte), NEW ch \in Byte
  PROVE  Sum(Append(s, ch)) = (Sum(s) + ch) % 256
<1> DEFINE t == Append(s, ch)
<1>1. Len(s) \in Nat /\ Len(t) = Len(s) + 1 /\ t[Len(s) + 1] = ch /\ \A i \in 1 .. Len(s) : s[i] = t[i]
  OBVIOUS
<1> HIDE DEF t
<1>2. PICK f : IsSums(f, s, Len(s)) /\ Sum(s) = f[Len(s)]
  BY <1>1, SumIs
<1>3. PICK g : IsSums(g, t, Len(s) + 1) /\ Sum(t) = g[Len(s) + 1]
  <2>1. Len(t) \in Nat
    BY <1>1
  <2> QED BY <1>1, <2>1, SumIs
<1>4. f[Len(s)] = g[Len(s)]
  BY <1>1, <1>2, <1>3, SumsAgree
<1>5. g[Len(s) + 1] = (g[Len(s)] + t[Len(s) + 1]) % 256
  BY <1>1, <1>3 DEF IsSums
<1> QED BY <1>1, <1>2, <1>3, <1>4, <1>5 DEF t

LEMMA SumNone == Sum(<<>>) = CHECKSUM_START
<1>1. PICK f : IsSums(f, <<>>, 0) /\ Sum(<<>>) = f[0]
  BY SumIs
<1> QED BY <1>1 DEF IsSums

LEMMA ByteSum == ASSUME NEW a \in Byte, NEW b \in Byte PROVE (a + b) % 256 \in Byte
BY DEF Byte

LEMMA SumType == ASSUME NEW s \in Seq(Byte) PROVE Sum(s) \in Byte
<1>1. PICK f : IsSums(f, s, Len(s)) /\ Sum(s) = f[Len(s)]
  BY SumIs
<1> DEFINE S == {i \in Nat : i <= Len(s) => f[i] \in Byte}
<1>2. 0 \in S
  BY <1>1 DEF IsSums, Byte, CHECKSUM_START
<1>3. ASSUME NEW i \in Nat, i \in S PROVE i + 1 \in S
  <2> SUFFICES ASSUME i + 1 <= Len(s) PROVE f[i + 1] \in Byte
    OBVIOUS
  <2>1. f[i] \in Byte /\ s[i + 1] \in Byte
    BY <1>3
  <2>2. f[i + 1] = (f[i] + s[i + 1]) % 256
    BY <1>1 DEF IsSums
  <2> QED BY <2>1, <2>2, ByteSum
<1> HIDE DEF S
<1>4. Len(s) \in S
  BY <1>2, <1>3, Induct
<1> QED BY <1>1, <1>4 DEF S

-----------------------------------------------------------------------------
(* sTelegramSize: every type has a length. *)
(* What the decoder relies on in the table of lengths. *)
Sized(size) ==
  \/ \E len \in 2 .. 255 : size = Const(len)
  \/ \E lens : /\ size = [kind |-> "devType", offset |-> 3, lens |-> lens]
               /\ \A d \in DOMAIN lens : lens[d] \in 5 .. 255
  \/ \E offset \in 4 .. 5 : size = Direct(offset, offset + 1)

AllSized(table) == \A t \in DOMAIN table : Sized(table[t])

LEMMA SizedParts ==
  ASSUME NEW size, Sized(size)
  PROVE  /\ size.kind = "const" => size.len \in 2 .. 255
         /\ size.kind # "const" => size.offset \in 3 .. 5 /\ size.offset > 1
         /\ size.kind = "devType" => \A x \in DOMAIN size.lens : size.lens[x] \in 5 .. 255
         /\ size.kind = "devType" => size.offset = 3
         /\ size.kind = "direct" => size.add = size.offset + 1
         /\ size.kind \in {"const", "devType", "direct"}
<1>1. CASE \E len \in 2 .. 255 : size = Const(len)
  BY <1>1 DEF Const
<1>2. CASE \E lens : /\ size = [kind |-> "devType", offset |-> 3, lens |-> lens]
                    /\ \A x \in DOMAIN lens : lens[x] \in 5 .. 255
  BY <1>2
<1>3. CASE \E offset \in 4 .. 5 : size = Direct(offset, offset + 1)
  BY <1>3 DEF Direct
<1> QED BY <1>1, <1>2, <1>3 DEF Sized

LEMMA LensSized ==
  ASSUME NEW pairs, \A p \in pairs : p[2] \in 5 .. 255
  PROVE  Sized(DevType(pairs))
<1> DEFINE lens == Listed(pairs)
<1>1. \A d \in DOMAIN lens : lens[d] \in 5 .. 255
  BY DEF Listed
<1>2. DevType(pairs) = [kind |-> "devType", offset |-> 3, lens |-> lens]
  BY DEF DevType
<1> QED BY <1>1, <1>2 DEF Sized

LEMMA ConstSized == ASSUME NEW len \in 2 .. 255 PROVE Sized(Const(len))
BY DEF Sized

LEMMA DirectSized == ASSUME NEW offset \in 4 .. 5 PROVE Sized(Direct(offset, offset + 1))
BY DEF Sized

LEMMA TableSized ==
  ASSUME NEW type, Known(type)
  PROVE  Sized(SizeOf(type))
<1> DEFINE t == IF type = eBusDevStartup THEN 0 ELSE type
<1>1. t \in 0 .. 50 /\ SizeOf(type) = sTelegramSize[t]
  BY DEF Known, SizeOf, sTelegramSize
<1>2. \A p \in ValueLens : p[2] \in 5 .. 255
  BY DEF ValueLens
<1>3. /\ Sized(DevType({<<0, 50>>} \cup ((1 .. 13) \X {20})))
      /\ Sized(DevType({<<0, 16>>})) /\ Sized(DevType({<<0, 12>>, <<1, 5>>}))
      /\ Sized(DevType({<<0, 27>>, <<1, 6>>, <<4, 8>>, <<7, 36>>, <<8, 13>>, <<10, 40>>, <<12, 5>>}))
      /\ Sized(DevType(ValueLens \cup {<<12, 5>>})) /\ Sized(DevType(ValueLens))
  BY <1>2, LensSized
<1>4. Sized(Direct(5, 6)) /\ Sized(Direct(4, 5))
  <2>1. Sized(Direct(5, 5 + 1)) /\ Sized(Direct(4, 4 + 1))
    BY DirectSized
  <2> QED BY <2>1
<1>5. Sized(sTelegramSize[t])
  <2> HIDE DEF t
  <2>1. t \in 0 .. 50
    BY <1>1
  <2> QED BY <2>1, <1>3, <1>4, ConstSized DEF sTelegramSize
<1> QED BY <1>1, <1>5

-----------------------------------------------------------------------------
(* The characters without their stuffing, one by one. *)
IsPlain(f, s, n) ==
  f = [p \in 0 .. n |-> IF p = 0 THEN <<>>
                        ELSE IF s[p] = ESC THEN f[p - 1] ELSE Append(f[p - 1], Meant(s, p))]

LEMMA PlainExists == ASSUME NEW s PROVE \A n \in Nat : \E f : IsPlain(f, s, n)
<1> DEFINE S == {n \in Nat : \E f : IsPlain(f, s, n)}
<1>1. 0 \in S
  <2>1. IsPlain([p \in 0 .. 0 |-> <<>>], s, 0)
    BY DEF IsPlain
  <2> QED BY <2>1
<1>2. ASSUME NEW n \in Nat, n \in S PROVE n + 1 \in S
  <2>1. PICK f : IsPlain(f, s, n)
    BY <1>2
  <2> DEFINE g == [p \in 0 .. n + 1 |->
                     IF p <= n THEN f[p]
                     ELSE IF s[n + 1] = ESC THEN f[n] ELSE Append(f[n], Meant(s, n + 1))]
  <2>2. IsPlain(g, s, n + 1)
    <3> DEFINE h == [p \in 0 .. n + 1 |-> IF p = 0 THEN <<>>
                        ELSE IF s[p] = ESC THEN g[p - 1] ELSE Append(g[p - 1], Meant(s, p))]
    <3>1. ASSUME NEW p \in 0 .. n + 1 PROVE g[p] = h[p]
      <4>1. CASE p = n + 1
        BY <4>1
      <4>2. CASE p # n + 1 /\ p # 0
        <5>1. p \in 0 .. n /\ p - 1 \in 0 .. n + 1 /\ p - 1 <= n /\ p # 0
          BY <4>2
        <5>2. g[p] = f[p] /\ g[p - 1] = f[p - 1]
          BY <5>1
        <5>3. f[p] = IF s[p] = ESC THEN f[p - 1] ELSE Append(f[p - 1], Meant(s, p))
          BY <2>1, <5>1, Zenon DEF IsPlain
        <5> QED BY <5>1, <5>2, <5>3
      <4>3. CASE p = 0
        BY <2>1, <4>3 DEF IsPlain
      <4> QED BY <4>1, <4>2, <4>3
    <3>2. g = h
      BY <3>1
    <3> QED BY <3>2 DEF IsPlain
  <2> QED BY <2>2
<1> HIDE DEF S
<1>3. \A n \in Nat : n \in S
  BY <1>1, <1>2, Induct
<1> QED BY <1>3 DEF S

LEMMA PlainStep ==
  ASSUME NEW s, NEW n \in Nat, NEW f, IsPlain(f, s, n), NEW i \in Nat, i + 1 <= n
  PROVE  f[i + 1] = IF s[i + 1] = ESC THEN f[i] ELSE Append(f[i], Meant(s, i + 1))
<1>1. i + 1 \in 0 .. n /\ i + 1 # 0 /\ i + 1 - 1 = i
  OBVIOUS
<1>2. ASSUME NEW p \in 0 .. n, p # 0
      PROVE  f[p] = IF s[p] = ESC THEN f[p - 1] ELSE Append(f[p - 1], Meant(s, p))
  BY <1>2, Zenon DEF IsPlain
<1>3. f[i + 1] = IF s[i + 1] = ESC THEN f[i + 1 - 1] ELSE Append(f[i + 1 - 1], Meant(s, i + 1))
  BY ONLY <1>1, <1>2
<1> QED BY <1>1, <1>3

LEMMA PlainIs ==
  ASSUME NEW s, Len(s) \in Nat
  PROVE  \E f : IsPlain(f, s, Len(s)) /\ Plain(s) = f[Len(s)]
<1> DEFINE F == CHOOSE f : IsPlain(f, s, Len(s))
<1>1. IsPlain(F, s, Len(s))
  BY PlainExists
<1>2. Plain(s) = F[Len(s)]
  BY DEF Plain, IsPlain
<1> QED BY <1>1, <1>2

LEMMA PlainAgree ==
  ASSUME NEW s, NEW t, NEW n \in Nat, NEW m \in Nat, n <= m, \A i \in 1 .. n : s[i] = t[i],
         NEW f, NEW g, IsPlain(f, s, n), IsPlain(g, t, m)
  PROVE  f[n] = g[n]
<1> DEFINE S == {i \in Nat : i <= n => f[i] = g[i]}
<1>1. 0 \in S
  BY DEF IsPlain
<1>2. ASSUME NEW i \in Nat, i \in S PROVE i + 1 \in S
  <2> SUFFICES ASSUME i + 1 <= n PROVE f[i + 1] = g[i + 1]
    OBVIOUS
  <2>1. s[i + 1] = t[i + 1] /\ Meant(s, i + 1) = Meant(t, i + 1) /\ f[i] = g[i]
    BY <1>2 DEF Meant
  <2>2. f[i + 1] = IF s[i + 1] = ESC THEN f[i] ELSE Append(f[i], Meant(s, i + 1))
    BY PlainStep
  <2>3. g[i + 1] = IF t[i + 1] = ESC THEN g[i] ELSE Append(g[i], Meant(t, i + 1))
    <3>1. i + 1 <= m
      OBVIOUS
    <3> QED BY <3>1, PlainStep
  <2> QED BY <2>1, <2>2, <2>3
<1> HIDE DEF S
<1>3. n \in S
  BY <1>1, <1>2, Induct
<1> QED BY <1>3 DEF S

EndsIn(s, c) == s # <<>> /\ s[Len(s)] = c

LEMMA PlainNext ==
  ASSUME NEW s \in Seq(Byte), NEW c \in Byte
  PROVE  Plain(Append(s, c)) =
           IF c = ESC THEN Plain(s)
           ELSE Append(Plain(s), IF EndsIn(s, ESC) THEN Inverted(c) ELSE c)
<1> DEFINE t == Append(s, c)
<1>1. /\ Len(s) \in Nat /\ Len(t) = Len(s) + 1 /\ t[Len(s) + 1] = c
      /\ \A i \in 1 .. Len(s) : s[i] = t[i]
  OBVIOUS
<1>2. Meant(t, Len(s) + 1) = IF EndsIn(s, ESC) THEN Inverted(c) ELSE c
  <2> HIDE DEF t
  <2>1. PICK p \in Nat : p = Len(s) + 1 /\ p - 1 = Len(s)
    BY <1>1
  <2>2. (s # <<>> <=> p > 1) /\ (p > 1 => t[p - 1] = s[Len(s)])
    BY <1>1, <2>1
  <2>3. Meant(t, p) = IF EndsIn(s, ESC) THEN Inverted(c) ELSE c
    BY <1>1, <2>1, <2>2 DEF Meant, EndsIn
  <2> QED BY <2>1, <2>3, Zenon
<1> HIDE DEF t
<1>3. PICK f : IsPlain(f, s, Len(s)) /\ Plain(s) = f[Len(s)]
  BY <1>1, PlainIs
<1>4. PICK g : IsPlain(g, t, Len(s) + 1) /\ Plain(t) = g[Len(s) + 1]
  <2>1. Len(t) \in Nat
    BY <1>1
  <2> QED BY <1>1, <2>1, PlainIs
<1>5. f[Len(s)] = g[Len(s)]
  BY <1>1, <1>3, <1>4, PlainAgree
<1>6. g[Len(s) + 1] = IF c = ESC THEN g[Len(s)] ELSE Append(g[Len(s)], Meant(t, Len(s) + 1))
  BY <1>1, <1>4, PlainStep
<1> QED BY <1>2, <1>3, <1>4, <1>5, <1>6 DEF t

LEMMA PlainNone == Plain(<<>>) = <<>>
<1>1. PICK f : IsPlain(f, <<>>, 0) /\ Plain(<<>>) = f[0]
  BY PlainIs
<1> QED BY <1>1 DEF IsPlain

LEMMA MeantByte == ASSUME NEW c \in Byte PROVE Inverted(c) \in Byte
BY DEF Byte, Inverted

-----------------------------------------------------------------------------
(* The characters of a telegram on the bus, one by one. *)
IsCode(f, all, n) ==
  f = [i \in 0 .. n |-> IF i = 0 THEN <<STX>> ELSE f[i - 1] \o Stuffed(all[i])]

LEMMA CodeExists == ASSUME NEW all PROVE \A n \in Nat : \E f : IsCode(f, all, n)
<1> DEFINE S == {n \in Nat : \E f : IsCode(f, all, n)}
<1>1. 0 \in S
  <2>1. IsCode([i \in 0 .. 0 |-> <<STX>>], all, 0)
    BY DEF IsCode
  <2> QED BY <2>1
<1>2. ASSUME NEW n \in Nat, n \in S PROVE n + 1 \in S
  <2>1. PICK f : IsCode(f, all, n)
    BY <1>2
  <2> DEFINE g == [i \in 0 .. n + 1 |-> IF i <= n THEN f[i] ELSE f[n] \o Stuffed(all[n + 1])]
  <2>2. IsCode(g, all, n + 1)
    BY <2>1 DEF IsCode
  <2> QED BY <2>2
<1> HIDE DEF S
<1>3. \A n \in Nat : n \in S
  BY <1>1, <1>2, Induct
<1> QED BY <1>3 DEF S

LEMMA CodeStep ==
  ASSUME NEW all, NEW n \in Nat, NEW f, IsCode(f, all, n), NEW i \in Nat, i + 1 <= n
  PROVE  f[i + 1] = f[i] \o Stuffed(all[i + 1])
<1>1. PICK j \in 0 .. n : j = i + 1 /\ j # 0 /\ j - 1 = i
  OBVIOUS
<1>2. f[j] = f[j - 1] \o Stuffed(all[j])
  BY <1>1, Zenon DEF IsCode
<1> QED BY <1>1, <1>2, Zenon

LEMMA EncodedIs ==
  ASSUME NEW msg, Len(Checked(msg)) \in Nat
  PROVE  \E f : /\ IsCode(f, Checked(msg), Len(Checked(msg)))
                /\ Encoded(msg) = f[Len(Checked(msg))]
<1> DEFINE F == CHOOSE f : IsCode(f, Checked(msg), Len(Checked(msg)))
<1>1. IsCode(F, Checked(msg), Len(Checked(msg)))
  BY CodeExists
<1>2. Encoded(msg) = F[Len(Checked(msg))]
  BY DEF Encoded, IsCode
<1> QED BY <1>1, <1>2

LEMMA StuffedType ==
  ASSUME NEW c \in Byte
  PROVE  Stuffed(c) \in Seq(Byte)
<1>1. Inverted(c) \in Byte
  BY MeantByte
<1>2. ESC \in Byte
  BY DEF ESC, Byte
<1>3. <<ESC, Inverted(c)>> \in Seq(Byte) /\ <<c>> \in Seq(Byte)
  BY <1>1, <1>2
<1> QED BY <1>3 DEF Stuffed

LEMMA CodeType ==
  ASSUME NEW all \in Seq(Byte), NEW f, IsCode(f, all, Len(all))
  PROVE  \A n \in 0 .. Len(all) : f[n] \in Seq(Byte)
<1> DEFINE S == {n \in Nat : n <= Len(all) => f[n] \in Seq(Byte)}
<1>1. 0 \in S
  <2>1. f[0] = <<STX>>
    BY DEF IsCode
  <2>2. STX \in Byte
    BY DEF STX, Byte
  <2>3. <<STX>> \in Seq(Byte)
    BY <2>2
  <2> QED BY <2>1, <2>3
<1>2. ASSUME NEW n \in Nat, n \in S PROVE n + 1 \in S
  <2> SUFFICES ASSUME n + 1 <= Len(all) PROVE f[n + 1] \in Seq(Byte)
    OBVIOUS
  <2>1. all[n + 1] \in Byte
    OBVIOUS
  <2>2. f[n + 1] = f[n] \o Stuffed(all[n + 1])
    <3>1. Len(all) \in Nat
      OBVIOUS
    <3> QED BY <3>1, CodeStep
  <2> QED BY <1>2, <2>1, <2>2, StuffedType
<1> HIDE DEF S
<1>3. \A n \in Nat : n \in S
  BY <1>1, <1>2, Induct
<1> QED BY <1>3 DEF S

-----------------------------------------------------------------------------
(* BusDecode, one character after the other. *)
IsAfter(f, chars, n) ==
  f = [i \in 0 .. n |-> IF i = 0 THEN Start ELSE Consume(f[i - 1], chars[i])]

LEMMA AfterExists == ASSUME NEW chars PROVE \A n \in Nat : \E f : IsAfter(f, chars, n)
<1> DEFINE S == {n \in Nat : \E f : IsAfter(f, chars, n)}
<1>1. 0 \in S
  <2>1. IsAfter([i \in 0 .. 0 |-> Start], chars, 0)
    BY DEF IsAfter
  <2> QED BY <2>1
<1>2. ASSUME NEW n \in Nat, n \in S PROVE n + 1 \in S
  <2>1. PICK f : IsAfter(f, chars, n)
    BY <1>2
  <2> DEFINE g == [i \in 0 .. n + 1 |-> IF i <= n THEN f[i] ELSE Consume(f[n], chars[n + 1])]
  <2>2. IsAfter(g, chars, n + 1)
    BY <2>1 DEF IsAfter
  <2> QED BY <2>2
<1> HIDE DEF S
<1>3. \A n \in Nat : n \in S
  BY <1>1, <1>2, Induct
<1> QED BY <1>3 DEF S

LEMMA DecodedIs ==
  ASSUME NEW chars, Len(chars) \in Nat
  PROVE  \E f : IsAfter(f, chars, Len(chars)) /\ Decoded(chars) = f[Len(chars)]
<1> DEFINE F == CHOOSE f : IsAfter(f, chars, Len(chars))
<1>1. IsAfter(F, chars, Len(chars))
  BY AfterExists
<1>2. Decoded(chars) = F[Len(chars)]
  BY DEF Decoded, IsAfter
<1> QED BY <1>1, <1>2

-----------------------------------------------------------------------------
(* The receive queue. *)
FifoTypeOK ==
  arrived \in Nat /\ q \in Seq(Nat) /\ held \in Seq(Nat) /\ taken \in Seq(Nat)

(* Numbered as the characters arrived. *)
Numbered(s, n) == Increasing(s, n) /\ \A i \in 1 .. Len(s) : s[i] > 0

FifoInv == FifoTypeOK /\ Numbered(All, arrived)

Prefix(t, s) == Len(t) <= Len(s) /\ \A i \in 1 .. Len(t) : t[i] = s[i]

(* A prefix of increasing numbers is increasing. *)
LEMMA PrefixNumbered ==
  ASSUME NEW s \in Seq(Nat), NEW t \in Seq(Nat), NEW n \in Nat,
         Numbered(s, n), Prefix(t, s)
  PROVE  Numbered(t, n)
<1>1. Len(t) \in Nat /\ Len(s) \in Nat /\ 1 .. Len(t) \subseteq 1 .. Len(s)
  BY DEF Prefix
<1>2. \A i \in 1 .. Len(t) : t[i] = s[i] /\ s[i] <= n /\ s[i] > 0
  BY <1>1 DEF Prefix, Numbered, Increasing
<1>3. ASSUME NEW i \in 1 .. Len(t), NEW j \in 1 .. i - 1 PROVE t[j] < t[i]
  <2>1. j \in 1 .. Len(t)
    BY <1>1
  <2>2. s[j] < s[i]
    BY <1>1 DEF Numbered, Increasing
  <2> QED BY <1>2, <2>1, <2>2
<1> QED BY <1>2, <1>3 DEF Numbered, Increasing

LEMMA AppendNumbered ==
  ASSUME NEW s \in Seq(Nat), NEW n \in Nat, Numbered(s, n)
  PROVE  Numbered(Append(s, n + 1), n + 1)
BY DEF Numbered, Increasing

(* What fits into the queue is a prefix of what is put there. *)
LEMMA FittingPrefix ==
  ASSUME NEW s \in Seq(Nat)
  PROVE  Fitting(s) \in Seq(Nat) /\ Prefix(Fitting(s), s)
<1>1. /\ Len(s) \in Nat /\ Cap \in Nat
  BY CapAssumption
<1>2. CASE Len(s) > Cap
  <2>1. Fitting(s) = SubSeq(s, 1, Cap)
    BY <1>2 DEF Fitting
  <2> QED BY <1>1, <1>2, <2>1 DEF Prefix
<1>3. CASE ~(Len(s) > Cap)
  <2>1. Fitting(s) = SubSeq(s, 1, Len(s))
    BY <1>3 DEF Fitting
  <2> QED BY <1>1, <2>1 DEF Prefix
<1> QED BY <1>2, <1>3

(* Behind the same characters, a prefix makes a prefix. *)
LEMMA PrefixBehind ==
  ASSUME NEW s \in Seq(Nat), NEW t \in Seq(Nat), NEW u \in Seq(Nat), Prefix(t, s)
  PROVE  Prefix(u \o t, u \o s)
<1>1. /\ u \o t \in Seq(Nat) /\ Len(u \o t) = Len(u) + Len(t)
      /\ u \o s \in Seq(Nat) /\ Len(u \o s) = Len(u) + Len(s)
      /\ Len(u) \in Nat /\ Len(t) \in Nat /\ Len(s) \in Nat
  BY ConcatAt
<1>2. Len(t) <= Len(s) /\ \A i \in 1 .. Len(t) : t[i] = s[i]
  BY DEF Prefix
<1>3. ASSUME NEW i \in 1 .. Len(u \o t) PROVE (u \o t)[i] = (u \o s)[i]
  <2>1. CASE i <= Len(u)
    <3>1. i \in 1 .. Len(u)
      BY <1>1, <2>1
    <3> QED BY <3>1, ConcatAt
  <2>2. CASE i > Len(u)
    <3>1. i - Len(u) \in 1 .. Len(t) /\ i = Len(u) + (i - Len(u))
      BY <1>1, <2>2
    <3>2. PICK k \in 1 .. Len(t) : i = Len(u) + k
      BY <3>1
    <3>3. k \in 1 .. Len(s)
      BY <1>1, <1>2
    <3>4. (u \o t)[Len(u) + k] = t[k] /\ (u \o s)[Len(u) + k] = s[k]
      BY <3>3, ConcatAt
    <3> QED BY <1>2, <3>2, <3>4
  <2>3. i <= Len(u) \/ i > Len(u)
    BY <1>1
  <2> QED BY <2>1, <2>2, <2>3, Zenon
<1>4. Len(u \o t) <= Len(u \o s)
  BY <1>1, <1>2
<1> QED BY <1>3, <1>4 DEF Prefix

LEMMA Associative ==
  ASSUME NEW s \in Seq(Nat), NEW t \in Seq(Nat), NEW u \in Seq(Nat)
  PROVE  (s \o t) \o u = s \o (t \o u)
BY ConcatAssociative, SMTT(30)

LEMMA AppendBehind ==
  ASSUME NEW s \in Seq(Nat), NEW u \in Seq(Nat), NEW e \in Nat
  PROVE  Append(u \o s, e) = u \o Append(s, e)
<1> DEFINE a == Append(u \o s, e)
           b == u \o Append(s, e)
<1>1. u \o s \in Seq(Nat) /\ Append(s, e) \in Seq(Nat)
  OBVIOUS
<1>2. a \in Seq(Nat) /\ b \in Seq(Nat) /\ Len(a) = Len(b)
  BY <1>1
<1>3. \A i \in 1 .. Len(a) : a[i] = b[i]
  BY <1>1
<1> QED BY <1>2, <1>3, SeqEqual

(* A sequence is its first k elements and the others. *)
LEMMA SplitSeq ==
  ASSUME NEW s \in Seq(Nat), NEW k \in 0 .. Len(s)
  PROVE  /\ SubSeq(s, 1, k) \in Seq(Nat) /\ SubSeq(s, k + 1, Len(s)) \in Seq(Nat)
         /\ s = SubSeq(s, 1, k) \o SubSeq(s, k + 1, Len(s))
<1>1. Len(s) \in Nat /\ 1 \in 1 .. Len(s) + 1 /\ k \in 1 - 1 .. Len(s) /\ Len(s) \in k .. Len(s)
  OBVIOUS
<1>2. SubSeq(s, 1, k) \o SubSeq(s, k + 1, Len(s)) = SubSeq(s, 1, Len(s))
  BY <1>1, ConcatAdjacentSubSeq
<1>3. SubSeq(s, 1, Len(s)) = s
  BY SubSeqFull
<1>4. SubSeq(s, 1, k) \in Seq(Nat)
  BY <1>1
<1>5. SubSeq(s, k + 1, Len(s)) \in Seq(Nat)
  BY <1>1
<1> QED BY <1>2, <1>3, <1>4, <1>5

LEMMA PutOrdered == FifoInv /\ Put => FifoInv'
<1> SUFFICES ASSUME FifoInv, Put PROVE FifoInv'
  OBVIOUS
<1> USE DEF FifoInv, FifoTypeOK
<1>1. /\ arrived' = arrived + 1 /\ held' = held /\ taken' = taken
      /\ q' = Fitting(Append(q, arrived + 1))
  BY DEF Put
<1>2. PICK front \in Seq(Nat) : front = taken \o held
  <2>1. taken \o held \in Seq(Nat)
    OBVIOUS
  <2> QED BY <2>1, Zenon
<1>3. PICK next \in Seq(Nat) : next = Append(q, arrived + 1)
  <2>1. Append(q, arrived + 1) \in Seq(Nat)
    OBVIOUS
  <2> QED BY <2>1, Zenon
<1>4. q' \in Seq(Nat) /\ Prefix(q', next)
  BY <1>1, <1>3, FittingPrefix
<1>5. All = front \o q /\ All' = front \o q' /\ All \in Seq(Nat)
  BY <1>1, <1>2 DEF All
<1>6. Numbered(Append(All, arrived + 1), arrived + 1)
  BY <1>5, AppendNumbered
<1>7. Append(All, arrived + 1) = front \o next
  <2>1. arrived + 1 \in Nat
    OBVIOUS
  <2> QED BY <1>3, <1>5, <2>1, AppendBehind
<1>8. Prefix(All', front \o next)
  BY <1>4, <1>5, PrefixBehind
<1>9. front \o next \in Seq(Nat) /\ front \o q' \in Seq(Nat)
  BY <1>4
<1>10. Numbered(All', arrived + 1)
  <2>1. Numbered(front \o next, arrived + 1) /\ Prefix(front \o q', front \o next)
    BY <1>5, <1>6, <1>7, <1>8
  <2>2. Numbered(front \o q', arrived + 1)
    <3>1. arrived + 1 \in Nat
      OBVIOUS
    <3> QED BY ONLY <1>9, <2>1, <3>1, PrefixNumbered
  <2> QED BY <1>5, <2>2
<1> QED BY <1>1, <1>4, <1>10

LEMMA TakeOrdered == FifoInv /\ Take => FifoInv'
<1> SUFFICES ASSUME FifoInv, Take PROVE FifoInv'
  OBVIOUS
<1> USE DEF FifoInv, FifoTypeOK
<1>1. PICK k \in 1 .. Len(q) : held' = SubSeq(q, 1, k) /\ q' = SubSeq(q, k + 1, Len(q))
  BY DEF Take
<1>2. arrived' = arrived /\ taken' = taken /\ held = <<>>
  BY DEF Take
<1>3. held' \in Seq(Nat) /\ q' \in Seq(Nat) /\ q = held' \o q'
  <2>1. k \in 0 .. Len(q)
    OBVIOUS
  <2> QED BY <1>1, <2>1, SplitSeq
<1>4. All' = All
  <2>1. (taken \o held') \o q' = taken \o (held' \o q')
    BY <1>3, Associative
  <2>2. taken \o held = taken
    BY <1>2
  <2> QED BY <1>2, <1>3, <2>1, <2>2 DEF All
<1> QED BY <1>2, <1>3, <1>4

LEMMA PutBackOrdered == FifoInv /\ PutBack => FifoInv'
<1> SUFFICES ASSUME FifoInv, PutBack PROVE FifoInv'
  OBVIOUS
<1> USE DEF FifoInv, FifoTypeOK
<1>1. PICK k \in 0 .. Len(held) :
        /\ taken' = taken \o SubSeq(held, 1, k)
        /\ q' = Fitting(SubSeq(held, k + 1, Len(held)) \o q)
  BY DEF PutBack
<1>2. arrived' = arrived /\ held' = <<>>
  BY DEF PutBack
<1> DEFINE used == SubSeq(held, 1, k)
           rest == SubSeq(held, k + 1, Len(held))
<1>3. used \in Seq(Nat) /\ rest \in Seq(Nat) /\ held = used \o rest
  BY SplitSeq
<1> HIDE DEF used, rest
<1>4. taken' = taken \o used /\ q' = Fitting(rest \o q)
  BY <1>1 DEF used, rest
<1>5. rest \o q \in Seq(Nat) /\ taken' \in Seq(Nat)
  BY <1>3, <1>4
<1>6. q' \in Seq(Nat) /\ Prefix(q', rest \o q)
  BY <1>4, <1>5, FittingPrefix
<1>7. All = taken' \o (rest \o q)
  <2>1. taken \o held = taken' \o rest
    BY <1>3, <1>4, Associative
  <2>2. (taken' \o rest) \o q = taken' \o (rest \o q)
    <3>1. taken' \in Seq(Nat) /\ rest \in Seq(Nat) /\ q \in Seq(Nat)
      BY <1>3, <1>5
    <3> QED BY ONLY <3>1, Associative
  <2> QED BY <2>1, <2>2 DEF All
<1>8. All' = taken' \o q'
  BY <1>2, <1>5, <1>6 DEF All
<1>9. /\ Prefix(All', All) /\ All \in Seq(Nat) /\ All' \in Seq(Nat)
  <2>1. Prefix(taken' \o q', taken' \o (rest \o q))
    BY <1>5, <1>6, PrefixBehind
  <2> QED BY <1>5, <1>6, <1>7, <1>8, <2>1
<1>10. Numbered(All', arrived)
  BY <1>9, PrefixNumbered
<1> QED BY <1>2, <1>5, <1>6, <1>10

LEMMA FifoStep == FifoInv /\ [FifoNext]_fifoVars => FifoInv'
<1> SUFFICES ASSUME FifoInv, [FifoNext]_fifoVars PROVE FifoInv'
  OBVIOUS
<1>1. CASE UNCHANGED fifoVars
  BY <1>1 DEF fifoVars, FifoInv, FifoTypeOK, All
<1> QED BY <1>1, PutOrdered, TakeOrdered, PutBackOrdered DEF FifoNext

LEMMA FifoStarts == FifoInit => FifoInv
BY DEF FifoInit, FifoInv, FifoTypeOK, All, Numbered, Increasing

(* The decoder sees every character at most once and in the order of arrival,  *)
(* whatever it puts back and however often the queue is full.                  *)
THEOREM FifoKeepsOrder == FifoSpec => []Ordered
<1>1. FifoInit => FifoInv
  BY FifoStarts
<1>2. FifoInv /\ [FifoNext]_fifoVars => FifoInv'
  BY FifoStep
<1>3. FifoInv => Ordered
  BY DEF FifoInv, Numbered, Ordered
<1> QED BY <1>1, <1>2, <1>3, PTL DEF FifoSpec

(* Every step of BusRx is one of the queue, or leaves it alone. *)
LEMMA QueueStep == [Next]_vars => [FifoNext]_fifoVars
BY DEF Next, vars, FifoNext, BusSend, Transmit, Disturb, Arrive, BusCheck, BusDecode

(* Ordered, of the receive queue with the decoder that uses it. *)
THEOREM DecoderKeepsOrder == Spec => []Ordered
<1>1. Init => FifoInv
  BY FifoStarts DEF Init
<1>2. FifoInv /\ [Next]_vars => FifoInv'
  BY QueueStep, FifoStep
<1>3. FifoInv => Ordered
  BY DEF FifoInv, Numbered, Ordered
<1> QED BY <1>1, <1>2, <1>3, PTL DEF Spec

-----------------------------------------------------------------------------
(* L2StateMachine: what it has taken of a telegram. *)
(* The decoder with the local variables of BusDecode. *)
DecoderType ==
  [l1 : {"WAIT_FOR_STX", "RX_MSG", "WAIT_FOR_CHECKSUM"},
   l2 : {"WAIT_FOR_SENDER_ADDR", "WAIT_FOR_TYPE", "WAIT_FOR_MSG"},
   sum : Byte, stuff : BOOLEAN, last : Byte, msg : Seq(Byte),
   rc : {"BUS_MSG_RXING", "BUS_MSG_OK", "BUS_MSG_ERROR"}, used : Nat, skip : BOOLEAN]

(* A telegram has the length that BusSend gives it. *)
Whole(msg) ==
  /\ Len(msg) > 1 /\ Known(msg[2]) /\ Len(msg) % 256 = LengthOf(msg)
  /\ SizeOf(msg[2]).kind # "const" => Len(msg) > SizeOf(msg[2]).offset

(* The first n characters of one with the last index that is known of it. *)
Partial(msg, last) ==
  LET n == Len(msg)
      size == SizeOf(msg[2])
  IN  /\ n > 1 /\ Known(msg[2])
      /\ \/ size.kind = "const" /\ last = size.len - 1 /\ n <= last
         \/ size.kind # "const" /\ n <= size.offset /\ last = 0
         \/ /\ size.kind = "devType" /\ n > size.offset /\ msg[size.offset + 1] \in DOMAIN size.lens
            /\ last = size.lens[msg[size.offset + 1]] - 1 /\ n <= last
         \/ /\ size.kind = "direct" /\ n > size.offset
            /\ last = (msg[size.offset + 1] + size.add - 1) % 256
            /\ n <= last \/ last < size.offset

(* The decoder has taken the characters p of a telegram. *)
Holds(d, p) ==
  \/ d.l1 = "RX_MSG" /\ d.l2 = "WAIT_FOR_SENDER_ADDR" /\ p = <<>>
  \/ d.l1 = "RX_MSG" /\ d.l2 = "WAIT_FOR_TYPE" /\ p = d.msg /\ Len(p) = 1
  \/ d.l1 = "RX_MSG" /\ d.l2 = "WAIT_FOR_MSG" /\ p = d.msg /\ Partial(p, d.last)
  \/ d.l1 = "WAIT_FOR_CHECKSUM" /\ d.l2 = "WAIT_FOR_SENDER_ADDR" /\ p = d.msg /\ Whole(p)

(* What L2StateMachine leaves alone. *)
Outer(e, d) == e.used = d.used /\ e.skip = d.skip /\ e.stuff = d.stuff /\ e.sum = d.sum

LEMMA AppendAt ==
  ASSUME NEW m \in Seq(Byte), NEW ch \in Byte
  PROVE  /\ Append(m, ch) \in Seq(Byte) /\ Len(Append(m, ch)) = Len(m) + 1
         /\ Append(m, ch)[Len(m) + 1] = ch
         /\ \A i \in 1 .. Len(m) : Append(m, ch)[i] = m[i]
OBVIOUS

LEMMA L2TypeRight ==
  ASSUME NEW d \in DecoderType, NEW ch \in Byte, NEW e, e = L2Type(d, ch),
         d.rc = "BUS_MSG_RXING", d.l1 = "RX_MSG", Len(d.msg) = 1
  PROVE  /\ e \in DecoderType /\ Outer(e, d) /\ e.rc # "BUS_MSG_OK"
         /\ e.rc = "BUS_MSG_RXING" => Holds(e, Append(d.msg, ch))
<1> DEFINE f == [d EXCEPT !.msg = Append(@, ch), !.last = 0]
           p == Append(d.msg, ch)
<1>1. p \in Seq(Byte) /\ Len(p) = 2 /\ p[2] = ch
  <2>1. d.msg \in Seq(Byte)
    BY DEF DecoderType
  <2>2. p \in Seq(Byte) /\ Len(p) = Len(d.msg) + 1 /\ p[Len(d.msg) + 1] = ch
    BY <2>1, AppendAt
  <2> HIDE DEF p
  <2>3. p[1 + 1] = ch /\ Len(p) = 1 + 1
    BY <2>2, Zenon
  <2> QED BY <2>2, <2>3
<1>2. f \in DecoderType /\ Outer(f, d) /\ f.rc = "BUS_MSG_RXING" /\ f.l1 = "RX_MSG" /\ f.msg = p /\ f.last = 0
  <2>1. 0 \in Byte
    BY DEF Byte
  <2> QED BY <1>1, <2>1 DEF DecoderType, Outer
<1> HIDE DEF f, p
<1>3. CASE ~Known(ch)
  <2>1. e = Error(f)
    BY <1>3 DEF L2Type, f
  <2> QED BY <1>2, <2>1 DEF Error, DecoderType, Outer
<1>4. CASE Known(ch) /\ SizeOf(ch).kind = "const"
  <2>1. PICK len \in 2 .. 255 : SizeOf(ch) = Const(len)
    BY <1>4, TableSized DEF Sized, Direct
  <2> DEFINE g == [f EXCEPT !.last = len - 1]
  <2>2. SizeOf(ch).len = len
    BY <2>1 DEF Const
  <2>3. e = IF g.last = 1 THEN Complete(g) ELSE InProgress(g)
    BY <1>4, <2>2 DEF L2Type, f
  <2>4. g \in DecoderType /\ g.last = len - 1
    <3>1. len - 1 \in Byte
      BY DEF Byte
    <3> QED BY <1>2, <3>1 DEF DecoderType
  <2>5. Outer(g, d) /\ g.rc = "BUS_MSG_RXING" /\ g.l1 = "RX_MSG" /\ g.msg = p
    BY <1>2 DEF Outer, DecoderType
  <2> HIDE DEF g
  <2>6. CASE len = 2
    <3>1. e = Complete(g)
      BY <2>3, <2>4, <2>6
    <3>2. LengthOf(p) = 2
      BY <1>1, <1>4, <2>2, <2>6 DEF LengthOf
    <3>3. Whole(p)
      BY <1>1, <1>4, <3>2 DEF Whole
    <3>4. /\ e \in DecoderType /\ Outer(e, g) /\ e.rc = g.rc /\ e.msg = g.msg
          /\ e.l1 = "WAIT_FOR_CHECKSUM" /\ e.l2 = "WAIT_FOR_SENDER_ADDR"
      BY <2>4, <3>1 DEF Complete, DecoderType, Outer
    <3> QED BY <2>5, <3>3, <3>4 DEF Outer, Holds, p
  <2>7. CASE len # 2
    <3>1. e = InProgress(g)
      BY <2>3, <2>4, <2>7
    <3>2. Partial(p, len - 1)
      <4>1. /\ Len(p) = 2 /\ Known(p[2]) /\ SizeOf(p[2]).kind = "const"
            /\ SizeOf(p[2]).len = len
        BY <1>1, <1>4, <2>2, Zenon
      <4>2. 2 <= len - 1 /\ 2 > 1
        BY <2>7
      <4>3. Len(p) > 1 /\ Len(p) <= len - 1
        BY ONLY <4>1, <4>2
      <4> QED BY <4>1, <4>3, Zenon DEF Partial
    <3>3. /\ e \in DecoderType /\ Outer(e, g) /\ e.rc = g.rc /\ e.msg = g.msg /\ e.last = g.last
          /\ e.l1 = g.l1 /\ e.l2 = "WAIT_FOR_MSG"
      BY <2>4, <3>1 DEF InProgress, DecoderType, Outer
    <3> QED BY <2>4, <2>5, <3>2, <3>3 DEF Outer, Holds, p
  <2> QED BY <2>6, <2>7
<1>5. CASE Known(ch) /\ SizeOf(ch).kind # "const"
  <2>1. e = InProgress(f)
    BY <1>5 DEF L2Type, f
  <2>2. SizeOf(ch).offset \in 3 .. 5
    BY <1>5, TableSized DEF Sized, Const, Direct
  <2>3. Partial(p, 0)
    BY <1>1, <1>5, <2>2 DEF Partial
  <2>4. /\ e \in DecoderType /\ Outer(e, f) /\ e.rc = f.rc /\ e.msg = f.msg /\ e.last = f.last
        /\ e.l1 = f.l1 /\ e.l2 = "WAIT_FOR_MSG"
    BY <1>2, <2>1 DEF InProgress, DecoderType, Outer
  <2> QED BY <1>2, <2>3, <2>4 DEF Outer, Holds, p
<1> QED BY <1>3, <1>4, <1>5

LEMMA NextModulo ==
  ASSUME NEW a \in Nat, NEW b \in Nat, a + b > 0, NEW n, n = (a + b - 1) % 256
  PROVE  (n + 1) % 256 = (a + b) % 256
OBVIOUS

LEMMA StillLess == ASSUME NEW a \in Nat, NEW b \in Byte, a <= b, a # b PROVE a + 1 <= b
BY DEF Byte

LEMMA L2MsgRight ==
  ASSUME NEW d \in DecoderType, NEW ch \in Byte, NEW e, e = L2Msg(d, ch),
         d.rc = "BUS_MSG_RXING", d.l1 = "RX_MSG", d.l2 = "WAIT_FOR_MSG", Partial(d.msg, d.last)
  PROVE  /\ e \in DecoderType /\ Outer(e, d) /\ e.rc # "BUS_MSG_OK"
         /\ e.rc = "BUS_MSG_RXING" => Holds(e, Append(d.msg, ch))
<1> DEFINE f == [d EXCEPT !.msg = Append(@, ch)]
           p == Append(d.msg, ch)
           n == Len(d.msg)
           size == SizeOf(d.msg[2])
<1>1. /\ d.msg \in Seq(Byte) /\ n \in Nat /\ n > 1 /\ d.last \in Byte
      /\ p \in Seq(Byte) /\ Len(p) = n + 1 /\ p[n + 1] = ch /\ \A i \in 1 .. n : p[i] = d.msg[i]
  <2>1. d.msg \in Seq(Byte) /\ d.last \in Byte
    BY DEF DecoderType
  <2> QED BY <2>1, AppendAt DEF Partial
<1>2. f \in DecoderType /\ Outer(f, d) /\ f.rc = "BUS_MSG_RXING" /\ f.l1 = "RX_MSG" /\ f.l2 = d.l2
      /\ f.msg = p /\ f.last = d.last
  BY <1>1 DEF DecoderType, Outer
<1>3. p[2] = d.msg[2] /\ Known(p[2]) /\ SizeOf(p[2]) = size
  BY <1>1 DEF Partial
<1>4. e = IF n = d.last THEN Complete(f)
          ELSE IF size.kind = "devType" /\ n = size.offset
          THEN IF ch \in DOMAIN size.lens THEN [f EXCEPT !.last = size.lens[ch] - 1] ELSE Error(f)
          ELSE IF size.kind = "direct" /\ n = size.offset
          THEN LET g == [f EXCEPT !.last = (ch + size.add - 1) % 256]
               IN  IF g.last = n THEN Complete(g) ELSE g
          ELSE f
  BY DEF L2Msg
<1>5. /\ size.kind = "const" => size.len \in 2 .. 255
      /\ size.kind # "const" => size.offset \in 3 .. 5 /\ size.offset > 1
      /\ size.kind = "devType" => \A x \in DOMAIN size.lens : size.lens[x] \in 5 .. 255
      /\ size.kind = "devType" => size.offset = 3
      /\ size.kind = "direct" => size.add = size.offset + 1
      /\ size.kind \in {"const", "devType", "direct"}
  <2>1. Sized(size)
    BY <1>3, TableSized
  <2> HIDE DEF size
  <2> QED BY <2>1, SizedParts
<1>6. \/ size.kind = "const" /\ d.last = size.len - 1 /\ n <= d.last
      \/ size.kind # "const" /\ n <= size.offset /\ d.last = 0
      \/ /\ size.kind = "devType" /\ n > size.offset /\ d.msg[size.offset + 1] \in DOMAIN size.lens
         /\ d.last = size.lens[d.msg[size.offset + 1]] - 1 /\ n <= d.last
      \/ /\ size.kind = "direct" /\ n > size.offset
         /\ d.last = (d.msg[size.offset + 1] + size.add - 1) % 256
         /\ n <= d.last \/ d.last < size.offset
  BY DEF Partial
<1> HIDE DEF f, p, n, size
<1>7. \A g \in DecoderType : g.rc = "BUS_MSG_RXING" /\ g.msg = p /\ Outer(g, d) /\ Whole(p) =>
        LET c == Complete(g)
        IN  c \in DecoderType /\ Outer(c, d) /\ c.rc # "BUS_MSG_OK" /\ Holds(c, p)
  BY DEF Complete, DecoderType, Outer, Holds
<1>8. \A g \in DecoderType : g.msg = p /\ g.l1 = "RX_MSG" /\ g.l2 = d.l2 /\ Partial(p, g.last) => Holds(g, p)
  BY DEF Holds
<1>9. CASE n = d.last
  <2>1. Whole(p)
    <3>1. CASE size.kind = "const"
      <4>1. n + 1 = size.len /\ LengthOf(p) = size.len
        <5>1. d.last = size.len - 1
          BY <1>6, <3>1
        <5>2. LengthOf(p) = size.len
          BY <1>3, <3>1 DEF LengthOf
        <5>3. size.len \in 2 .. 255
          BY <1>5, <3>1
        <5> QED BY <1>9, <5>1, <5>2, <5>3
      <4>2. size.len % 256 = size.len
        BY <1>5, <3>1
      <4>3. Len(p) = size.len /\ Len(p) > 1
        BY <1>1, <4>1
      <4> QED BY <1>3, <3>1, <4>1, <4>2, <4>3 DEF Whole
    <3>2. CASE size.kind = "devType"
      <4>1. /\ n > 3 /\ d.msg[3 + 1] \in DOMAIN size.lens
            /\ n + 1 = size.lens[d.msg[3 + 1]]
        <5>1. size.offset = 3 /\ d.last # 0
          BY <1>1, <1>5, <1>9, <3>2
        <5>2. /\ n > 3 /\ d.msg[3 + 1] \in DOMAIN size.lens
              /\ d.last = size.lens[d.msg[3 + 1]] - 1
          BY <1>6, <3>2, <5>1
        <5>3. size.lens[d.msg[3 + 1]] \in 5 .. 255
          BY <1>5, <3>2, <5>2
        <5>4. n = size.lens[d.msg[3 + 1]] - 1
          BY <1>9, <5>2
        <5>5. PICK len \in 5 .. 255 : len = size.lens[d.msg[3 + 1]]
          BY <5>3
        <5>6. n = len - 1
          BY <5>4, <5>5, Zenon
        <5>7. n + 1 = len
          BY ONLY len \in 5 .. 255, <5>6
        <5> QED BY <5>2, <5>5, <5>7, Zenon
      <4>2. p[3 + 1] = d.msg[3 + 1]
        BY <1>1, <4>1
      <4>3. LengthOf(p) = n + 1 /\ n + 1 \in 5 .. 255
        BY <1>3, <1>5, <3>2, <4>1, <4>2 DEF LengthOf
      <4>4. Len(p) > size.offset
        BY <1>1, <1>5, <3>2, <4>1
      <4>5. Len(p) > 1 /\ Len(p) % 256 = LengthOf(p)
        <5>1. Len(p) = n + 1
          BY <1>1
        <5>2. PICK m \in 5 .. 255 : m = n + 1
          BY <4>3
        <5>3. m > 1 /\ m % 256 = m
          BY ONLY m \in 5 .. 255
        <5> QED BY <4>3, <5>1, <5>2, <5>3, Zenon
      <4>6. Len(p) > SizeOf(p[2]).offset
        BY <1>3, <4>4, Zenon
      <4> QED BY <1>3, <4>5, <4>6, Zenon DEF Whole
    <3>3. CASE size.kind = "direct"
      <4>1. n > size.offset /\ n = (d.msg[size.offset + 1] + size.add - 1) % 256
        BY <1>1, <1>5, <1>6, <1>9, <3>3
      <4>2. size.offset + 1 \in 1 .. n
        BY <1>1, <1>5, <3>3, <4>1
      <4>3. p[size.offset + 1] = d.msg[size.offset + 1] /\ d.msg[size.offset + 1] \in Byte
        <5>1. d.msg[size.offset + 1] \in Byte
          BY <1>1, <4>2 DEF n
        <5> QED BY <1>1, <4>2, <5>1
      <4>4. LengthOf(p) = (d.msg[size.offset + 1] + size.add) % 256
        BY <1>3, <3>3, <4>3 DEF LengthOf
      <4>5. (n + 1) % 256 = (d.msg[size.offset + 1] + size.add) % 256
        <5>1. d.msg[size.offset + 1] \in Nat
          BY <4>3 DEF Byte
        <5>2. size.add \in Nat /\ size.add > 0
          BY <1>5, <3>3
        <5>3. d.msg[size.offset + 1] + size.add > 0
          BY <5>1, <5>2
        <5>4. n = (d.msg[size.offset + 1] + size.add - 1) % 256
          BY <4>1
        <5> QED BY ONLY <5>1, <5>2, <5>3, <5>4, NextModulo
      <4>6. Len(p) > size.offset
        BY <1>1, <1>5, <3>3, <4>1
      <4> QED BY <1>1, <1>3, <4>4, <4>5, <4>6 DEF Whole
    <3> QED BY <1>5, <3>1, <3>2, <3>3
  <2>2. e = Complete(f)
    BY <1>4, <1>9
  <2> QED BY <1>2, <1>7, <2>1, <2>2 DEF p
<1>10. CASE n # d.last /\ size.kind = "devType" /\ n = size.offset
  <2>1. CASE ch \in DOMAIN size.lens
    <3>1. size.lens[ch] - 1 \in Byte /\ size.lens[ch] - 1 >= 4
      BY <1>5, <1>10, <2>1 DEF Byte
    <3>2. e = [f EXCEPT !.last = size.lens[ch] - 1]
      BY <1>4, <1>10, <2>1
    <3>3. /\ e \in DecoderType /\ Outer(e, d) /\ e.rc = "BUS_MSG_RXING" /\ e.l1 = "RX_MSG" /\ e.l2 = d.l2
          /\ e.msg = p /\ e.last = size.lens[ch] - 1
      BY <1>2, <3>1, <3>2 DEF DecoderType, Outer
    <3>4. Partial(p, e.last)
      BY <1>1, <1>3, <1>5, <1>10, <2>1, <3>1, <3>3 DEF Partial
    <3> QED BY <1>8, <3>3, <3>4 DEF p
  <2>2. CASE ch \notin DOMAIN size.lens
    <3>1. e = Error(f)
      BY <1>4, <1>10, <2>2
    <3> QED BY <1>2, <3>1 DEF Error, DecoderType, Outer
  <2> QED BY <2>1, <2>2
<1>11. CASE n # d.last /\ size.kind = "direct" /\ n = size.offset
  <2> DEFINE g == [f EXCEPT !.last = (ch + size.add - 1) % 256]
  <2>1. (ch + size.add - 1) % 256 \in Byte
    BY <1>5, <1>11 DEF Byte
  <2>2. /\ g \in DecoderType /\ Outer(g, d) /\ g.rc = "BUS_MSG_RXING" /\ g.l1 = "RX_MSG" /\ g.l2 = d.l2
        /\ g.msg = p /\ g.last = (ch + size.add - 1) % 256
    BY SMTT(30), <1>2, <2>1 DEF DecoderType, Outer
  <2>3. e = IF g.last = n THEN Complete(g) ELSE g
    BY <1>4, <1>11
  <2> HIDE DEF g
  <2>4. CASE g.last = n
    <3>1. LengthOf(p) = (ch + size.add) % 256
      BY <1>1, <1>3, <1>11 DEF LengthOf
    <3>2. (n + 1) % 256 = (ch + size.add) % 256
      BY <1>5, <1>11, <2>2, <2>4, NextModulo DEF Byte
    <3>3. Whole(p)
      <4>1. Len(p) > size.offset
        BY <1>1, <1>5, <1>11
      <4> QED BY <1>1, <1>3, <3>1, <3>2, <4>1 DEF Whole
    <3> QED BY <1>7, <2>2, <2>3, <2>4, <3>3 DEF p
  <2>5. CASE g.last # n
    <3>1. n + 1 <= g.last \/ g.last < size.offset
      BY <1>1, <1>5, <1>11, <2>1, <2>2, <2>5 DEF Byte
    <3>2. Partial(p, g.last)
      BY <1>1, <1>3, <1>5, <1>11, <2>2, <3>1 DEF Partial
    <3> QED BY <1>8, <2>2, <2>3, <2>5, <3>2 DEF p
  <2> QED BY <2>4, <2>5
<1>12. CASE n # d.last /\ (size.kind = "const" \/ n # size.offset)
  <2>1. e = f
    BY <1>4, <1>5, <1>12
  <2>2. Partial(p, d.last)
    <3>1. CASE size.kind = "const"
      <4>1. d.last = size.len - 1 /\ n <= d.last
        BY <1>6, <3>1
      <4>2. n + 1 <= d.last
        BY <1>1, <1>12, <4>1, StillLess
      <4> QED BY <1>1, <1>3, <3>1, <4>1, <4>2 DEF Partial
    <3>2. CASE size.kind # "const" /\ n < size.offset
      BY <1>1, <1>3, <1>5, <1>6, <1>12, <3>2 DEF Partial
    <3>3. CASE size.kind # "const" /\ n > size.offset
      <4>1. p[size.offset + 1] = d.msg[size.offset + 1]
        BY <1>1, <1>5, <3>3
      <4>2. n + 1 > size.offset
        BY <1>1, <1>5, <3>3
      <4>3. CASE size.kind = "devType"
        <5>1. /\ d.msg[size.offset + 1] \in DOMAIN size.lens
              /\ d.last = size.lens[d.msg[size.offset + 1]] - 1 /\ n <= d.last
          BY <1>1, <1>5, <1>6, <3>3, <4>3
        <5>2. n + 1 <= d.last
          BY <1>1, <1>12, <5>1, StillLess
        <5> QED BY <1>1, <1>3, <4>1, <4>2, <4>3, <5>1, <5>2 DEF Partial
      <4>4. CASE size.kind = "direct"
        <5>1. /\ d.last = (d.msg[size.offset + 1] + size.add - 1) % 256
              /\ n <= d.last \/ d.last < size.offset
          BY <1>1, <1>5, <1>6, <3>3, <4>4
        <5>2. n + 1 <= d.last \/ d.last < size.offset
          BY <1>1, <1>12, <5>1, StillLess
        <5> QED BY <1>1, <1>3, <4>1, <4>2, <4>4, <5>1, <5>2 DEF Partial
      <4> QED BY <1>5, <3>3, <4>3, <4>4
    <3> QED BY <1>1, <1>5, <1>12, <3>1, <3>2, <3>3
  <2> QED BY <1>2, <1>8, <2>1, <2>2 DEF p
<1> QED BY <1>5, <1>9, <1>10, <1>11, <1>12

-----------------------------------------------------------------------------
(* The decoder in a telegram. *)
LEMMA L2Right ==
  ASSUME NEW d \in DecoderType, NEW ch \in Byte, NEW p, NEW e, e = L2StateMachine(d, ch),
         d.rc = "BUS_MSG_RXING", d.l1 = "RX_MSG", Holds(d, p)
  PROVE  /\ e \in DecoderType /\ Outer(e, d) /\ e.rc # "BUS_MSG_OK"
         /\ e.rc = "BUS_MSG_RXING" => Holds(e, Append(p, ch))
<1>1. CASE d.l2 = "WAIT_FOR_SENDER_ADDR"
  <2>1. e = [d EXCEPT !.msg = <<ch>>, !.last = 255, !.l2 = "WAIT_FOR_TYPE"]
    BY <1>1 DEF L2StateMachine
  <2>2. p = <<>> /\ Append(p, ch) = <<ch>> /\ <<ch>> \in Seq(Byte) /\ Len(<<ch>>) = 1 /\ 255 \in Byte
    BY <1>1 DEF Holds, Byte
  <2>3. /\ e \in DecoderType /\ Outer(e, d) /\ e.rc = d.rc /\ e.l1 = d.l1 /\ e.l2 = "WAIT_FOR_TYPE"
        /\ e.msg = <<ch>>
    <3>1. <<ch>> \in Seq(Byte) /\ 255 \in Byte
      BY <2>2
    <3> DEFINE h == [d EXCEPT !.msg = <<ch>>]
               g == [h EXCEPT !.last = 255]
    <3>2. h \in DecoderType /\ Outer(h, d) /\ h.rc = d.rc /\ h.l1 = d.l1 /\ h.msg = <<ch>>
      BY <3>1 DEF DecoderType, Outer
    <3>3. e = [g EXCEPT !.l2 = "WAIT_FOR_TYPE"]
      BY <2>1
    <3> HIDE DEF h
    <3>4. /\ g \in DecoderType /\ Outer(g, d) /\ g.rc = d.rc /\ g.l1 = d.l1 /\ g.msg = <<ch>>
      BY <3>1, <3>2 DEF DecoderType, Outer
    <3> HIDE DEF g
    <3> QED BY <3>4, <3>3 DEF DecoderType, Outer
  <2> QED BY <2>2, <2>3 DEF Holds
<1>2. CASE d.l2 = "WAIT_FOR_TYPE"
  <2>1. e = L2Type(d, ch) /\ p = d.msg /\ Len(d.msg) = 1
    BY <1>2 DEF L2StateMachine, Holds
  <2> QED BY <2>1, L2TypeRight
<1>3. CASE d.l2 = "WAIT_FOR_MSG"
  <2>1. e = L2Msg(d, ch) /\ p = d.msg /\ Partial(d.msg, d.last)
    BY <1>3 DEF L2StateMachine, Holds
  <2> QED BY <1>3, <2>1, L2MsgRight
<1> QED BY <1>1, <1>2, <1>3 DEF DecoderType

(* The characters s after an STX have led the decoder to where it is. *)
Follows(d, s) ==
  /\ d.stuff <=> EndsIn(s, ESC)
  /\ d.sum = Sum(<<STX>> \o Plain(s))
  /\ Holds(d, Plain(s))

(* It has accepted them as a telegram and its checksum. *)
Accepts(d, s) ==
  /\ Plain(s) = Append(d.msg, Sum(<<STX>> \o d.msg))
  /\ Whole(d.msg)

LEMMA PlainType == ASSUME NEW s \in Seq(Byte) PROVE Plain(s) \in Seq(Byte)
<1>1. PICK f : IsPlain(f, s, Len(s)) /\ Plain(s) = f[Len(s)]
  BY PlainIs
<1> DEFINE S == {i \in Nat : i <= Len(s) => f[i] \in Seq(Byte)}
<1>2. 0 \in S
  <2>1. f[0] = <<>>
    BY <1>1 DEF IsPlain
  <2>2. <<>> \in Seq(Byte)
    OBVIOUS
  <2> QED BY <2>1, <2>2
<1>3. ASSUME NEW i \in Nat, i \in S PROVE i + 1 \in S
  <2> SUFFICES ASSUME i + 1 <= Len(s) PROVE f[i + 1] \in Seq(Byte)
    OBVIOUS
  <2>1. Meant(s, i + 1) \in Byte
    <3>1. s[i + 1] \in Byte
      OBVIOUS
    <3> QED BY <3>1, MeantByte DEF Meant
  <2>2. f[i + 1] = IF s[i + 1] = ESC THEN f[i] ELSE Append(f[i], Meant(s, i + 1))
    BY <1>1, PlainStep
  <2>3. f[i] \in Seq(Byte)
    BY <1>3
  <2> HIDE DEF S
  <2>4. Append(f[i], Meant(s, i + 1)) \in Seq(Byte)
    BY <2>1, <2>3
  <2> QED BY <2>2, <2>3, <2>4, Zenon
<1> HIDE DEF S
<1>4. Len(s) \in S
  BY <1>2, <1>3, Induct
<1> QED BY <1>1, <1>4 DEF S

LEMMA SumBehind ==
  ASSUME NEW p \in Seq(Byte), NEW ch \in Byte
  PROVE  Sum(<<STX>> \o Append(p, ch)) = (Sum(<<STX>> \o p) + ch) % 256
<1>1. <<STX>> \in Seq(Byte) /\ <<STX>> \o p \in Seq(Byte)
  BY DEF STX, Byte
<1>2. <<STX>> \o Append(p, ch) = Append(<<STX>> \o p, ch)
  <2>1. Len(<<STX>> \o Append(p, ch)) = Len(Append(<<STX>> \o p, ch))
    BY <1>1
  <2>2. \A i \in 1 .. Len(<<STX>> \o Append(p, ch)) : (<<STX>> \o Append(p, ch))[i] = Append(<<STX>> \o p, ch)[i]
    BY <1>1
  <2>3. <<STX>> \o Append(p, ch) \in Seq(Byte) /\ Append(<<STX>> \o p, ch) \in Seq(Byte)
    <3>1. Append(p, ch) \in Seq(Byte)
      OBVIOUS
    <3> QED BY <1>1, <3>1, AppendAt, ConcatAt
  <2> QED BY <2>1, <2>2, <2>3, SeqEqual
<1>3. Sum(Append(<<STX>> \o p, ch)) = (Sum(<<STX>> \o p) + ch) % 256
  BY <1>1, SumNext
<1> QED BY <1>2, <1>3, Zenon

(* One character after an STX, other than an STX. *)
LEMMA StartedRight ==
  ASSUME NEW d \in DecoderType, d.rc = "BUS_MSG_RXING", d.l1 # "WAIT_FOR_STX",
         NEW s \in Seq(Byte), Follows(d, s), NEW c \in Byte, NEW e, e = Started(d, c)
  PROVE  /\ e \in DecoderType /\ e.used = d.used /\ e.skip = d.skip
         /\ e.rc = "BUS_MSG_RXING" => e.l1 # "WAIT_FOR_STX" /\ Follows(e, Append(s, c))
         /\ e.rc = "BUS_MSG_OK" => Accepts(e, Append(s, c)) /\ e.l2 = "WAIT_FOR_SENDER_ADDR"
<1> DEFINE p == Plain(s)
           ch == IF d.stuff THEN Inverted(c) ELSE c
           f == [d EXCEPT !.stuff = FALSE]
<1>1. p \in Seq(Byte) /\ ch \in Byte
  BY PlainType, MeantByte
<1>2. EndsIn(Append(s, c), ESC) <=> c = ESC
  <2>1. Append(s, c) # <<>> /\ Append(s, c)[Len(Append(s, c))] = c
    BY AppendAt
  <2> QED BY <2>1 DEF EndsIn
<1>3. CASE c = ESC
  <2>1. e = [d EXCEPT !.stuff = TRUE]
    BY <1>3 DEF Started
  <2>2. /\ e \in DecoderType /\ e.used = d.used /\ e.skip = d.skip /\ e.stuff = TRUE /\ e.sum = d.sum
        /\ e.rc = d.rc /\ e.l1 = d.l1 /\ e.l2 = d.l2 /\ e.msg = d.msg /\ e.last = d.last
    BY <2>1 DEF DecoderType
  <2>3. Plain(Append(s, c)) = p
    BY <1>3, PlainNext
  <2> QED BY <1>2, <1>3, <2>2, <2>3 DEF Follows, Holds
<1>4. CASE c # ESC
  <2>1. Plain(Append(s, c)) = Append(p, ch)
    BY <1>4, PlainNext DEF Follows
  <2>2. /\ f \in DecoderType /\ f.used = d.used /\ f.skip = d.skip /\ f.stuff = FALSE /\ f.sum = d.sum
        /\ f.rc = d.rc /\ f.l1 = d.l1 /\ f.l2 = d.l2 /\ f.msg = d.msg /\ f.last = d.last
    BY DEF DecoderType
  <2>3. e = IF d.l1 = "RX_MSG" THEN RxMsg(f, ch) ELSE WaitForChecksum(f, ch)
    BY <1>4 DEF Started
  <2> HIDE DEF p, ch, f
  <2>4. d.sum = Sum(<<STX>> \o p) /\ Holds(d, p) /\ Holds(f, p)
    BY <2>2 DEF Follows, Holds, p
  <2>5. CASE d.l1 = "RX_MSG"
    <3> DEFINE g == L2StateMachine(f, ch)
    <3>1. /\ g \in DecoderType /\ Outer(g, f) /\ g.rc # "BUS_MSG_OK"
          /\ g.rc = "BUS_MSG_RXING" => Holds(g, Append(p, ch))
      BY <1>1, <2>2, <2>4, <2>5, L2Right
    <3>2. e = [g EXCEPT !.sum = (@ + ch) % 256]
      BY <2>3, <2>5 DEF RxMsg
    <3> HIDE DEF g
    <3>3. (g.sum + ch) % 256 \in Byte
      BY <1>1, <3>1, ByteSum DEF DecoderType
    <3>4. /\ e \in DecoderType /\ e.used = g.used /\ e.skip = g.skip /\ e.stuff = g.stuff
          /\ e.sum = (g.sum + ch) % 256
          /\ e.rc = g.rc /\ e.l1 = g.l1 /\ e.l2 = g.l2 /\ e.msg = g.msg /\ e.last = g.last
      BY <3>1, <3>2, <3>3 DEF DecoderType
    <3>5. e.used = d.used /\ e.skip = d.skip /\ e.stuff = FALSE /\ e.sum = (d.sum + ch) % 256
      BY <2>2, <3>1, <3>4 DEF Outer
    <3>6. e.sum = Sum(<<STX>> \o Append(p, ch))
      BY <1>1, <2>4, <3>5, SumBehind
    <3>7. e.rc = "BUS_MSG_RXING" => Holds(e, Append(p, ch)) /\ e.l1 # "WAIT_FOR_STX"
      BY <3>1, <3>4 DEF Holds
    <3> QED BY <1>2, <1>4, <2>1, <3>1, <3>4, <3>5, <3>6, <3>7 DEF Follows
  <2>6. CASE d.l1 = "WAIT_FOR_CHECKSUM"
    <3>1. e = [f EXCEPT !.rc = IF ch = f.sum THEN "BUS_MSG_OK" ELSE "BUS_MSG_ERROR"]
      BY <2>3, <2>6 DEF WaitForChecksum
    <3>2. /\ e \in DecoderType /\ e.used = d.used /\ e.skip = d.skip /\ e.msg = d.msg /\ e.l2 = d.l2
          /\ e.rc = IF ch = d.sum THEN "BUS_MSG_OK" ELSE "BUS_MSG_ERROR"
      BY <2>2, <3>1 DEF DecoderType
    <3>3. p = d.msg /\ Whole(p) /\ d.l2 = "WAIT_FOR_SENDER_ADDR"
      BY <2>4, <2>6 DEF Holds
    <3> QED BY <2>1, <2>4, <3>2, <3>3 DEF Accepts
  <2> QED BY <2>5, <2>6 DEF DecoderType
<1> QED BY <1>3, <1>4

-----------------------------------------------------------------------------
(* The decoder and the last STX. *)
(* The last STX of the characters in, and what followed it. *)
LastSTX(in, i) == i \in 1 .. Len(in) /\ in[i] = STX /\ \A j \in i + 1 .. Len(in) : in[j] # STX
Since(in, i) == [j \in 1 .. Len(in) - i |-> in[i + j]]

LEMMA SinceType ==
  ASSUME NEW in \in Seq(Byte), NEW i \in 1 .. Len(in)
  PROVE  Since(in, i) \in Seq(Byte) /\ Len(Since(in, i)) = Len(in) - i
<1>1. Len(in) - i \in Nat
  OBVIOUS
<1>2. \A j \in 1 .. Len(in) - i : in[i + j] \in Byte
  OBVIOUS
<1> QED BY <1>1, <1>2 DEF Since

LEMMA SinceNext ==
  ASSUME NEW in \in Seq(Byte), NEW c \in Byte, NEW i \in 1 .. Len(in)
  PROVE  Since(Append(in, c), i) = Append(Since(in, i), c)
<1>1. Append(in, c) \in Seq(Byte) /\ Len(Append(in, c)) = Len(in) + 1 /\ i \in 1 .. Len(in) + 1
  OBVIOUS
<1>2. /\ Since(Append(in, c), i) \in Seq(Byte) /\ Len(Since(Append(in, c), i)) = Len(in) + 1 - i
      /\ Since(in, i) \in Seq(Byte) /\ Len(Since(in, i)) = Len(in) - i
  <2>1. Since(in, i) \in Seq(Byte) /\ Len(Since(in, i)) = Len(in) - i
    BY SinceType
  <2> DEFINE t == Append(in, c)
  <2>2. t \in Seq(Byte) /\ Len(t) = Len(in) + 1 /\ i \in 1 .. Len(t)
    BY <1>1
  <2> HIDE DEF t
  <2>3. Since(t, i) \in Seq(Byte) /\ Len(Since(t, i)) = Len(t) - i
    BY <2>2, SinceType
  <2> QED BY <2>1, <2>2, <2>3 DEF t
<1>3. Append(Since(in, i), c) \in Seq(Byte) /\ Len(Append(Since(in, i), c)) = Len(in) + 1 - i
  BY <1>2
<1>4. ASSUME NEW j \in 1 .. Len(in) + 1 - i PROVE Since(Append(in, c), i)[j] = Append(Since(in, i), c)[j]
  <2>1. Since(Append(in, c), i)[j] = Append(in, c)[i + j]
    BY <1>1 DEF Since
  <2>2. CASE i + j = Len(in) + 1
    BY <1>2, <2>1, <2>2
  <2>3. CASE i + j # Len(in) + 1
    <3>1. i + j \in 1 .. Len(in) /\ j \in 1 .. Len(in) - i
      BY <2>3
    <3>2. Since(in, i)[j] = in[i + j]
      BY <3>1 DEF Since
    <3> QED BY <1>2, <2>1, <3>1, <3>2
  <2> QED BY <2>2, <2>3
<1> QED BY <1>2, <1>3, <1>4, SeqEqual

LEMMA LastNext ==
  ASSUME NEW in \in Seq(Byte), NEW c \in Byte, c # STX, NEW i, LastSTX(in, i)
  PROVE  LastSTX(Append(in, c), i)
BY DEF LastSTX

(* The decoder is where the characters in have led it. *)
Located(d, in) == d.l1 # "WAIT_FOR_STX" => \E i : LastSTX(in, i) /\ Follows(d, Since(in, i))
Reported(d, in) == \E i : LastSTX(in, i) /\ Accepts(d, Since(in, i))

LEMMA LocatedSTX ==
  ASSUME NEW d \in DecoderType, d.rc = "BUS_MSG_RXING", d.l2 = "WAIT_FOR_SENDER_ADDR",
         NEW in \in Seq(Byte), NEW e, e = WaitForSTX(d, STX)
  PROVE  /\ e \in DecoderType /\ e.used = d.used /\ e.skip = d.skip /\ e.rc = "BUS_MSG_RXING"
         /\ e.l1 = "RX_MSG" /\ Located(e, Append(in, STX))
<1>1. STX \in Byte /\ <<STX>> \in Seq(Byte) /\ Sum(<<STX>>) \in Byte
  <2>1. STX \in Byte
    BY DEF STX, Byte
  <2>2. <<STX>> \in Seq(Byte)
    BY <2>1
  <2> QED BY <2>1, <2>2, SumType
<1>2. e = [d EXCEPT !.l1 = "RX_MSG", !.sum = Sum(<<STX>>), !.stuff = FALSE]
  BY DEF WaitForSTX
<1>3. /\ e \in DecoderType /\ e.used = d.used /\ e.skip = d.skip /\ e.rc = "BUS_MSG_RXING"
      /\ e.l1 = "RX_MSG" /\ e.l2 = "WAIT_FOR_SENDER_ADDR" /\ e.sum = Sum(<<STX>>) /\ e.stuff = FALSE
  BY <1>1, <1>2 DEF DecoderType
<1> DEFINE i == Len(in) + 1
           t == Append(in, STX)
<1>4. t \in Seq(Byte) /\ Len(t) = i /\ t[i] = STX /\ i \in 1 .. Len(t)
  BY <1>1
<1> HIDE DEF i, t
<1>5. LastSTX(t, i)
  BY <1>4 DEF LastSTX
<1>6. Since(t, i) = <<>>
  BY <1>4, SinceType
<1>7. Follows(e, <<>>)
  <2>1. <<STX>> \o <<>> = <<STX>>
    BY <1>1
  <2>2. ~EndsIn(<<>>, ESC)
    BY DEF EndsIn
  <2> QED BY <1>3, <2>1, <2>2, PlainNone DEF Follows, Holds
<1> QED BY <1>3, <1>5, <1>6, <1>7 DEF Located, t

(* BusDecode has been given n of the characters chars, after in. *)
Input(in, chars, d) == in \o SubSeq(chars, 1, d.used)
Running(d, in, chars, n) ==
  /\ d \in DecoderType
  /\ d.rc = "BUS_MSG_RXING" =>
       /\ d.used = n /\ ~d.skip /\ Located(d, Input(in, chars, d))
       /\ d.l1 # "RX_MSG" => d.l2 = "WAIT_FOR_SENDER_ADDR"
  /\ d.rc = "BUS_MSG_OK" =>
       /\ d.used \in 1 .. n /\ ~d.skip /\ Reported(d, Input(in, chars, d))
       /\ d.l2 = "WAIT_FOR_SENDER_ADDR"
  /\ d.rc = "BUS_MSG_ERROR" => d.used \in 0 .. n /\ (d.skip => d.used = n)

LEMMA InputNext ==
  ASSUME NEW in \in Seq(Byte), NEW chars \in Seq(Byte), NEW n \in Nat, n + 1 <= Len(chars)
  PROVE  /\ chars[n + 1] \in Byte
         /\ in \o SubSeq(chars, 1, n) \in Seq(Byte)
         /\ in \o SubSeq(chars, 1, n + 1) = Append(in \o SubSeq(chars, 1, n), chars[n + 1])
<1> DEFINE a == SubSeq(chars, 1, n)
           b == SubSeq(chars, 1, n + 1)
<1>1. a \in Seq(Byte) /\ Len(a) = n /\ b \in Seq(Byte) /\ Len(b) = n + 1 /\ chars[n + 1] \in Byte
  OBVIOUS
<1>2. (\A i \in 1 .. n : a[i] = chars[i]) /\ \A i \in 1 .. n + 1 : b[i] = chars[i]
  OBVIOUS
<1> HIDE DEF a, b
<1>3. /\ in \o b \in Seq(Byte) /\ Append(in \o a, chars[n + 1]) \in Seq(Byte) /\ in \o a \in Seq(Byte)
      /\ Len(in \o b) = Len(in) + n + 1 /\ Len(Append(in \o a, chars[n + 1])) = Len(in) + n + 1
  <2>1. in \o b \in Seq(Byte) /\ Len(in \o b) = Len(in) + (n + 1)
    <3>1. b \in Seq(Byte) /\ Len(b) = n + 1
      BY <1>1
    <3>2. in \o b \in Seq(Byte) /\ Len(in \o b) = Len(in) + Len(b)
      BY <3>1, ConcatAt
    <3> QED BY <3>1, <3>2
  <2>2. in \o a \in Seq(Byte) /\ Len(in \o a) = Len(in) + n
    <3>1. a \in Seq(Byte) /\ Len(a) = n
      BY <1>1
    <3>2. in \o a \in Seq(Byte) /\ Len(in \o a) = Len(in) + Len(a)
      BY <3>1, ConcatAt
    <3> QED BY <3>1, <3>2
  <2>3. /\ Append(in \o a, chars[n + 1]) \in Seq(Byte)
        /\ Len(Append(in \o a, chars[n + 1])) = Len(in \o a) + 1
    BY <1>1, <2>2, AppendAt
  <2>4. Len(in) \in Nat
    OBVIOUS
  <2> QED BY <2>1, <2>2, <2>3, <2>4
<1>4. ASSUME NEW i \in 1 .. Len(in) + n + 1
      PROVE  (in \o b)[i] = Append(in \o a, chars[n + 1])[i]
  <2>1. CASE i <= Len(in)
    <3>1. (in \o b)[i] = in[i] /\ (in \o a)[i] = in[i]
      BY <1>1, <2>1
    <3>2. i \in 1 .. Len(in \o a)
      BY <1>1, <2>1
    <3>3. Append(in \o a, chars[n + 1])[i] = (in \o a)[i]
      BY <1>1, <1>3, <3>2, AppendAt
    <3> QED BY <3>1, <3>3
  <2>2. CASE i > Len(in)
    <3>1. PICK k \in 1 .. n + 1 : i = Len(in) + k
      BY <2>2
    <3>2. (in \o b)[i] = chars[k]
      BY <1>1, <1>2, <3>1
    <3>3. Len(in \o a) = Len(in) + n
      BY <1>1
    <3>4. CASE k = n + 1
      <4>1. i = Len(in \o a) + 1
        BY <3>1, <3>3, <3>4
      <4> QED BY <1>1, <1>3, <3>2, <3>4, <4>1, AppendAt
    <3>5. CASE k # n + 1
      <4>1. k \in 1 .. n /\ i \in 1 .. Len(in \o a)
        BY <3>1, <3>3, <3>5
      <4>2. (in \o a)[i] = chars[k]
        BY <1>1, <1>2, <3>1, <4>1
      <4>3. Append(in \o a, chars[n + 1])[i] = (in \o a)[i]
        BY <1>1, <1>3, <4>1, AppendAt
      <4> QED BY <3>2, <4>2, <4>3
    <3> QED BY <3>4, <3>5
  <2>3. i <= Len(in) \/ i > Len(in)
    OBVIOUS
  <2> QED BY <2>1, <2>2, <2>3, Zenon
<1>5. in \o b = Append(in \o a, chars[n + 1])
  BY <1>3, <1>4, SeqEqual
<1> QED BY <1>1, <1>3, <1>5 DEF a, b

LEMMA ConsumeRunning ==
  ASSUME NEW in \in Seq(Byte), NEW chars \in Seq(Byte), NEW n \in Nat, n + 1 <= Len(chars),
         NEW d, Running(d, in, chars, n), NEW e, e = Consume(d, chars[n + 1])
  PROVE  Running(e, in, chars, n + 1)
<1> DEFINE c == chars[n + 1]
           f == [d EXCEPT !.used = @ + 1]
<1>1. /\ c \in Byte /\ d \in DecoderType
      /\ in \o SubSeq(chars, 1, n + 1) = Append(in \o SubSeq(chars, 1, n), c)
      /\ in \o SubSeq(chars, 1, n) \in Seq(Byte)
  BY InputNext DEF Running
<1>2. /\ f \in DecoderType /\ f.used = d.used + 1 /\ f.skip = d.skip /\ f.rc = d.rc /\ f.l1 = d.l1
      /\ f.l2 = d.l2 /\ f.msg = d.msg /\ f.last = d.last /\ f.sum = d.sum /\ f.stuff = d.stuff
  <2>1. d \in DecoderType
    BY <1>1
  <2>2. d.used + 1 \in Nat
    BY <2>1 DEF DecoderType
  <2> QED BY ONLY <2>1, <2>2 DEF DecoderType
<1> HIDE DEF f
<1>3. e = IF d.rc # "BUS_MSG_RXING"
          THEN IF d.skip /\ c # STX THEN f ELSE [d EXCEPT !.skip = FALSE]
          ELSE IF d.l1 = "WAIT_FOR_STX" THEN WaitForSTX(f, c)
          ELSE IF c = STX THEN Error(d)
          ELSE Started(f, c)
  BY DEF Consume, f
<1> HIDE DEF c
<1>4. CASE d.rc # "BUS_MSG_RXING"
  <2>1. CASE d.skip /\ c # STX
    <3>1. e = f /\ d.rc = "BUS_MSG_ERROR"
      BY <1>1, <1>3, <1>4, <2>1 DEF Running, DecoderType
    <3> QED BY <1>2, <2>1, <3>1 DEF Running
  <2>2. CASE ~(d.skip /\ c # STX)
    <3>1. /\ e \in DecoderType /\ e.used = d.used /\ ~e.skip /\ e.rc = d.rc /\ e.l1 = d.l1
          /\ e.l2 = d.l2 /\ e.msg = d.msg
      BY <1>1, <1>3, <1>4, <2>2 DEF DecoderType
    <3>2. Input(in, chars, e) = Input(in, chars, d)
      BY <3>1 DEF Input
    <3>3. d.used \in 0 .. n /\ (e.rc = "BUS_MSG_OK" => d.used \in 1 .. n)
      BY <1>1, <1>4, <3>1 DEF Running, DecoderType
    <3>4. e.rc = "BUS_MSG_OK" => Reported(e, Input(in, chars, e)) /\ e.l2 = "WAIT_FOR_SENDER_ADDR"
      BY <3>1, <3>2 DEF Running, Reported, Accepts
    <3> QED BY <1>4, <3>1, <3>3, <3>4 DEF Running
  <2> QED BY <2>1, <2>2
<1>5. CASE d.rc = "BUS_MSG_RXING"
  <2>1. /\ d.used = n /\ ~d.skip /\ f.used = n + 1 /\ ~f.skip /\ f.rc = "BUS_MSG_RXING"
        /\ d.l1 # "RX_MSG" => d.l2 = "WAIT_FOR_SENDER_ADDR"
    BY <1>2, <1>5 DEF Running
  <2>2. Located(d, in \o SubSeq(chars, 1, n))
    BY <1>5, <2>1 DEF Running, Input
  <2> DEFINE t == in \o SubSeq(chars, 1, n)
  <2>3. ASSUME e.used = n + 1 PROVE Input(in, chars, e) = Append(t, c)
    BY <1>1, <2>3 DEF Input
  <2>4. t \in Seq(Byte) /\ Located(d, t)
    BY <1>1, <2>2
  <2> HIDE DEF t
  <2>5. CASE d.l1 = "WAIT_FOR_STX" /\ c = STX
    <3>1. e = WaitForSTX(f, STX)
      BY <1>3, <1>5, <2>5
    <3>2. /\ e \in DecoderType /\ e.used = n + 1 /\ ~e.skip /\ e.rc = "BUS_MSG_RXING" /\ e.l1 = "RX_MSG"
          /\ Located(e, Append(t, c))
      BY <1>2, <2>1, <2>4, <2>5, <3>1, LocatedSTX
    <3> QED BY <2>3, <3>2 DEF Running
  <2>6. CASE d.l1 = "WAIT_FOR_STX" /\ c # STX
    <3>1. e = [Error(f) EXCEPT !.skip = TRUE]
      BY <1>3, <1>5, <2>6 DEF WaitForSTX
    <3>2. e \in DecoderType /\ e.used = n + 1 /\ e.rc = "BUS_MSG_ERROR"
      BY <1>2, <2>1, <3>1 DEF Error, DecoderType
    <3> QED BY <3>2 DEF Running
  <2>7. CASE d.l1 # "WAIT_FOR_STX" /\ c = STX
    <3>1. e = [d EXCEPT !.rc = "BUS_MSG_ERROR"]
      BY <1>3, <1>5, <2>7 DEF Error
    <3>2. e \in DecoderType /\ e.used = n /\ ~e.skip /\ e.rc = "BUS_MSG_ERROR"
      BY <1>1, <2>1, <3>1 DEF DecoderType
    <3> QED BY <3>2 DEF Running
  <2>8. CASE d.l1 # "WAIT_FOR_STX" /\ c # STX
    <3>1. e = Started(f, c)
      BY <1>3, <1>5, <2>8
    <3>2. PICK i : LastSTX(t, i) /\ Follows(d, Since(t, i))
      BY <2>4, <2>8 DEF Located
    <3>3. i \in 1 .. Len(t) /\ Since(t, i) \in Seq(Byte)
      BY <2>4, <3>2, SinceType DEF LastSTX
    <3>4. Follows(f, Since(t, i)) /\ f.l1 # "WAIT_FOR_STX"
      BY <1>2, <2>8, <3>2 DEF Follows, Holds
    <3>5. /\ e \in DecoderType /\ e.used = f.used /\ e.skip = f.skip
          /\ e.rc = "BUS_MSG_RXING" => e.l1 # "WAIT_FOR_STX" /\ Follows(e, Append(Since(t, i), c))
          /\ e.rc = "BUS_MSG_OK" => Accepts(e, Append(Since(t, i), c)) /\ e.l2 = "WAIT_FOR_SENDER_ADDR"
      BY <1>1, <1>2, <2>1, <3>1, <3>3, <3>4, StartedRight
    <3>6. Since(Append(t, c), i) = Append(Since(t, i), c) /\ LastSTX(Append(t, c), i)
      BY <1>1, <2>4, <2>8, <3>2, <3>3, SinceNext, LastNext
    <3>7. Input(in, chars, e) = Append(t, c) /\ e.used = n + 1 /\ ~e.skip
      BY <2>1, <2>3, <3>5
    <3>8. ASSUME e.rc = "BUS_MSG_RXING"
          PROVE  Located(e, Append(t, c)) /\ (e.l1 # "RX_MSG" => e.l2 = "WAIT_FOR_SENDER_ADDR")
      <4>1. Follows(e, Append(Since(t, i), c))
        BY <3>5, <3>8
      <4>2. Located(e, Append(t, c))
        BY <3>6, <4>1 DEF Located
      <4>3. e.l1 # "RX_MSG" => e.l2 = "WAIT_FOR_SENDER_ADDR"
        BY <4>1 DEF Follows, Holds
      <4> QED BY <4>2, <4>3
    <3>9. e.rc = "BUS_MSG_OK" => Reported(e, Append(t, c))
      BY <3>5, <3>6 DEF Reported
    <3> QED BY <3>5, <3>7, <3>8, <3>9 DEF Running
  <2> QED BY <2>5, <2>6, <2>7, <2>8
<1> QED BY <1>4, <1>5

-----------------------------------------------------------------------------
(* What BusDecode has used. *)
(* BusDecode with the characters chars, after in. *)
LEMMA DecodedRunning ==
  ASSUME NEW in \in Seq(Byte), NEW chars \in Seq(Byte), Running(Start, in, chars, 0)
  PROVE  Running(Decoded(chars), in, chars, Len(chars))
<1>1. PICK f : IsAfter(f, chars, Len(chars)) /\ Decoded(chars) = f[Len(chars)]
  BY DecodedIs
<1> DEFINE S == {n \in Nat : n <= Len(chars) => Running(f[n], in, chars, n)}
<1>2. 0 \in S
  <2>1. f[0] = Start
    BY <1>1 DEF IsAfter
  <2> QED BY <2>1
<1>3. ASSUME NEW n \in Nat, n \in S PROVE n + 1 \in S
  <2> SUFFICES ASSUME n + 1 <= Len(chars) PROVE Running(f[n + 1], in, chars, n + 1)
    OBVIOUS
  <2>1. PICK j \in 0 .. Len(chars) : j = n + 1 /\ j # 0 /\ j - 1 = n
    OBVIOUS
  <2>2. f[j] = Consume(f[j - 1], chars[j])
    BY <1>1, <2>1, Zenon DEF IsAfter
  <2>3. f[n + 1] = Consume(f[n], chars[n + 1])
    BY <2>1, <2>2, Zenon
  <2>4. Running(f[n], in, chars, n)
    BY <1>3
  <2> QED BY <2>3, <2>4, ConsumeRunning
<1> HIDE DEF S
<1>4. Len(chars) \in S
  BY <1>2, <1>3, Induct
<1> QED BY <1>1, <1>4 DEF S

-----------------------------------------------------------------------------
(* The characters that BusDecode has used, and what it was given. *)
Used == [i \in 1 .. Len(taken) |-> log[taken[i]]]
Given == [i \in DOMAIN held |-> log[held[i]]]

(* A telegram that was accepted after some of the characters in. *)
Sound(a, in) ==
  /\ a.at \in 1 .. Len(in)
  /\ \E i \in 1 .. a.at - 1 :
       LET chars == [j \in 1 .. a.at - i |-> in[i + j]]
       IN  /\ in[i] = STX /\ \A j \in DOMAIN chars : chars[j] # STX
           /\ Plain(chars) = Append(a.msg, Sum(<<STX>> \o a.msg))
  /\ Known(a.msg[2]) /\ Len(a.msg) % 256 = LengthOf(a.msg)

AcceptedRight ==
  /\ accepted \in Seq([at : Nat, msg : Seq(Byte)])
  /\ \A k \in 1 .. Len(accepted) :
       /\ Sound(accepted[k], Used)
       /\ k > 1 => accepted[k - 1].at < accepted[k].at

BusInv == FifoInv /\ TypeOK /\ Located(decoder, Used) /\ AcceptedRight

LEMMA UsedType ==
  ASSUME FifoInv, log \in Seq(Byte), Len(log) = arrived
  PROVE  /\ Used \in Seq(Byte) /\ Len(Used) = Len(taken)
         /\ Given \in Seq(Byte) /\ Len(Given) = Len(held)
         /\ \A i \in 1 .. Len(taken) : taken[i] \in 1 .. Len(log)
         /\ \A i \in 1 .. Len(held) : held[i] \in 1 .. Len(log)
<1>1. /\ arrived \in Nat /\ q \in Seq(Nat) /\ held \in Seq(Nat) /\ taken \in Seq(Nat)
      /\ Len(taken) \in Nat /\ Len(held) \in Nat
  BY DEF FifoInv, FifoTypeOK
<1>2. taken \o held \in Seq(Nat) /\ Len(taken \o held) = Len(taken) + Len(held)
  BY <1>1
<1>3. /\ All \in Seq(Nat) /\ Len(All) >= Len(taken) + Len(held)
      /\ \A i \in 1 .. Len(taken) + Len(held) : All[i] = (taken \o held)[i]
  BY <1>1, <1>2 DEF All
<1>4. \A i \in 1 .. Len(All) : All[i] <= arrived /\ All[i] > 0
  BY DEF FifoInv, Numbered, Increasing
<1>5. ASSUME NEW i \in 1 .. Len(taken) PROVE taken[i] \in 1 .. Len(log)
  <2>1. i \in 1 .. Len(taken) + Len(held) /\ i \in 1 .. Len(All)
    <3>1. Len(All) \in Nat
      BY <1>3
    <3> QED BY <1>1, <1>3, <3>1
  <2>2. (taken \o held)[i] = taken[i] /\ taken[i] \in Nat
    BY <1>1, ConcatAt
  <2>3. All[i] = taken[i] /\ All[i] <= arrived /\ All[i] > 0
    BY <1>3, <1>4, <2>1, <2>2
  <2> QED BY <1>1, <2>2, <2>3
<1>6. ASSUME NEW i \in 1 .. Len(held) PROVE held[i] \in 1 .. Len(log)
  <2>1. PICK k \in Nat : k = Len(taken) + i
    BY <1>1
  <2>2. k \in 1 .. Len(taken) + Len(held) /\ k \in 1 .. Len(All)
    <3>1. Len(All) \in Nat /\ Len(All) >= Len(taken) + Len(held)
      BY <1>3
    <3>2. Len(taken) \in Nat /\ Len(held) \in Nat
      BY <1>1
    <3> QED BY ONLY <2>1, <3>1, <3>2, i \in 1 .. Len(held), k \in Nat
  <2>3. (taken \o held)[k] = held[i] /\ held[i] \in Nat
    BY <1>1, <2>1, ConcatAt
  <2>4. held[i] <= arrived /\ held[i] > 0
    BY <1>3, <1>4, <2>2, <2>3
  <2> QED BY <2>3, <2>4
<1>7. \A n \in 1 .. Len(log) : log[n] \in Byte
  OBVIOUS
<1>8. Used \in Seq(Byte) /\ Len(Used) = Len(taken)
  BY <1>1, <1>5, <1>7 DEF Used
<1>9. DOMAIN held = 1 .. Len(held)
  BY <1>1
<1>10. Given \in Seq(Byte) /\ Len(Given) = Len(held)
  BY <1>1, <1>6, <1>7, <1>9 DEF Given
<1> QED BY <1>5, <1>6, <1>8, <1>10

(* More characters do not change what was accepted. *)
LEMMA SoundStays ==
  ASSUME NEW in \in Seq(Byte), NEW out \in Seq(Byte), Len(in) <= Len(out),
         \A i \in 1 .. Len(in) : out[i] = in[i], NEW a, Sound(a, in)
  PROVE  Sound(a, out)
<1>1. a.at \in 1 .. Len(in) /\ a.at \in 1 .. Len(out) /\ Len(in) \in Nat
  BY DEF Sound
<1>2. PICK i \in 1 .. a.at - 1 :
       LET chars == [j \in 1 .. a.at - i |-> in[i + j]]
       IN  /\ in[i] = STX /\ \A j \in DOMAIN chars : chars[j] # STX
           /\ Plain(chars) = Append(a.msg, Sum(<<STX>> \o a.msg))
  BY DEF Sound
<1>3. i \in 1 .. Len(in) /\ \A j \in 1 .. a.at - i : i + j \in 1 .. Len(in)
  BY <1>1
<1>4. out[i] = in[i] /\ [j \in 1 .. a.at - i |-> out[i + j]] = [j \in 1 .. a.at - i |-> in[i + j]]
  BY <1>3
<1>5. Known(a.msg[2]) /\ Len(a.msg) % 256 = LengthOf(a.msg)
  BY DEF Sound
<1> DEFINE chars == [j \in 1 .. a.at - i |-> in[i + j]]
<1>6. out[i] = STX /\ (\A j \in DOMAIN chars : chars[j] # STX)
      /\ Plain(chars) = Append(a.msg, Sum(<<STX>> \o a.msg))
  BY <1>2, <1>4
<1>7. chars = [j \in 1 .. a.at - i |-> out[i + j]]
  BY <1>4
<1> HIDE DEF chars
<1> QED BY <1>1, <1>5, <1>6, <1>7 DEF Sound

LEMMA ReportedSound ==
  ASSUME NEW in \in Seq(Byte), NEW d \in DecoderType, Reported(d, in)
  PROVE  Sound([at |-> Len(in), msg |-> d.msg], in)
<1>1. PICK i : LastSTX(in, i) /\ Accepts(d, Since(in, i))
  BY DEF Reported
<1>2. i \in 1 .. Len(in) /\ in[i] = STX /\ Len(in) \in Nat
  BY <1>1 DEF LastSTX
<1>3. d.msg \in Seq(Byte) /\ Sum(<<STX>> \o d.msg) \in Byte
  <2>1. d.msg \in Seq(Byte)
    BY DEF DecoderType
  <2>2. STX \in Byte
    BY DEF STX, Byte
  <2>3. <<STX>> \o d.msg \in Seq(Byte)
    BY <2>1, <2>2
  <2> QED BY <2>1, <2>3, SumType
<1>4. i # Len(in)
  <2> SUFFICES ASSUME i = Len(in) PROVE FALSE
    OBVIOUS
  <2>1. Since(in, i) = <<>>
    BY <1>2, SinceType
  <2>2. <<>> = Append(d.msg, Sum(<<STX>> \o d.msg))
    BY <1>1, <2>1, PlainNone DEF Accepts
  <2>3. Len(Append(d.msg, Sum(<<STX>> \o d.msg))) = Len(d.msg) + 1 /\ Len(d.msg) \in Nat
    BY <1>3
  <2>4. PICK s : s = Append(d.msg, Sum(<<STX>> \o d.msg))
    OBVIOUS
  <2>5. s = <<>>
    BY <2>2, <2>4, Zenon
  <2>6. Len(s) = 0
    BY ONLY <2>5
  <2>7. Len(s) = Len(d.msg) + 1
    BY <2>3, <2>4, Zenon
  <2>8. PICK n \in Nat : n = Len(d.msg)
    BY <2>3
  <2>9. 0 = n + 1
    BY <2>6, <2>7, <2>8, Zenon
  <2> QED BY ONLY <2>8, <2>9
<1>5. i \in 1 .. Len(in) - 1 /\ Len(in) \in 1 .. Len(in)
  BY <1>2, <1>4
<1> DEFINE chars == [j \in 1 .. Len(in) - i |-> in[i + j]]
<1>6. chars = Since(in, i)
  BY DEF Since
<1>7. \A j \in DOMAIN chars : chars[j] # STX
  <2>1. ASSUME NEW j \in 1 .. Len(in) - i PROVE in[i + j] # STX
    <3>1. i + j \in i + 1 .. Len(in)
      BY <1>2
    <3> QED BY <1>1, <3>1 DEF LastSTX
  <2> QED BY <2>1
<1>8. Plain(chars) = Append(d.msg, Sum(<<STX>> \o d.msg))
  BY <1>1, <1>6 DEF Accepts
<1> HIDE DEF chars
<1>9. Known(d.msg[2]) /\ Len(d.msg) % 256 = LengthOf(d.msg)
  BY <1>1 DEF Accepts, Whole
<1> QED BY <1>2, <1>5, <1>7, <1>8, <1>9 DEF Sound, chars

-----------------------------------------------------------------------------
LEMMA LocatedKept ==
  ASSUME NEW d, NEW e, NEW in, Located(d, in),
         e.l1 = d.l1, e.l2 = d.l2, e.sum = d.sum, e.stuff = d.stuff, e.last = d.last, e.msg = d.msg
  PROVE  Located(e, in)
<1>1. \A s : Follows(d, s) => Follows(e, s)
  BY DEF Follows, Holds
<1> QED BY <1>1 DEF Located

StaticsType ==
  [l1 : {"WAIT_FOR_STX", "RX_MSG", "WAIT_FOR_CHECKSUM"},
   l2 : {"WAIT_FOR_SENDER_ADDR", "WAIT_FOR_TYPE", "WAIT_FOR_MSG"},
   sum : Byte, stuff : BOOLEAN, last : Byte, msg : Seq(Byte)]

LEMMA StartType ==
  ASSUME decoder \in StaticsType
  PROVE  /\ Start \in DecoderType /\ Start.rc = "BUS_MSG_RXING" /\ Start.used = 0 /\ ~Start.skip
         /\ Start.l1 = decoder.l1 /\ Start.l2 = decoder.l2 /\ Start.sum = decoder.sum
         /\ Start.stuff = decoder.stuff /\ Start.last = decoder.last /\ Start.msg = decoder.msg
BY DEF StaticsType, Start, DecoderType

LEMMA StaticsRight ==
  ASSUME NEW d \in DecoderType
  PROVE  /\ Statics(d) \in StaticsType
         /\ Statics(d).l1 = d.l1 /\ Statics(d).l2 = d.l2 /\ Statics(d).sum = d.sum
         /\ Statics(d).stuff = d.stuff /\ Statics(d).last = d.last /\ Statics(d).msg = d.msg
BY DEF StaticsType, Statics, DecoderType

LEMMA StartRunning ==
  ASSUME NEW in \in Seq(Byte), NEW chars \in Seq(Byte), decoder \in StaticsType,
         decoder.l1 # "RX_MSG" => decoder.l2 = "WAIT_FOR_SENDER_ADDR", Located(decoder, in)
  PROVE  Running(Start, in, chars, 0)
<1>1. /\ Start \in DecoderType /\ Start.rc = "BUS_MSG_RXING" /\ Start.used = 0 /\ ~Start.skip
      /\ Start.l1 = decoder.l1 /\ Start.l2 = decoder.l2 /\ Start.sum = decoder.sum
      /\ Start.stuff = decoder.stuff /\ Start.last = decoder.last /\ Start.msg = decoder.msg
  BY StartType
<1>2. Input(in, chars, Start) = in
  <2>1. SubSeq(chars, 1, 0) = <<>>
    OBVIOUS
  <2>2. in \o <<>> = in
    OBVIOUS
  <2> QED BY <1>1, <2>1, <2>2 DEF Input
<1>3. Located(Start, in)
  BY <1>1, LocatedKept
<1> QED BY <1>1, <1>2, <1>3 DEF Running

LEMMA KeptRight ==
  ASSUME NEW in \in Seq(Byte), NEW chars \in Seq(Byte), NEW d, Running(d, in, chars, Len(chars))
  PROVE  /\ Kept(d) \in StaticsType
         /\ Kept(d).l1 # "RX_MSG" => Kept(d).l2 = "WAIT_FOR_SENDER_ADDR"
         /\ Located(Kept(d), Input(in, chars, d))
<1> DEFINE e == Statics(d)
<1>1. d \in DecoderType
  BY DEF Running
<1>2. /\ e \in StaticsType /\ e.l1 = d.l1 /\ e.l2 = d.l2 /\ e.sum = d.sum
      /\ e.stuff = d.stuff /\ e.last = d.last /\ e.msg = d.msg
  BY <1>1, StaticsRight
<1> HIDE DEF e
<1>3. CASE d.rc = "BUS_MSG_RXING"
  <2>1. Kept(d) = e
    BY <1>3 DEF Kept, e
  <2>2. Located(d, Input(in, chars, d)) /\ (d.l1 # "RX_MSG" => d.l2 = "WAIT_FOR_SENDER_ADDR")
    BY <1>3 DEF Running
  <2>3. Located(e, Input(in, chars, d))
    BY <1>2, <2>2, LocatedKept
  <2> QED BY <1>2, <2>1, <2>2, <2>3
<1>4. CASE d.rc = "BUS_MSG_OK"
  <2>1. Kept(d) = [e EXCEPT !.l1 = "WAIT_FOR_STX"]
    BY <1>4 DEF Kept, e
  <2>2. e.l2 = "WAIT_FOR_SENDER_ADDR"
    BY <1>2, <1>4 DEF Running
  <2>3. Kept(d) \in StaticsType /\ Kept(d).l1 = "WAIT_FOR_STX" /\ Kept(d).l2 = "WAIT_FOR_SENDER_ADDR"
    <3>1. e \in StaticsType
      BY <1>2
    <3> QED BY ONLY <2>1, <2>2, <3>1 DEF StaticsType
  <2> QED BY <2>3 DEF Located
<1>5. CASE d.rc = "BUS_MSG_ERROR"
  <2>1. Kept(d) = [e EXCEPT !.l1 = "WAIT_FOR_STX", !.l2 = "WAIT_FOR_SENDER_ADDR", !.last = 255]
    BY <1>5 DEF Kept, e
  <2>2. 255 \in Byte
    BY DEF Byte
  <2>3. Kept(d) \in StaticsType /\ Kept(d).l1 = "WAIT_FOR_STX" /\ Kept(d).l2 = "WAIT_FOR_SENDER_ADDR"
    <3> DEFINE g == [e EXCEPT !.l1 = "WAIT_FOR_STX", !.l2 = "WAIT_FOR_SENDER_ADDR"]
    <3>1. /\ g \in StaticsType /\ g.l1 = "WAIT_FOR_STX" /\ g.l2 = "WAIT_FOR_SENDER_ADDR"
          /\ Kept(d) = [g EXCEPT !.last = 255]
      BY <1>2, <2>1 DEF StaticsType
    <3> HIDE DEF g
    <3> QED BY <2>2, <3>1 DEF StaticsType
  <2> QED BY <2>3 DEF Located
<1> QED BY <1>1, <1>3, <1>4, <1>5 DEF DecoderType

(* Encoded telegrams are characters. *)
LEMMA CheckedType ==
  ASSUME NEW msg \in Telegrams
  PROVE  Checked(msg) = Append(msg, Sum(<<STX>> \o msg)) /\ Checked(msg) \in Seq(Byte)
<1>1. msg \in Seq(Byte) /\ Len(msg) = LengthOf(msg)
  BY BusRxAssumption, TelegramsAssumption DEF Sendable
<1>2. SubSeq(msg, 1, LengthOf(msg)) = msg
  <2>1. SubSeq(msg, 1, Len(msg)) = msg
    BY <1>1, SubSeqFull
  <2> QED BY <1>1, <2>1
<1>3. Checked(msg) = Append(msg, Sum(<<STX>> \o msg))
  BY <1>2 DEF Checked
<1>4. Sum(<<STX>> \o msg) \in Byte
  <2>1. STX \in Byte
    BY DEF STX, Byte
  <2>2. <<STX>> \o msg \in Seq(Byte)
    BY <1>1, <2>1
  <2> QED BY <2>2, SumType
<1> QED BY <1>1, <1>3, <1>4

LEMMA EncodedType == ASSUME NEW msg \in Telegrams PROVE Encoded(msg) \in Seq(Byte)
<1> DEFINE all == Checked(msg)
<1>1. all \in Seq(Byte)
  BY CheckedType
<1>2. Len(all) \in Nat
  BY <1>1
<1> HIDE DEF all
<1>3. PICK f : IsCode(f, all, Len(all)) /\ Encoded(msg) = f[Len(all)]
  BY <1>2, EncodedIs DEF all
<1> QED BY <1>1, <1>2, <1>3, CodeType

-----------------------------------------------------------------------------
(* The steps of the senders and of the bus. *)
LEMMA FittingLength == ASSUME NEW s \in Seq(Nat) PROVE Len(Fitting(s)) <= Cap
<1>1. Len(s) \in Nat /\ Cap \in Nat
  BY CapAssumption
<1>2. CASE Len(s) > Cap
  <2>1. Fitting(s) = SubSeq(s, 1, Cap)
    BY <1>2 DEF Fitting
  <2> QED BY <1>1, <1>2, <2>1
<1>3. CASE ~(Len(s) > Cap)
  <2>1. Fitting(s) = SubSeq(s, 1, Len(s))
    BY <1>3 DEF Fitting
  <2> QED BY <1>1, <1>3, <2>1
<1> QED BY <1>2, <1>3

LEMMA ArriveRight ==
  ASSUME FifoInv, log \in Seq(Byte), Len(log) = arrived, NEW ch \in Byte, Arrive(ch)
  PROVE  /\ log' \in Seq(Byte) /\ Len(log') = arrived' /\ Len(q') <= Cap
         /\ held' = held /\ taken' = taken /\ Used' = Used
<1>1. arrived' = arrived + 1 /\ held' = held /\ taken' = taken /\ log' = Append(log, ch)
  BY DEF Arrive, Put
<1>2. /\ log' \in Seq(Byte) /\ Len(log') = Len(log) + 1
      /\ \A i \in 1 .. Len(log) : log'[i] = log[i]
  BY <1>1, AppendAt
<1>3. Len(q') <= Cap
  <2>1. q' = Fitting(Append(q, arrived')) /\ Append(q, arrived') \in Seq(Nat)
    BY <1>1 DEF Arrive, Put, FifoInv, FifoTypeOK
  <2> QED BY <2>1, FittingLength
<1>4. \A i \in 1 .. Len(taken) : taken[i] \in 1 .. Len(log)
  BY UsedType
<1>5. Used' = [i \in 1 .. Len(taken) |-> log'[taken[i]]]
  BY <1>1 DEF Used
<1>6. \A i \in 1 .. Len(taken) : log'[taken[i]] = log[taken[i]]
  BY <1>2, <1>4
<1>7. Used' = Used
  BY <1>5, <1>6 DEF Used
<1> QED BY <1>1, <1>2, <1>3, <1>7

(* TypeOK, except of the decoder. *)
SenderType ==
  /\ sent \in 0 .. MaxSent /\ sending \in Seq(Byte) /\ faults \in 0 .. MaxFaults
  /\ log \in Seq(Byte) /\ Len(log) = arrived
  /\ Len(q) <= Cap /\ Len(held) <= MaxRead
DecoderOK ==
  /\ decoder \in StaticsType
  /\ decoder.l1 # "RX_MSG" => decoder.l2 = "WAIT_FOR_SENDER_ADDR"

LEMMA TypeSplit == TypeOK <=> SenderType /\ DecoderOK
BY DEF TypeOK, SenderType, DecoderOK, StaticsType

LEMMA Steady ==
  ASSUME BusInv, SenderType', FifoInv', Used' = Used, decoder' = decoder, accepted' = accepted
  PROVE  BusInv'
<1>1. DecoderOK'
  BY TypeSplit DEF BusInv, DecoderOK
<1>2. TypeOK'
  BY <1>1, TypeSplit, PTL
<1>3. Located(decoder', Used') /\ AcceptedRight'
  BY DEF BusInv, AcceptedRight
<1> QED BY <1>2, <1>3 DEF BusInv

LEMMA UsedSame == taken' = taken /\ log' = log => Used' = Used
BY DEF Used

LEMMA SendKeeps == BusInv /\ FifoInv' /\ BusSend => BusInv'
<1> SUFFICES ASSUME BusInv, FifoInv', BusSend PROVE BusInv'
  OBVIOUS
<1>1. SenderType
  BY TypeSplit DEF BusInv
<1>2. sending' \in Seq(Byte)
  BY EncodedType DEF BusSend
<1>3. SenderType'
  BY <1>1, <1>2, BusRxAssumption DEF SenderType, BusSend, fifoVars
<1>4. Used' = Used /\ decoder' = decoder /\ accepted' = accepted
  BY UsedSame DEF BusSend, fifoVars
<1> QED BY <1>3, <1>4, Steady

LEMMA SendingLeft ==
  ASSUME sending \in Seq(Byte), sending # <<>>
  PROVE  Head(sending) \in Byte /\ Tail(sending) \in Seq(Byte)
OBVIOUS

LEMMA TransmitKeeps == BusInv /\ FifoInv' /\ Transmit => BusInv'
<1> SUFFICES ASSUME BusInv, FifoInv', Transmit PROVE BusInv'
  OBVIOUS
<1>1. SenderType /\ FifoInv
  BY TypeSplit DEF BusInv
<1>2. Head(sending) \in Byte /\ Tail(sending) \in Seq(Byte)
  BY <1>1, SendingLeft DEF SenderType, Transmit
<1>3. /\ log' \in Seq(Byte) /\ Len(log') = arrived' /\ Len(q') <= Cap
      /\ held' = held /\ taken' = taken /\ Used' = Used
  BY <1>1, <1>2, ArriveRight DEF SenderType, Transmit
<1>4. SenderType'
  BY <1>1, <1>2, <1>3 DEF SenderType, Transmit
<1>5. decoder' = decoder /\ accepted' = accepted
  BY DEF Transmit
<1> QED BY <1>3, <1>4, <1>5, Steady

LEMMA DisturbKeeps == BusInv /\ FifoInv' /\ Disturb => BusInv'
<1> SUFFICES ASSUME BusInv, FifoInv', Disturb PROVE BusInv'
  OBVIOUS
<1>1. SenderType /\ FifoInv
  BY TypeSplit DEF BusInv
<1>2. sending' \in Seq(Byte)
  BY <1>1, SendingLeft DEF SenderType, Disturb
<1>3. /\ log' \in Seq(Byte) /\ Len(log') = arrived' /\ Len(q') <= Cap
      /\ held' = held /\ taken' = taken /\ Used' = Used
  <2>1. CASE \E ch \in Garbage : Arrive(ch)
    BY <1>1, <2>1, ArriveRight, BusRxAssumption DEF SenderType
  <2>2. CASE UNCHANGED <<fifoVars, log>>
    BY <1>1, <2>2, UsedSame DEF SenderType, fifoVars
  <2> QED BY <2>1, <2>2 DEF Disturb
<1>4. faults' \in 0 .. MaxFaults /\ sent' = sent /\ decoder' = decoder /\ accepted' = accepted
  BY <1>1, BusRxAssumption DEF SenderType, Disturb
<1>5. SenderType'
  BY <1>1, <1>2, <1>3, <1>4 DEF SenderType
<1> QED BY <1>3, <1>4, <1>5, Steady

LEMMA CheckKeeps == BusInv /\ FifoInv' /\ BusCheck => BusInv'
<1> SUFFICES ASSUME BusInv, FifoInv', BusCheck PROVE BusInv'
  OBVIOUS
<1>1. SenderType /\ FifoInv
  BY TypeSplit DEF BusInv
<1>2. Len(q) \in Nat /\ q \in Seq(Nat)
  BY <1>1 DEF FifoInv, FifoTypeOK
<1>3. Len(held') <= MaxRead
  BY <1>2, BusRxAssumption DEF BusCheck
<1>4. PICK k \in 1 .. Len(q) : q' = SubSeq(q, k + 1, Len(q))
  BY DEF BusCheck, Take
<1>5. Len(q') <= Len(q)
  <2>1. Len(q') = IF k + 1 <= Len(q) THEN Len(q) - k ELSE 0
    BY <1>2, <1>4
  <2> QED BY <1>2, <2>1
<1>6. Len(q') <= Cap
  <2>1. Len(q') \in Nat
    BY DEF FifoInv, FifoTypeOK
  <2> QED BY <1>1, <1>2, <1>5, <2>1, CapAssumption DEF SenderType
<1>7. SenderType'
  BY <1>1, <1>3, <1>6 DEF SenderType, BusCheck, Take, busVars
<1>8. Used' = Used /\ decoder' = decoder /\ accepted' = accepted
  BY UsedSame DEF BusCheck, Take, busVars
<1> QED BY <1>7, <1>8, Steady

-----------------------------------------------------------------------------
(* BusDecode, and what it accepts. *)
(* What BusDecode has used is added to what it had used before. *)
LEMMA UsedInput ==
  ASSUME FifoInv, log \in Seq(Byte), Len(log) = arrived, log' = log, NEW n \in 0 .. Len(held),
         taken' = taken \o SubSeq(held, 1, n)
  PROVE  Used' = Used \o SubSeq(Given, 1, n)
<1>1. /\ Used \in Seq(Byte) /\ Len(Used) = Len(taken) /\ Given \in Seq(Byte) /\ Len(Given) = Len(held)
      /\ \A i \in 1 .. Len(held) : held[i] \in 1 .. Len(log)
  BY UsedType
<1>2. /\ taken \in Seq(Nat) /\ held \in Seq(Nat) /\ Len(taken) \in Nat /\ Len(held) \in Nat
  BY DEF FifoInv, FifoTypeOK
<1> DEFINE a == SubSeq(held, 1, n)
           b == SubSeq(Given, 1, n)
<1>3. a \in Seq(Nat) /\ Len(a) = n /\ \A i \in 1 .. n : a[i] = held[i]
  BY <1>2
<1>4. b \in Seq(Byte) /\ Len(b) = n /\ \A i \in 1 .. n : b[i] = Given[i]
  BY <1>1, <1>2
<1>5. \A i \in 1 .. n : Given[i] = log[held[i]]
  BY <1>2 DEF Given
<1>6. taken' = taken \o a
  OBVIOUS
<1> HIDE DEF a, b
<1>7. Len(taken') = Len(taken) + n
  BY <1>2, <1>3, <1>6
<1>8. Used' = [i \in 1 .. Len(taken) + n |-> log[taken'[i]]]
  BY <1>7 DEF Used
<1>9. Used \o b \in Seq(Byte) /\ Len(Used \o b) = Len(taken) + n
  <2>1. Used \o b \in Seq(Byte) /\ Len(Used \o b) = Len(Used) + Len(b)
    <3>1. Used \in Seq(Byte) /\ b \in Seq(Byte)
      BY <1>1, <1>4
    <3> QED BY ONLY <3>1
  <2> QED BY <1>1, <1>4, <2>1
<1>10. ASSUME NEW i \in 1 .. Len(taken) + n PROVE log[taken'[i]] = (Used \o b)[i]
  <2>1. CASE i <= Len(taken)
    <3>1. taken'[i] = taken[i] /\ i \in 1 .. Len(taken)
      BY <1>2, <1>3, <1>6, <2>1, ConcatAt
    <3>2. (Used \o b)[i] = Used[i]
      BY <1>1, <1>2, <1>4, <2>1
    <3>3. Used[i] = log[taken[i]]
      BY <3>1 DEF Used
    <3> QED BY <3>1, <3>2, <3>3
  <2>2. CASE i > Len(taken)
    <3>1. PICK k \in 1 .. n : i = Len(taken) + k
      <4>1. i - Len(taken) \in 1 .. n /\ i = Len(taken) + (i - Len(taken))
        BY <1>2, <2>2
      <4> QED BY <4>1
    <3>2. taken'[i] = a[k]
      <4>1. k \in 1 .. Len(a)
        BY <1>3, <3>1
      <4>2. (taken \o a)[Len(taken) + k] = a[k]
        BY <1>2, <1>3, <4>1, ConcatAt
      <4> QED BY <1>6, <3>1, <4>2
    <3>3. (Used \o b)[i] = b[k]
      <4>1. k \in 1 .. Len(b) /\ i = Len(Used) + k
        BY <1>1, <1>4, <3>1
      <4>2. Used \in Seq(Byte) /\ b \in Seq(Byte)
        BY <1>1, <1>4
      <4> QED BY ONLY <4>1, <4>2
    <3> QED BY <1>3, <1>4, <1>5, <3>1, <3>2, <3>3
  <2>3. i <= Len(taken) \/ i > Len(taken)
    BY <1>2
  <2> QED BY <2>1, <2>2, <2>3, Zenon
<1>11. Used' = [i \in 1 .. Len(taken) + n |-> (Used \o b)[i]]
  BY <1>8, <1>10, Zenon
<1>12. Used \o b = [i \in 1 .. Len(Used \o b) |-> (Used \o b)[i]]
  <2>1. PICK t \in Seq(Byte) : t = Used \o b
    BY <1>9
  <2>2. t = [i \in 1 .. Len(t) |-> t[i]]
    BY ONLY t \in Seq(Byte)
  <2> QED BY <2>1, <2>2, Zenon
<1> QED BY <1>9, <1>11, <1>12 DEF b

LEMMA DecodeUsed ==
  ASSUME BusInv
  PROVE  Running(Decoded(Given), Used, Given, Len(Given))
<1>1. FifoInv /\ log \in Seq(Byte) /\ Len(log) = arrived /\ DecoderOK /\ Located(decoder, Used)
  BY TypeSplit DEF BusInv, SenderType
<1>2. Used \in Seq(Byte) /\ Given \in Seq(Byte)
  BY <1>1, UsedType
<1>3. Running(Start, Used, Given, 0)
  BY <1>1, <1>2, StartRunning DEF DecoderOK
<1> QED BY <1>2, <1>3, DecodedRunning

LEMMA DecodeKeeps == BusInv /\ FifoInv' /\ BusDecode => BusInv'
<1> SUFFICES ASSUME BusInv, FifoInv', BusDecode PROVE BusInv'
  OBVIOUS
<1>1. SenderType /\ FifoInv /\ log \in Seq(Byte) /\ Len(log) = arrived /\ AcceptedRight
  BY TypeSplit DEF BusInv, SenderType
<1>2. /\ Used \in Seq(Byte) /\ Len(Used) = Len(taken) /\ Given \in Seq(Byte) /\ Len(Given) = Len(held)
      /\ Len(taken) \in Nat /\ Len(held) \in Nat
  BY <1>1, UsedType DEF FifoInv, FifoTypeOK
<1> DEFINE d == Decoded(Given)
<1>3. Running(d, Used, Given, Len(Given))
  BY DecodeUsed
<1>4. /\ PutBack /\ taken' = taken \o SubSeq(held, 1, d.used) /\ decoder' = Kept(d)
      /\ accepted' = IF d.rc = "BUS_MSG_OK"
                     THEN Append(accepted, [at |-> Len(taken'), msg |-> d.msg])
                     ELSE accepted
      /\ sending' = sending /\ sent' = sent /\ faults' = faults /\ log' = log
  BY DEF BusDecode, Given
<1> HIDE DEF d
<1>5. d \in DecoderType /\ d.used \in 0 .. Len(held) /\ (d.rc = "BUS_MSG_OK" => d.used > 0)
  <2>1. d \in DecoderType
    BY <1>3 DEF Running
  <2>2. d.rc \in {"BUS_MSG_RXING", "BUS_MSG_OK", "BUS_MSG_ERROR"}
    BY <2>1 DEF DecoderType
  <2> QED BY <1>2, <1>3, <2>1, <2>2 DEF Running
<1>6. Used' = Input(Used, Given, d)
  BY <1>1, <1>4, <1>5, UsedInput DEF Input
<1>7. /\ Used' \in Seq(Byte) /\ Len(Used') = Len(taken') /\ Len(Used') = Len(Used) + d.used
      /\ \A i \in 1 .. Len(Used) : Used'[i] = Used[i]
  <2>1. SubSeq(Given, 1, d.used) \in Seq(Byte) /\ Len(SubSeq(Given, 1, d.used)) = d.used
    BY <1>2, <1>5
  <2>2. Used' = Used \o SubSeq(Given, 1, d.used)
    BY <1>6 DEF Input
  <2>3. /\ Used' \in Seq(Byte) /\ Len(Used') = Len(Used) + d.used
        /\ \A i \in 1 .. Len(Used) : Used'[i] = Used[i]
    BY <1>2, <2>1, <2>2
  <2>4. Len(taken') = Len(taken) + d.used
    <3>1. taken \in Seq(Nat) /\ held \in Seq(Nat)
      BY <1>1 DEF FifoInv, FifoTypeOK
    <3>2. SubSeq(held, 1, d.used) \in Seq(Nat) /\ Len(SubSeq(held, 1, d.used)) = d.used
      BY <1>2, <1>5, <3>1
    <3> QED BY <1>4, <3>1, <3>2
  <2> QED BY <1>2, <2>3, <2>4
<1>8. DecoderOK' /\ Located(decoder', Used')
  <2>1. /\ Kept(d) \in StaticsType
        /\ Kept(d).l1 # "RX_MSG" => Kept(d).l2 = "WAIT_FOR_SENDER_ADDR"
        /\ Located(Kept(d), Input(Used, Given, d))
    BY <1>2, <1>3, KeptRight
  <2> QED BY <1>4, <1>6, <2>1 DEF DecoderOK
<1>9. SenderType'
  <2>1. Len(q') <= Cap
    <3>1. PICK k \in 0 .. Len(held) : q' = Fitting(SubSeq(held, k + 1, Len(held)) \o q)
      BY <1>4 DEF PutBack
    <3>2. held \in Seq(Nat) /\ q \in Seq(Nat)
      BY <1>1 DEF FifoInv, FifoTypeOK
    <3>3. SubSeq(held, k + 1, Len(held)) \in Seq(Nat)
      BY <3>2, SplitSeq
    <3>4. SubSeq(held, k + 1, Len(held)) \o q \in Seq(Nat)
      BY <3>2, <3>3
    <3> QED BY <3>1, <3>4, FittingLength
  <2>2. held' = <<>> /\ arrived' = arrived
    BY <1>4 DEF PutBack
  <2>3. Len(held') <= MaxRead
    BY <2>2, BusRxAssumption
  <2> QED BY <1>1, <1>4, <2>1, <2>2, <2>3 DEF SenderType
<1>10. TypeOK'
  BY <1>8, <1>9, TypeSplit, PTL
<1>11. ASSUME NEW k \in 1 .. Len(accepted)
       PROVE  Sound(accepted[k], Used') /\ accepted[k].at <= Len(Used)
  <2>1. Sound(accepted[k], Used)
    BY <1>1 DEF AcceptedRight
  <2>2. Len(Used) <= Len(Used')
    BY <1>2, <1>5, <1>7
  <2>3. Sound(accepted[k], Used')
    BY <1>2, <1>7, <2>1, <2>2, SoundStays
  <2>4. accepted[k].at \in 1 .. Len(Used)
    BY <2>1 DEF Sound
  <2> QED BY <1>2, <2>3, <2>4
<1>12. accepted \in Seq([at : Nat, msg : Seq(Byte)]) /\ Len(accepted) \in Nat
  BY <1>1 DEF AcceptedRight
<1>13. AcceptedRight'
  <2>1. CASE d.rc # "BUS_MSG_OK"
    <3>1. accepted' = accepted
      BY <1>4, <2>1
    <3> QED BY <1>1, <1>11, <3>1 DEF AcceptedRight
  <2>2. CASE d.rc = "BUS_MSG_OK"
    <3> DEFINE a == [at |-> Len(taken'), msg |-> d.msg]
               n == Len(accepted)
    <3>1. Sound(a, Used')
      <4>1. Reported(d, Used')
        BY <1>3, <1>6, <2>2 DEF Running
      <4>2. Sound([at |-> Len(Used'), msg |-> d.msg], Used')
        BY <1>5, <1>7, <4>1, ReportedSound
      <4> QED BY <1>7, <4>2
    <3>2. a \in [at : Nat, msg : Seq(Byte)] /\ a.at > Len(Used)
      BY <1>2, <1>5, <1>7, <2>2 DEF DecoderType
    <3>3. accepted' = Append(accepted, a)
      BY <1>4, <2>2
    <3> HIDE DEF a
    <3>4. /\ accepted' \in Seq([at : Nat, msg : Seq(Byte)]) /\ Len(accepted') = n + 1
          /\ accepted'[n + 1] = a /\ \A k \in 1 .. n : accepted'[k] = accepted[k]
      BY <1>12, <3>2, <3>3
    <3>5. ASSUME NEW k \in 1 .. n + 1
          PROVE  Sound(accepted'[k], Used') /\ (k > 1 => accepted'[k - 1].at < accepted'[k].at)
      <4>1. CASE k = n + 1
        <5>1. Sound(accepted'[k], Used') /\ accepted'[k] = a
          BY <3>1, <3>4, <4>1
        <5>2. ASSUME k > 1 PROVE accepted'[k - 1].at < a.at
          <6>1. k - 1 \in 1 .. n
            BY <1>12, <4>1, <5>2
          <6>2. accepted'[k - 1] = accepted[k - 1]
            BY <3>4, <6>1
          <6>3. accepted[k - 1].at <= Len(Used)
            BY <1>11, <6>1
          <6>4. accepted[k - 1] \in [at : Nat, msg : Seq(Byte)]
            <7>1. PICK j \in 1 .. Len(accepted) : j = k - 1
              BY <6>1
            <7>2. accepted[j] \in [at : Nat, msg : Seq(Byte)]
              BY <1>12, ElementOfSeq
            <7> QED BY <7>1, <7>2
          <6>5. accepted[k - 1].at \in Nat
            BY <6>4
          <6>6. a.at \in Nat
            BY <3>2
          <6> QED BY <1>2, <3>2, <6>2, <6>3, <6>5, <6>6
        <5> QED BY <5>1, <5>2
      <4>2. CASE k # n + 1
        <5>1. k \in 1 .. n /\ accepted'[k] = accepted[k] /\ Sound(accepted[k], Used')
          <6>1. k \in 1 .. n
            BY <1>12, <4>2
          <6> QED BY <1>11, <3>4, <6>1
        <5>2. ASSUME k > 1 PROVE accepted'[k - 1] = accepted[k - 1]
          <6>1. k - 1 \in 1 .. n
            BY <1>12, <5>1, <5>2
          <6> QED BY <3>4, <6>1
        <5>3. k > 1 => accepted[k - 1].at < accepted[k].at
          BY <1>1, <5>1 DEF AcceptedRight
        <5> QED BY <5>1, <5>2, <5>3
      <4> QED BY <4>1, <4>2
    <3> QED BY <3>4, <3>5 DEF AcceptedRight
  <2> QED BY <2>1, <2>2
<1> QED BY <1>8, <1>10, <1>13 DEF BusInv

LEMMA BusStarts == Init => BusInv
<1> SUFFICES ASSUME Init PROVE BusInv
  OBVIOUS
<1>1. FifoInv
  BY FifoStarts DEF Init
<1>2. TypeOK
  <2>1. Idle \in StaticsType /\ Idle.l2 = "WAIT_FOR_SENDER_ADDR"
    BY DEF Idle, StaticsType, Byte
  <2>2. SenderType
    BY BusRxAssumption, CapAssumption DEF Init, FifoInit, SenderType
  <2> QED BY <2>1, <2>2, TypeSplit DEF Init, DecoderOK
<1>3. Located(decoder, Used)
  BY DEF Init, Idle, Located
<1>4. AcceptedRight
  BY DEF Init, AcceptedRight
<1> QED BY <1>1, <1>2, <1>3, <1>4 DEF BusInv

LEMMA BusStep == BusInv /\ [Next]_vars => BusInv'
<1> SUFFICES ASSUME BusInv, [Next]_vars PROVE BusInv'
  OBVIOUS
<1>1. FifoInv'
  BY QueueStep, FifoStep DEF BusInv
<1>2. CASE UNCHANGED vars
  BY <1>1, <1>2 DEF vars, fifoVars, busVars, BusInv, TypeOK, AcceptedRight, Used
<1> QED BY <1>1, <1>2, SendKeeps, TransmitKeeps, DisturbKeeps, CheckKeeps, DecodeKeeps DEF Next

(* Type correctness of the receiver and of the queue. *)
THEOREM TypeCorrect == Spec => []TypeOK
<1>1. BusInv => TypeOK
  BY DEF BusInv
<1> QED BY <1>1, BusStarts, BusStep, PTL DEF Spec

LEMMA AcceptedGenuine == BusInv => Genuine
<1> SUFFICES ASSUME BusInv, NEW k \in DOMAIN accepted
    PROVE  LET a == accepted[k]
           IN  /\ k > 1 => accepted[k - 1].at < a.at
               /\ \E i \in 1 .. a.at - 1 :
                    LET chars == [j \in 1 .. a.at - i |-> log[taken[i + j]]]
                    IN  /\ log[taken[i]] = STX /\ \A j \in DOMAIN chars : chars[j] # STX
                        /\ Plain(chars) = Append(a.msg, Sum(<<STX>> \o a.msg))
               /\ Known(a.msg[2]) /\ Len(a.msg) % 256 = LengthOf(a.msg)
  BY DEF Genuine
<1> DEFINE a == accepted[k]
<1>1. /\ AcceptedRight /\ k \in 1 .. Len(accepted) /\ Len(Used) = Len(taken) /\ Len(taken) \in Nat
  <2>1. AcceptedRight /\ FifoInv /\ log \in Seq(Byte) /\ Len(log) = arrived
    BY DEF BusInv, TypeOK
  <2>2. Len(Used) = Len(taken)
    BY <2>1, UsedType
  <2>3. Len(taken) \in Nat
    BY <2>1 DEF FifoInv, FifoTypeOK
  <2>4. DOMAIN accepted = 1 .. Len(accepted)
    BY <2>1 DEF AcceptedRight
  <2> QED BY <2>1, <2>2, <2>3, <2>4
<1>2. Sound(a, Used) /\ (k > 1 => accepted[k - 1].at < a.at)
  BY <1>1 DEF AcceptedRight
<1> HIDE DEF a
<1>3. PICK i \in 1 .. a.at - 1 :
       LET chars == [j \in 1 .. a.at - i |-> Used[i + j]]
       IN  /\ Used[i] = STX /\ \A j \in DOMAIN chars : chars[j] # STX
           /\ Plain(chars) = Append(a.msg, Sum(<<STX>> \o a.msg))
  BY <1>2 DEF Sound
<1>4. a.at \in 1 .. Len(taken)
  BY <1>1, <1>2 DEF Sound
<1>5. i \in 1 .. Len(taken) /\ \A j \in 1 .. a.at - i : i + j \in 1 .. Len(taken)
  BY <1>1, <1>4
<1>6. /\ Used[i] = log[taken[i]]
      /\ [j \in 1 .. a.at - i |-> Used[i + j]] = [j \in 1 .. a.at - i |-> log[taken[i + j]]]
  BY <1>5 DEF Used
<1>7. Known(a.msg[2]) /\ Len(a.msg) % 256 = LengthOf(a.msg)
  BY <1>2 DEF Sound
<1> QED BY <1>2, <1>3, <1>6, <1>7 DEF a

(* Whatever is corrupted, lost or added, a telegram that is reported with      *)
(* BUS_MSG_OK is what followed the last STX.                                   *)
THEOREM OnlyGenuine == Spec => []Genuine
<1> QED BY AcceptedGenuine, BusStarts, BusStep, PTL DEF Spec

-----------------------------------------------------------------------------
(* The beginnings of a telegram that was sent. *)
(* The first j characters of a telegram. *)
First(msg, j) == SubSeq(msg, 1, j)

LEMMA FirstType ==
  ASSUME NEW msg \in Seq(Byte), NEW j \in 0 .. Len(msg)
  PROVE  /\ First(msg, j) \in Seq(Byte) /\ Len(First(msg, j)) = j
         /\ \A i \in 1 .. j : First(msg, j)[i] = msg[i]
BY DEF First

LEMMA FirstNext ==
  ASSUME NEW msg \in Seq(Byte), NEW j \in Nat, j + 1 <= Len(msg)
  PROVE  First(msg, j + 1) = Append(First(msg, j), msg[j + 1])
<1> DEFINE a == First(msg, j)
           b == First(msg, j + 1)
<1>1. Len(msg) \in Nat /\ j \in 0 .. Len(msg) /\ j + 1 \in 0 .. Len(msg) /\ j + 1 \in 1 .. Len(msg)
  OBVIOUS
<1>2. a \in Seq(Byte) /\ Len(a) = j /\ \A i \in 1 .. j : a[i] = msg[i]
  BY <1>1, FirstType
<1>3. b \in Seq(Byte) /\ Len(b) = j + 1 /\ \A i \in 1 .. j + 1 : b[i] = msg[i]
  BY <1>1, FirstType
<1>4. msg[j + 1] \in Byte
  BY <1>1
<1> HIDE DEF a, b
<1> DEFINE c == Append(a, msg[j + 1])
<1>5. /\ c \in Seq(Byte) /\ Len(c) = j + 1 /\ c[j + 1] = msg[j + 1]
      /\ \A i \in 1 .. j : c[i] = a[i]
  BY <1>2, <1>4, AppendAt
<1> HIDE DEF c
<1>6. \A i \in 1 .. j + 1 : c[i] = b[i]
  <2> SUFFICES ASSUME NEW i \in 1 .. j + 1 PROVE c[i] = b[i]
    OBVIOUS
  <2>1. CASE i = j + 1
    BY <1>3, <1>5, <2>1
  <2>2. CASE i # j + 1
    <3>1. i \in 1 .. j
      BY <2>2
    <3> QED BY <1>2, <1>3, <1>5, <3>1
  <2> QED BY <2>1, <2>2
<1>7. b = c
  BY <1>3, <1>5, <1>6, SeqEqual
<1> QED BY <1>7 DEF a, b, c

(* What a telegram tells of itself. *)
LEMMA TelegramSize ==
  ASSUME NEW msg \in Telegrams
  PROVE  /\ msg \in Seq(Byte) /\ Len(msg) \in 2 .. 255 /\ Len(msg) = LengthOf(msg)
         /\ Known(msg[2]) /\ Sized(SizeOf(msg[2]))
         /\ SizeOf(msg[2]).kind # "const" => Len(msg) > SizeOf(msg[2]).offset
         /\ SizeOf(msg[2]).kind = "devType" =>
              msg[SizeOf(msg[2]).offset + 1] \in DOMAIN SizeOf(msg[2]).lens
<1> DEFINE size == SizeOf(msg[2])
<1>1. msg \in Seq(Byte) /\ Sendable(msg)
  BY BusRxAssumption, TelegramsAssumption
<1>2. /\ Len(msg) > 1 /\ Known(msg[2]) /\ Len(msg) = LengthOf(msg)
      /\ size.kind # "const" => Len(msg) > size.offset
      /\ size.kind = "devType" => msg[size.offset + 1] \in DOMAIN size.lens
  BY <1>1 DEF Sendable
<1>3. Sized(size)
  BY <1>2, TableSized
<1>4. LengthOf(msg) = CASE size.kind = "const" -> size.len
        [] size.kind = "devType" -> size.lens[msg[size.offset + 1]]
        [] size.kind = "direct" -> (msg[size.offset + 1] + size.add) % 256
  BY DEF LengthOf
<1> HIDE DEF size
<1>5. LengthOf(msg) <= 255
  <2>1. CASE size.kind = "const"
    <3>1. size.len \in 2 .. 255 /\ LengthOf(msg) = size.len
      BY <1>3, <1>4, <2>1, SizedParts
    <3> QED BY <3>1
  <2>2. CASE size.kind = "devType"
    <3>1. PICK x : x = msg[size.offset + 1] /\ x \in DOMAIN size.lens
      BY <1>2, <2>2
    <3>2. size.lens[x] \in 5 .. 255
      BY <1>3, <2>2, <3>1, SizedParts
    <3>3. LengthOf(msg) = size.lens[x]
      BY <1>4, <2>2, <3>1
    <3> QED BY <3>2, <3>3
  <2>3. CASE size.kind = "direct"
    <3>1. size.offset \in 3 .. 5 /\ size.add = size.offset + 1
      BY <1>3, <2>3, SizedParts
    <3>2. PICK x \in Byte : x = msg[size.offset + 1]
      <4>1. size.offset + 1 \in 1 .. Len(msg)
        BY <1>1, <1>2, <2>3, <3>1
      <4> QED BY <1>1, <4>1
    <3>3. LengthOf(msg) = (x + size.add) % 256
      BY <1>4, <2>3, <3>2
    <3> QED BY <3>1, <3>3 DEF Byte
  <2> QED BY <1>3, <2>1, <2>2, <2>3, SizedParts
<1>6. Len(msg) \in 2 .. 255
  <2>1. Len(msg) \in Nat
    BY <1>1
  <2>2. Len(msg) <= 255
    BY <1>2, <1>5, Zenon
  <2>3. Len(msg) > 1
    BY <1>2, Zenon
  <2>4. \A n \in Nat : n <= 255 /\ n > 1 => n \in 2 .. 255
    OBVIOUS
  <2> QED BY ONLY <2>1, <2>2, <2>3, <2>4, Zenon
<1> QED BY <1>1, <1>2, <1>3, <1>6 DEF size

-----------------------------------------------------------------------------
(* Where the decoder is in it. *)
(* The decoder in a telegram that was sent: it knows where the telegram ends. *)
LEMMA Matching ==
  ASSUME NEW msg \in Telegrams, NEW j \in 0 .. Len(msg), NEW d \in DecoderType,
         Holds(d, First(msg, j))
  PROVE  IF j < Len(msg) THEN d.l1 = "RX_MSG" ELSE d.l1 = "WAIT_FOR_CHECKSUM" /\ d.msg = msg
<1> DEFINE p == First(msg, j)
           size == SizeOf(msg[2])
<1>1. /\ msg \in Seq(Byte) /\ Len(msg) \in 2 .. 255 /\ Len(msg) = LengthOf(msg) /\ Sized(size)
      /\ size.kind # "const" => Len(msg) > size.offset
  BY TelegramSize
<1>2. p \in Seq(Byte) /\ Len(p) = j /\ \A i \in 1 .. j : p[i] = msg[i]
  BY <1>1, FirstType
<1>3. LengthOf(msg) = CASE size.kind = "const" -> size.len
        [] size.kind = "devType" -> size.lens[msg[size.offset + 1]]
        [] size.kind = "direct" -> (msg[size.offset + 1] + size.add) % 256
  BY DEF LengthOf
<1>4. ASSUME j > 1 PROVE p[2] = msg[2] /\ SizeOf(p[2]) = size
  BY <1>2, <1>4
<1>5. LengthOf(p) = LET s == SizeOf(p[2])
                    IN  CASE s.kind = "const" -> s.len
                          [] s.kind = "devType" -> s.lens[p[s.offset + 1]]
                          [] s.kind = "direct" -> (p[s.offset + 1] + s.add) % 256
  BY DEF LengthOf
<1>6. p = First(msg, j)
  OBVIOUS
<1> HIDE DEF p, size
<1>7. ASSUME j > 1, size.kind # "const" => j > size.offset PROVE LengthOf(p) = Len(msg)
  <2>1. CASE size.kind = "const"
    BY <1>1, <1>3, <1>4, <1>5, <1>7, <2>1
  <2>2. CASE size.kind # "const"
    <3>1. size.offset \in 3 .. 5
      BY <1>1, <2>2, SizedParts
    <3>2. size.offset + 1 \in 1 .. j
      BY <1>7, <2>2, <3>1
    <3>3. p[size.offset + 1] = msg[size.offset + 1]
      BY <1>2, <3>2
    <3>4. size.kind = "devType" \/ size.kind = "direct"
      BY <1>1, <2>2, SizedParts
    <3> QED BY <1>1, <1>3, <1>4, <1>5, <1>7, <3>3, <3>4
  <2> QED BY <2>1, <2>2
<1>8. CASE d.l1 = "WAIT_FOR_CHECKSUM"
  <2>1. p = d.msg /\ Whole(p)
    BY <1>6, <1>8 DEF Holds
  <2>2. j > 1 /\ Len(p) % 256 = LengthOf(p)
    BY <1>2, <2>1 DEF Whole
  <2>3. size.kind # "const" => j > size.offset
    BY <1>2, <1>4, <2>1, <2>2 DEF Whole
  <2>4. LengthOf(p) = Len(msg)
    BY <1>7, <2>2, <2>3
  <2>5. j = Len(msg)
    <3>1. j % 256 = Len(msg)
      BY <1>2, <2>2, <2>4
    <3> QED BY <1>1, <3>1
  <2>6. p = msg
    BY <1>1, <1>2, <2>5, SeqEqual
  <2> QED BY <1>8, <2>1, <2>5, <2>6
<1>9. CASE d.l1 = "RX_MSG"
  <2>1. \/ j = 0 \/ j = 1
        \/ j > 1 /\ Partial(p, d.last)
    BY <1>2, <1>6, <1>9 DEF Holds, Partial
  <2>2. ASSUME j > 1, Partial(p, d.last) PROVE j < Len(msg)
    <3>1. \/ size.kind = "const" /\ d.last = size.len - 1 /\ j <= d.last
          \/ size.kind # "const" /\ j <= size.offset
          \/ /\ size.kind = "devType" /\ j > size.offset
             /\ d.last = size.lens[p[size.offset + 1]] - 1 /\ j <= d.last
          \/ /\ size.kind = "direct" /\ j > size.offset
             /\ d.last = (p[size.offset + 1] + size.add - 1) % 256
             /\ j <= d.last \/ d.last < size.offset
      BY <1>2, <1>4, <2>2 DEF Partial
    <3>2. CASE size.kind = "const"
      <4>1. size.len \in 2 .. 255 /\ Len(msg) = size.len /\ d.last = size.len - 1 /\ j <= d.last
        BY <1>1, <1>3, <3>1, <3>2, SizedParts
      <4> QED BY <4>1
    <3>3. CASE size.kind # "const" /\ j <= size.offset
      <4>1. size.offset \in 3 .. 5 /\ Len(msg) > size.offset
        BY <1>1, <3>3, SizedParts
      <4> QED BY <1>1, <3>3, <4>1
    <3>4. CASE size.kind # "const" /\ j > size.offset
      <4>1. size.offset \in 3 .. 5
        BY <1>1, <3>4, SizedParts
      <4>2. size.offset + 1 \in 1 .. j
        BY <3>4, <4>1
      <4>3. p[size.offset + 1] = msg[size.offset + 1] /\ msg[size.offset + 1] \in Byte
        <5>1. size.offset + 1 \in 1 .. Len(msg)
          BY <1>1, <4>2
        <5> QED BY <1>1, <1>2, <4>2, <5>1
      <4>4. CASE size.kind = "devType"
        <5>1. d.last = size.lens[p[size.offset + 1]] - 1 /\ j <= d.last
          BY <3>1, <3>4, <4>1, <4>4
        <5>2. size.lens[p[size.offset + 1]] = Len(msg)
          BY <1>1, <1>3, <4>3, <4>4
        <5> QED BY <1>1, <5>1, <5>2
      <4>5. CASE size.kind = "direct"
        <5>1. /\ d.last = (p[size.offset + 1] + size.add - 1) % 256
              /\ j <= d.last \/ d.last < size.offset
          BY <3>1, <3>4, <4>1, <4>5
        <5>2. Len(msg) = (p[size.offset + 1] + size.add) % 256
          BY <1>1, <1>3, <4>3, <4>5
        <5>3. size.add = size.offset + 1 /\ Len(msg) > size.offset
          BY <1>1, <3>4, <4>5, SizedParts
        <5>4. PICK x \in 0 .. 255 : x = p[size.offset + 1]
          BY <4>3 DEF Byte
        <5>5. PICK a \in 4 .. 6 : a = size.add
          BY <4>1, <5>3
        <5>6. d.last = (x + a - 1) % 256 /\ Len(msg) = (x + a) % 256
          BY <5>1, <5>2, <5>4, <5>5
        <5>7. d.last = Len(msg) - 1
          <6>1. (x + a) % 256 > 0 => (x + a - 1) % 256 = ((x + a) % 256) - 1
            OBVIOUS
          <6>2. Len(msg) > 0
            <7>1. \A n \in 2 .. 255 : n > 0
              OBVIOUS
            <7> QED BY <1>1, <7>1, Zenon
          <6>3. (x + a) % 256 > 0
            BY <5>6, <6>2, Zenon
          <6>4. (x + a - 1) % 256 = ((x + a) % 256) - 1
            BY ONLY <6>1, <6>3
          <6> QED BY <5>6, <6>4, Zenon
        <5>8. ~(d.last < size.offset)
          BY <1>1, <4>1, <5>3, <5>7
        <5> QED BY <1>1, <5>1, <5>7, <5>8
      <4> QED BY <1>1, <3>4, <4>4, <4>5, SizedParts
    <3> QED BY <3>1, <3>2, <3>3, <3>4
  <2>3. j < Len(msg)
    <3>1. \A n \in 2 .. 255 : 0 < n /\ 1 < n
      OBVIOUS
    <3>2. 0 < Len(msg) /\ 1 < Len(msg)
      BY <1>1, <3>1, Zenon
    <3> QED BY <2>1, <2>2, <3>2, Zenon
  <2> QED BY <1>9, <2>3
<1> QED BY <1>8, <1>9 DEF Holds

-----------------------------------------------------------------------------
(* It is not rejected. *)
(* A telegram that was sent is not rejected. *)
LEMMA NoError ==
  ASSUME NEW msg \in Telegrams, NEW j \in Nat, j + 1 <= Len(msg), NEW d \in DecoderType,
         d.rc = "BUS_MSG_RXING", d.l1 = "RX_MSG", Holds(d, First(msg, j)),
         NEW e, e = L2StateMachine(d, msg[j + 1])
  PROVE  e.rc = "BUS_MSG_RXING"
<1> DEFINE p == First(msg, j)
           ch == msg[j + 1]
           size == SizeOf(msg[2])
<1>1. /\ msg \in Seq(Byte) /\ Known(msg[2]) /\ Sized(size)
      /\ size.kind = "devType" => msg[size.offset + 1] \in DOMAIN size.lens
  BY TelegramSize
<1>2. j \in 0 .. Len(msg) /\ ch \in Byte
  BY <1>1
<1>3. p \in Seq(Byte) /\ Len(p) = j /\ \A i \in 1 .. j : p[i] = msg[i]
  BY <1>1, <1>2, FirstType
<1>4. Holds(d, p) /\ e = L2StateMachine(d, ch)
  OBVIOUS
<1> HIDE DEF p, ch, size
<1>5. CASE d.l2 = "WAIT_FOR_SENDER_ADDR"
  <2>1. e = [d EXCEPT !.msg = <<ch>>, !.last = 255, !.l2 = "WAIT_FOR_TYPE"]
    BY <1>4, <1>5 DEF L2StateMachine
  <2> QED BY <2>1 DEF DecoderType
<1>6. CASE d.l2 = "WAIT_FOR_TYPE"
  <2>1. j = 1
    BY <1>3, <1>4, <1>6 DEF Holds
  <2>2. Known(ch)
    BY <1>1, <2>1 DEF ch
  <2>3. e = L2Type(d, ch)
    BY <1>4, <1>6 DEF L2StateMachine
  <2> DEFINE f == [d EXCEPT !.msg = Append(@, ch), !.last = 0]
             g == [f EXCEPT !.last = SizeOf(ch).len - 1]
  <2>4. e = IF SizeOf(ch).kind = "const"
            THEN IF g.last = 1 THEN Complete(g) ELSE InProgress(g)
            ELSE InProgress(f)
    BY <2>2, <2>3 DEF L2Type
  <2>5. f.rc = d.rc
    BY DEF DecoderType
  <2>6. g.rc = d.rc
    BY DEF DecoderType
  <2>7. Complete(g).rc = g.rc /\ InProgress(g).rc = g.rc
    BY DEF DecoderType, Complete, InProgress
  <2>8. InProgress(f).rc = f.rc
    BY DEF DecoderType, InProgress
  <2> HIDE DEF f, g
  <2> QED BY <2>4, <2>5, <2>6, <2>7, <2>8
<1>7. CASE d.l2 = "WAIT_FOR_MSG"
  <2>1. p = d.msg /\ j > 1
    BY <1>3, <1>4, <1>7 DEF Holds, Partial
  <2>2. SizeOf(d.msg[2]) = size /\ Len(d.msg) = j
    BY <1>3, <2>1 DEF size
  <2>3. e = L2Msg(d, ch)
    BY <1>4, <1>7 DEF L2StateMachine
  <2> DEFINE f == [d EXCEPT !.msg = Append(@, ch)]
  <2>4. e = IF j = d.last THEN Complete(f)
            ELSE IF size.kind = "devType" /\ j = size.offset
            THEN IF ch \in DOMAIN size.lens THEN [f EXCEPT !.last = size.lens[ch] - 1] ELSE Error(f)
            ELSE IF size.kind = "direct" /\ j = size.offset
            THEN LET g == [f EXCEPT !.last = (ch + size.add - 1) % 256]
                 IN  IF g.last = j THEN Complete(g) ELSE g
            ELSE f
    BY <2>2, <2>3 DEF L2Msg
  <2>5. size.kind = "devType" /\ j = size.offset => ch \in DOMAIN size.lens
    BY <1>1 DEF ch
  <2>6. f.rc = d.rc /\ Complete(f).rc = d.rc /\ [f EXCEPT !.last = size.lens[ch] - 1].rc = d.rc
    BY DEF DecoderType, Complete
  <2> DEFINE g == [f EXCEPT !.last = (ch + size.add - 1) % 256]
  <2>7. g.rc = d.rc
    BY DEF DecoderType
  <2>8. Complete(g).rc = d.rc
    BY DEF DecoderType, Complete
  <2>9. CASE size.kind = "direct" /\ j = size.offset /\ j # d.last
    <3>1. e = IF g.last = j THEN Complete(g) ELSE g
      BY <2>4, <2>9
    <3> HIDE DEF g
    <3> QED BY <2>7, <2>8, <3>1
  <2>10. CASE ~(size.kind = "direct" /\ j = size.offset /\ j # d.last)
    <3>1. \/ e = f \/ e = Complete(f) \/ e = [f EXCEPT !.last = size.lens[ch] - 1]
      BY <2>4, <2>5, <2>10
    <3> QED BY <2>6, <3>1
  <2> QED BY <2>9, <2>10
<1> QED BY <1>5, <1>6, <1>7 DEF DecoderType

-----------------------------------------------------------------------------
(* The characters in, at t the end of s. *)
At(in, t, s) == Len(s) <= t /\ t <= Len(in) /\ \A k \in 1 .. Len(s) : in[t - Len(s) + k] = s[k]

LEMMA AtStays ==
  ASSUME NEW in \in Seq(Byte), NEW out \in Seq(Byte), Len(in) <= Len(out),
         \A i \in 1 .. Len(in) : out[i] = in[i], NEW s \in Seq(Byte), NEW t \in 0 .. Len(in)
  PROVE  At(out, t, s) <=> At(in, t, s)
<1>1. Len(s) \in Nat /\ Len(in) \in Nat /\ Len(out) \in Nat
  OBVIOUS
<1>2. ASSUME Len(s) <= t, NEW k \in 1 .. Len(s) PROVE out[t - Len(s) + k] = in[t - Len(s) + k]
  <2>1. t - Len(s) + k \in 1 .. Len(in)
    BY <1>1, <1>2
  <2> QED BY <2>1
<1>3. t <= Len(in) /\ t <= Len(out)
  BY <1>1
<1> QED BY <1>2, <1>3 DEF At

(* What ends with s and one more character. *)
LEMMA AtNext ==
  ASSUME NEW in \in Seq(Byte), NEW c \in Byte, NEW s \in Seq(Byte), NEW x \in Byte,
         At(Append(in, c), Len(in) + 1, Append(s, x))
  PROVE  c = x /\ At(in, Len(in), s)
<1> DEFINE out == Append(in, c)
           r == Append(s, x)
<1>1. /\ Len(in) \in Nat /\ Len(s) \in Nat /\ Len(out) = Len(in) + 1 /\ Len(r) = Len(s) + 1
      /\ out[Len(in) + 1] = c /\ \A i \in 1 .. Len(in) : out[i] = in[i]
      /\ r[Len(s) + 1] = x /\ \A i \in 1 .. Len(s) : r[i] = s[i]
  BY AppendAt
<1>2. Len(r) <= Len(in) + 1 /\ \A k \in 1 .. Len(r) : out[Len(in) + 1 - Len(r) + k] = r[k]
  <2>1. At(out, Len(in) + 1, r)
    OBVIOUS
  <2> HIDE DEF out, r
  <2> QED BY <2>1 DEF At
<1> HIDE DEF out, r
<1>3. \A k \in 1 .. Len(s) + 1 : out[Len(in) - Len(s) + k] = r[k]
  <2>1. Len(in) + 1 - Len(r) = Len(in) - Len(s) /\ 1 .. Len(r) = 1 .. Len(s) + 1
    BY <1>1
  <2> QED BY <1>2, <2>1
<1>4. c = x
  <2>1. Len(in) - Len(s) + (Len(s) + 1) = Len(in) + 1 /\ Len(s) + 1 \in 1 .. Len(s) + 1
    BY <1>1
  <2>2. out[Len(in) - Len(s) + (Len(s) + 1)] = r[Len(s) + 1]
    BY <1>3, <2>1
  <2> QED BY <1>1, <2>1, <2>2
<1>5. Len(s) <= Len(in)
  BY <1>1, <1>2
<1>6. ASSUME NEW k \in 1 .. Len(s) PROVE in[Len(in) - Len(s) + k] = s[k]
  <2>1. k \in 1 .. Len(s) + 1 /\ Len(in) - Len(s) + k \in 1 .. Len(in)
    BY <1>1, <1>5
  <2> QED BY <1>1, <1>3, <2>1
<1> QED BY <1>1, <1>4, <1>5, <1>6 DEF At

-----------------------------------------------------------------------------
(* The characters of a telegram on the bus. *)
(* The characters of a telegram and of its beginnings. *)
Code(msg) == CHOOSE f : IsCode(f, Checked(msg), Len(Checked(msg)))

LEMMA CodeOf ==
  ASSUME NEW msg \in Telegrams
  PROVE  /\ msg \in Seq(Byte) /\ Len(msg) \in Nat /\ Checked(msg) \in Seq(Byte)
         /\ Len(Checked(msg)) = Len(msg) + 1
         /\ Checked(msg)[Len(msg) + 1] = Sum(<<STX>> \o msg)
         /\ \A i \in 1 .. Len(msg) : Checked(msg)[i] = msg[i]
         /\ Code(msg)[0] = <<STX>> /\ Code(msg)[Len(msg) + 1] = Encoded(msg)
         /\ \A j \in 0 .. Len(msg) + 1 : Code(msg)[j] \in Seq(Byte)
         /\ \A j \in 0 .. Len(msg) : Code(msg)[j + 1] = Code(msg)[j] \o Stuffed(Checked(msg)[j + 1])
<1> DEFINE all == Checked(msg)
           sum == Sum(<<STX>> \o msg)
<1>1. msg \in Seq(Byte) /\ Len(msg) \in Nat
  <2>1. msg \in Seq(Byte)
    BY BusRxAssumption
  <2> QED BY <2>1
<1>2. sum \in Byte
  <2>1. STX \in Byte
    BY DEF STX, Byte
  <2>2. <<STX>> \o msg \in Seq(Byte)
    BY <1>1, <2>1
  <2> QED BY <2>2, SumType
<1>3. all = Append(msg, sum)
  BY CheckedType
<1> HIDE DEF sum, all
<1>4. /\ all \in Seq(Byte) /\ Len(all) = Len(msg) + 1 /\ all[Len(msg) + 1] = sum
      /\ \A i \in 1 .. Len(msg) : all[i] = msg[i]
  BY <1>1, <1>2, <1>3, AppendAt
<1>5. IsCode(Code(msg), all, Len(msg) + 1)
  <2>1. Len(all) \in Nat
    BY <1>4
  <2>2. IsCode(Code(msg), all, Len(all))
    BY <2>1, CodeExists DEF Code, all
  <2> QED BY <1>4, <2>2
<1>6. Encoded(msg) = Code(msg)[Len(msg) + 1]
  <2>1. Encoded(msg) = Code(msg)[Len(Checked(msg))]
    BY DEF Encoded, Code, IsCode
  <2> QED BY <1>4, <2>1 DEF all
<1>7. Code(msg)[0] = <<STX>>
  BY <1>1, <1>5 DEF IsCode
<1>8. \A j \in 0 .. Len(msg) + 1 : Code(msg)[j] \in Seq(Byte)
  <2>1. IsCode(Code(msg), all, Len(all))
    BY <1>4, <1>5
  <2> QED BY <1>4, <2>1, CodeType
<1>9. ASSUME NEW j \in 0 .. Len(msg)
      PROVE  Code(msg)[j + 1] = Code(msg)[j] \o Stuffed(all[j + 1])
  <2>1. j \in Nat /\ j + 1 <= Len(msg) + 1 /\ Len(msg) + 1 \in Nat
    BY <1>1
  <2> QED BY <1>5, <2>1, CodeStep
<1> QED BY <1>1, <1>4, <1>6, <1>7, <1>8, <1>9 DEF sum, all

(* The characters in end where j characters of a telegram have been sent, and  *)
(* ESC of the next one.                                                        *)
Underway(in, msg, j, esc) ==
  /\ j \in 0 .. Len(msg) /\ esc \in BOOLEAN
  /\ esc => Checked(msg)[j + 1] \in {STX, ESC}
  /\ At(in, Len(in), IF esc THEN Append(Code(msg)[j], ESC) ELSE Code(msg)[j])

(* What is sent of a telegram was preceded by what is sent before. *)
LEMMA EndsCode ==
  ASSUME NEW msg \in Telegrams, NEW j \in 0 .. Len(msg), NEW in \in Seq(Byte), NEW c \in Byte,
         At(Append(in, c), Len(in) + 1, Code(msg)[j + 1])
  PROVE  /\ c # STX /\ c # ESC
         /\ \E esc \in BOOLEAN :
              Underway(in, msg, j, esc) /\ Checked(msg)[j + 1] = IF esc THEN Inverted(c) ELSE c
<1> DEFINE s == Code(msg)[j]
           x == Checked(msg)[j + 1]
<1>1. /\ Checked(msg) \in Seq(Byte) /\ Len(Checked(msg)) = Len(msg) + 1 /\ Len(msg) \in Nat
      /\ s \in Seq(Byte) /\ Code(msg)[j + 1] = s \o Stuffed(x)
  <2>1. Checked(msg) \in Seq(Byte) /\ Len(Checked(msg)) = Len(msg) + 1 /\ Len(msg) \in Nat
    BY CodeOf
  <2>2. j \in 0 .. Len(msg) + 1
    BY <2>1
  <2>3. s \in Seq(Byte)
    BY <2>2, CodeOf
  <2>4. Code(msg)[j + 1] = s \o Stuffed(x)
    BY CodeOf
  <2> QED BY <2>1, <2>3, <2>4
<1>2. x \in Byte
  <2>1. j + 1 \in 1 .. Len(Checked(msg))
    BY <1>1
  <2> QED BY <1>1, <2>1
<1>3. Inverted(x) \in Byte /\ ESC \in Byte /\ STX # ESC
  <2>1. Inverted(x) \in Byte
    BY <1>2, MeantByte
  <2> QED BY <2>1 DEF ESC, STX, Byte
<1> HIDE DEF s, x
<1>4. CASE x \in {STX, ESC}
  <2>1. Stuffed(x) = <<ESC, Inverted(x)>>
    BY <1>4 DEF Stuffed
  <2>2. s \o <<ESC, Inverted(x)>> = Append(Append(s, ESC), Inverted(x)) /\ Append(s, ESC) \in Seq(Byte)
    <3>1. PICK y \in Byte, z \in Byte : y = ESC /\ z = Inverted(x)
      BY <1>3
    <3>2. s \o <<y, z>> = Append(Append(s, y), z) /\ Append(s, y) \in Seq(Byte)
      BY <1>1
    <3> QED BY <3>1, <3>2
  <2>3. At(Append(in, c), Len(in) + 1, Append(Append(s, ESC), Inverted(x)))
    BY <1>1, <2>1, <2>2
  <2>4. c = Inverted(x) /\ At(in, Len(in), Append(s, ESC))
    BY <1>3, <2>2, <2>3, AtNext
  <2>5. Underway(in, msg, j, TRUE)
    BY <1>4, <2>4 DEF Underway, s, x
  <2>6. Inverted(c) = x /\ c # STX /\ c # ESC
    BY <1>2, <1>4, <2>4 DEF Inverted, STX, ESC, Byte
  <2> QED BY <2>5, <2>6 DEF x
<1>5. CASE x \notin {STX, ESC}
  <2>1. Stuffed(x) = <<x>>
    BY <1>5 DEF Stuffed
  <2>2. s \o <<x>> = Append(s, x)
    BY <1>1, <1>2
  <2>3. At(Append(in, c), Len(in) + 1, Append(s, x))
    BY <1>1, <2>1, <2>2
  <2>4. c = x /\ At(in, Len(in), s)
    BY <1>1, <1>2, <2>3, AtNext
  <2>5. Underway(in, msg, j, FALSE)
    BY <2>4 DEF Underway, s
  <2> QED BY <1>5, <2>4, <2>5 DEF x
<1> QED BY <1>4, <1>5

(* What precedes it. *)
Preceded(in, c, msg, j, esc) ==
  \/ esc /\ c = ESC /\ Underway(in, msg, j, FALSE)
  \/ ~esc /\ j = 0 /\ c = STX
  \/ /\ ~esc /\ c # STX /\ c # ESC
     /\ \E k \in Nat : /\ j = k + 1 /\ k + 1 <= Len(msg)
                       /\ \E x \in BOOLEAN :
                            /\ Underway(in, msg, k, x)
                            /\ msg[k + 1] = IF x THEN Inverted(c) ELSE c

LEMMA UnderwayBefore ==
  ASSUME NEW msg \in Telegrams, NEW j, NEW esc, NEW in \in Seq(Byte), NEW c \in Byte,
         Underway(Append(in, c), msg, j, esc)
  PROVE  Preceded(in, c, msg, j, esc)
<1>1. /\ j \in 0 .. Len(msg) /\ esc \in BOOLEAN /\ Len(msg) \in Nat /\ Len(Append(in, c)) = Len(in) + 1
      /\ Code(msg)[j] \in Seq(Byte) /\ Code(msg)[0] = <<STX>>
      /\ \A i \in 1 .. Len(msg) : Checked(msg)[i] = msg[i]
  <2>1. j \in 0 .. Len(msg) /\ esc \in BOOLEAN
    BY DEF Underway
  <2>2. j \in 0 .. Len(msg) + 1 /\ Len(msg) \in Nat
    BY <2>1, CodeOf
  <2> QED BY <2>1, <2>2, CodeOf, AppendAt
<1>2. At(Append(in, c), Len(in) + 1, IF esc THEN Append(Code(msg)[j], ESC) ELSE Code(msg)[j])
  BY <1>1 DEF Underway
<1>3. CASE esc
  <2>1. ESC \in Byte
    BY DEF ESC, Byte
  <2>2. c = ESC /\ At(in, Len(in), Code(msg)[j])
    BY <1>1, <1>2, <1>3, <2>1, AtNext
  <2> QED BY <1>1, <1>3, <2>2 DEF Underway, Preceded
<1>4. CASE ~esc /\ j = 0
  <2>1. STX \in Byte
    BY DEF STX, Byte
  <2>2. <<STX>> = Append(<<>>, STX) /\ <<>> \in Seq(Byte)
    BY <2>1
  <2>3. At(Append(in, c), Len(in) + 1, Append(<<>>, STX))
    BY <1>1, <1>2, <1>4, <2>2
  <2>4. c = STX
    BY <2>1, <2>2, <2>3, AtNext
  <2> QED BY <1>4, <2>4 DEF Preceded
<1>5. CASE ~esc /\ j # 0
  <2>1. PICK k \in Nat : j = k + 1 /\ k + 1 <= Len(msg) /\ k \in 0 .. Len(msg) /\ k + 1 \in 1 .. Len(msg)
    <3>1. j - 1 \in Nat /\ j = (j - 1) + 1 /\ j <= Len(msg) /\ j - 1 \in 0 .. Len(msg) /\ j \in 1 .. Len(msg)
      BY <1>1, <1>5
    <3> QED BY <3>1
  <2>2. At(Append(in, c), Len(in) + 1, Code(msg)[k + 1])
    BY <1>2, <1>5, <2>1
  <2>3. /\ c # STX /\ c # ESC
        /\ \E e \in BOOLEAN :
             Underway(in, msg, k, e) /\ Checked(msg)[k + 1] = IF e THEN Inverted(c) ELSE c
    BY <2>1, <2>2, EndsCode
  <2>4. Checked(msg)[k + 1] = msg[k + 1]
    BY <1>1, <2>1
  <2> QED BY <1>5, <2>1, <2>3, <2>4 DEF Preceded
<1> QED BY <1>3, <1>4, <1>5

-----------------------------------------------------------------------------
(* The decoder follows them. *)
(* The decoder has taken j characters of a telegram, and ESC of the next one. *)
Tracked(d, msg, j, esc) ==
  /\ d.l1 # "WAIT_FOR_STX" /\ d.stuff = esc
  /\ d.sum = Sum(<<STX>> \o First(msg, j)) /\ Holds(d, First(msg, j))

(* It has, whatever telegram the characters in end with. *)
Tracks(d, in) ==
  \A msg \in Telegrams : \A j \in 0 .. Len(msg) : \A esc \in BOOLEAN :
    Underway(in, msg, j, esc) => Tracked(d, msg, j, esc)

Quiet(in) ==
  \A msg \in Telegrams : \A j \in 0 .. Len(msg) : \A esc \in BOOLEAN : ~Underway(in, msg, j, esc)

LEMMA EscTracked ==
  ASSUME NEW d \in DecoderType, NEW msg, NEW j, Tracked(d, msg, j, FALSE), NEW e, e = Started(d, ESC)
  PROVE  e.rc = d.rc /\ Tracked(e, msg, j, TRUE)
<1>1. e = [d EXCEPT !.stuff = TRUE]
  BY DEF Started
<1>2. /\ e.rc = d.rc /\ e.l1 = d.l1 /\ e.l2 = d.l2 /\ e.msg = d.msg /\ e.last = d.last
      /\ e.sum = d.sum /\ e.stuff = TRUE
  BY <1>1 DEF DecoderType
<1> QED BY <1>2 DEF Tracked, Holds

(* What Started does with a character ch that is not stuffed, or no longer. *)
Unstuffs(e, d, c, f, ch) ==
  /\ ch = (IF d.stuff THEN Inverted(c) ELSE c)
  /\ f.rc = d.rc /\ f.l1 = d.l1 /\ f.l2 = d.l2 /\ f.msg = d.msg /\ f.last = d.last
  /\ f.sum = d.sum /\ f.stuff = FALSE
  /\ e = IF d.l1 = "RX_MSG" THEN RxMsg(f, ch) ELSE WaitForChecksum(f, ch)

LEMMA StartedIs ==
  ASSUME NEW d \in DecoderType, NEW c \in Byte, c # ESC, NEW e, e = Started(d, c)
  PROVE  \E f \in DecoderType, ch \in Byte : Unstuffs(e, d, c, f, ch)
<1> DEFINE f == [d EXCEPT !.stuff = FALSE]
           ch == IF d.stuff THEN Inverted(c) ELSE c
<1>1. /\ f \in DecoderType /\ f.rc = d.rc /\ f.l1 = d.l1 /\ f.l2 = d.l2 /\ f.msg = d.msg
      /\ f.last = d.last /\ f.sum = d.sum /\ f.stuff = FALSE
  BY DEF DecoderType
<1>2. ch \in Byte
  BY MeantByte
<1>3. e = IF d.l1 = "RX_MSG" THEN RxMsg(f, ch) ELSE WaitForChecksum(f, ch)
  BY DEF Started
<1> QED BY <1>1, <1>2, <1>3 DEF Unstuffs

LEMMA NextTracked ==
  ASSUME NEW d \in DecoderType, d.rc = "BUS_MSG_RXING", NEW msg \in Telegrams,
         NEW j \in Nat, j + 1 <= Len(msg), NEW esc \in BOOLEAN, Tracked(d, msg, j, esc),
         NEW c \in Byte, c # ESC, msg[j + 1] = (IF esc THEN Inverted(c) ELSE c),
         NEW e, e = Started(d, c)
  PROVE  e.rc = "BUS_MSG_RXING" /\ Tracked(e, msg, j + 1, FALSE)
<1>1. d.stuff = esc /\ d.sum = Sum(<<STX>> \o First(msg, j)) /\ Holds(d, First(msg, j))
  BY DEF Tracked
<1>2. PICK f \in DecoderType, ch \in Byte : Unstuffs(e, d, c, f, ch)
  BY StartedIs
<1>3. msg \in Seq(Byte) /\ Len(msg) \in Nat /\ j \in 0 .. Len(msg) /\ j < Len(msg)
  <2>1. msg \in Seq(Byte) /\ Len(msg) \in Nat
    BY CodeOf
  <2> QED BY <2>1
<1>4. ch = msg[j + 1]
  BY <1>1, <1>2 DEF Unstuffs
<1>5. d.l1 = "RX_MSG"
  BY <1>1, <1>3, Matching
<1>6. Holds(f, First(msg, j)) /\ f.rc = "BUS_MSG_RXING" /\ f.l1 = "RX_MSG"
  BY <1>1, <1>2, <1>5 DEF Holds, Unstuffs
<1> DEFINE g == L2StateMachine(f, ch)
<1>7. g.rc = "BUS_MSG_RXING"
  <2>1. g = L2StateMachine(f, msg[j + 1])
    BY <1>4
  <2> QED BY <1>6, <2>1, NoError
<1>8. First(msg, j) \in Seq(Byte) /\ First(msg, j + 1) = Append(First(msg, j), ch)
  BY <1>3, <1>4, FirstType, FirstNext
<1>9. /\ g \in DecoderType /\ Outer(g, f)
      /\ g.rc = "BUS_MSG_RXING" => Holds(g, Append(First(msg, j), ch))
  BY <1>6, L2Right
<1>10. e = [g EXCEPT !.sum = (@ + ch) % 256]
  BY <1>2, <1>5 DEF RxMsg, Unstuffs
<1> HIDE DEF g
<1>11. /\ e.rc = g.rc /\ e.l1 = g.l1 /\ e.l2 = g.l2 /\ e.msg = g.msg /\ e.last = g.last
       /\ e.stuff = g.stuff /\ e.sum = (g.sum + ch) % 256
  BY <1>9, <1>10 DEF DecoderType
<1>12. Holds(e, First(msg, j + 1)) /\ e.l1 # "WAIT_FOR_STX"
  <2>1. PICK s : s = First(msg, j + 1)
    OBVIOUS
  <2>2. Holds(g, s)
    BY <1>7, <1>8, <1>9, <2>1, Zenon
  <2>3. Holds(e, s) /\ e.l1 # "WAIT_FOR_STX"
    BY ONLY <1>11, <2>2 DEF Holds
  <2> QED BY <2>1, <2>3, Zenon
<1>13. e.stuff = FALSE
  BY <1>2, <1>9, <1>11 DEF Outer, Unstuffs
<1>14. e.sum = Sum(<<STX>> \o First(msg, j + 1))
  <2>1. g.sum = Sum(<<STX>> \o First(msg, j))
    BY <1>1, <1>2, <1>9 DEF Outer, Unstuffs
  <2>2. Sum(<<STX>> \o Append(First(msg, j), ch)) = (Sum(<<STX>> \o First(msg, j)) + ch) % 256
    BY <1>8, SumBehind
  <2> QED BY <1>8, <1>11, <2>1, <2>2
<1> QED BY <1>7, <1>11, <1>12, <1>13, <1>14 DEF Tracked

(* The last character of a telegram. *)
LEMMA LastAccepted ==
  ASSUME NEW d \in DecoderType, d.rc = "BUS_MSG_RXING", NEW msg \in Telegrams,
         NEW esc \in BOOLEAN, Tracked(d, msg, Len(msg), esc), NEW c \in Byte, c # ESC,
         Sum(<<STX>> \o msg) = (IF esc THEN Inverted(c) ELSE c), NEW e, e = Started(d, c)
  PROVE  e.rc = "BUS_MSG_OK" /\ e.msg = msg
<1>1. msg \in Seq(Byte) /\ Len(msg) \in Nat /\ Len(msg) \in 0 .. Len(msg)
  <2>1. msg \in Seq(Byte) /\ Len(msg) \in Nat
    BY CodeOf
  <2> QED BY <2>1
<1>2. First(msg, Len(msg)) = msg
  BY <1>1, SubSeqFull DEF First
<1>3. d.stuff = esc /\ d.sum = Sum(<<STX>> \o msg) /\ Holds(d, First(msg, Len(msg)))
  BY <1>2 DEF Tracked
<1>4. d.l1 = "WAIT_FOR_CHECKSUM" /\ d.msg = msg
  <2>1. ~(Len(msg) < Len(msg))
    BY <1>1
  <2> QED BY <1>1, <1>3, <2>1, Matching
<1>5. PICK f \in DecoderType, ch \in Byte : Unstuffs(e, d, c, f, ch)
  BY StartedIs
<1>6. ch = f.sum
  BY <1>3, <1>5 DEF Unstuffs
<1>7. e = [f EXCEPT !.rc = "BUS_MSG_OK"]
  BY <1>4, <1>5, <1>6 DEF WaitForChecksum, Unstuffs
<1>8. e.rc = "BUS_MSG_OK" /\ e.msg = f.msg
  BY <1>7 DEF DecoderType
<1> QED BY <1>4, <1>5, <1>8 DEF Unstuffs

LEMMA StepTracked ==
  ASSUME NEW d \in DecoderType, d.rc = "BUS_MSG_RXING", NEW in \in Seq(Byte), Tracks(d, in),
         NEW c \in Byte, c # STX, NEW e, e = Started(d, c),
         NEW msg \in Telegrams, NEW j, NEW esc, Underway(Append(in, c), msg, j, esc)
  PROVE  e.rc = "BUS_MSG_RXING" /\ Tracked(e, msg, j, esc)
<1>1. \A k, x : Underway(in, msg, k, x) => Tracked(d, msg, k, x)
  BY DEF Tracks, Underway
<1>2. CASE esc /\ c = ESC /\ Underway(in, msg, j, FALSE)
  <2>1. Tracked(d, msg, j, FALSE)
    BY <1>1, <1>2
  <2>2. e.rc = d.rc /\ Tracked(e, msg, j, TRUE)
    BY <1>2, <2>1, EscTracked
  <2>3. esc = TRUE
    BY <1>2 DEF Underway
  <2> QED BY <2>2, <2>3
<1>3. CASE /\ ~esc /\ c # STX /\ c # ESC
           /\ \E k \in Nat : /\ j = k + 1 /\ k + 1 <= Len(msg)
                             /\ \E x \in BOOLEAN :
                                  /\ Underway(in, msg, k, x)
                                  /\ msg[k + 1] = IF x THEN Inverted(c) ELSE c
  <2>1. PICK k \in Nat, x \in BOOLEAN :
          /\ j = k + 1 /\ k + 1 <= Len(msg) /\ Underway(in, msg, k, x)
          /\ msg[k + 1] = IF x THEN Inverted(c) ELSE c
    BY <1>3
  <2>2. Tracked(d, msg, k, x)
    BY <1>1, <2>1
  <2>3. e.rc = "BUS_MSG_RXING" /\ Tracked(e, msg, k + 1, FALSE)
    <3>1. k \in Nat /\ x \in BOOLEAN /\ k + 1 <= Len(msg) /\ c # ESC
      BY <1>3, <2>1
    <3>2. msg[k + 1] = (IF x THEN Inverted(c) ELSE c)
      BY <2>1
    <3> QED BY <2>2, <3>1, <3>2, NextTracked
  <2>4. esc = FALSE
    BY <1>3 DEF Underway
  <2> QED BY <2>1, <2>3, <2>4
<1>4. Preceded(in, c, msg, j, esc)
  BY UnderwayBefore
<1>5. \/ esc /\ c = ESC /\ Underway(in, msg, j, FALSE)
      \/ ~esc /\ j = 0 /\ c = STX
      \/ /\ ~esc /\ c # STX /\ c # ESC
         /\ \E k \in Nat : /\ j = k + 1 /\ k + 1 <= Len(msg)
                           /\ \E x \in BOOLEAN :
                                /\ Underway(in, msg, k, x)
                                /\ msg[k + 1] = IF x THEN Inverted(c) ELSE c
  BY <1>4 DEF Preceded
<1> QED BY <1>2, <1>3, <1>5

LEMMA StepAccepted ==
  ASSUME NEW d \in DecoderType, d.rc = "BUS_MSG_RXING", NEW in \in Seq(Byte), Tracks(d, in),
         NEW c \in Byte, NEW e, e = Started(d, c),
         NEW msg \in Telegrams, At(Append(in, c), Len(in) + 1, Encoded(msg))
  PROVE  e.rc = "BUS_MSG_OK" /\ e.msg = msg
<1>1. /\ Len(msg) \in 0 .. Len(msg) /\ Code(msg)[Len(msg) + 1] = Encoded(msg)
      /\ Checked(msg)[Len(msg) + 1] = Sum(<<STX>> \o msg)
  <2>1. Len(msg) \in Nat
    BY CodeOf
  <2>2. Len(msg) \in 0 .. Len(msg)
    BY <2>1
  <2>3. /\ Code(msg)[Len(msg) + 1] = Encoded(msg)
        /\ Checked(msg)[Len(msg) + 1] = Sum(<<STX>> \o msg)
    BY CodeOf
  <2> QED BY <2>2, <2>3
<1>2. At(Append(in, c), Len(in) + 1, Code(msg)[Len(msg) + 1])
  BY <1>1
<1>3. /\ c # STX /\ c # ESC
      /\ \E esc \in BOOLEAN :
           Underway(in, msg, Len(msg), esc) /\ Checked(msg)[Len(msg) + 1] = IF esc THEN Inverted(c) ELSE c
  BY <1>1, <1>2, EndsCode
<1>4. PICK esc \in BOOLEAN :
        Underway(in, msg, Len(msg), esc) /\ Sum(<<STX>> \o msg) = IF esc THEN Inverted(c) ELSE c
  BY <1>1, <1>3
<1>5. Tracked(d, msg, Len(msg), esc)
  BY <1>1, <1>4 DEF Tracks
<1> QED BY <1>3, <1>4, <1>5, LastAccepted

-----------------------------------------------------------------------------
(* Characters that end no telegram. *)
(* None of the characters t after in is the last one of a telegram. *)
Unmet(in, t) ==
  \A msg \in Telegrams : \A p \in Len(in) + 1 .. Len(t) : ~At(t, p, Encoded(msg))

LEMMA EndsEncoded ==
  ASSUME NEW msg \in Telegrams, NEW in \in Seq(Byte), NEW c \in Byte,
         At(Append(in, c), Len(in) + 1, Encoded(msg))
  PROVE  /\ c # STX /\ c # ESC
         /\ Len(msg) \in 0 .. Len(msg) /\ \E esc \in BOOLEAN : Underway(in, msg, Len(msg), esc)
<1>1. Len(msg) \in 0 .. Len(msg) /\ Code(msg)[Len(msg) + 1] = Encoded(msg)
  <2>1. Len(msg) \in Nat /\ Code(msg)[Len(msg) + 1] = Encoded(msg)
    BY CodeOf
  <2> QED BY <2>1
<1>2. At(Append(in, c), Len(in) + 1, Code(msg)[Len(msg) + 1])
  BY <1>1
<1>3. c # STX /\ c # ESC /\ \E esc \in BOOLEAN : Underway(in, msg, Len(msg), esc)
  BY <1>1, <1>2, EndsCode
<1> QED BY <1>1, <1>3

LEMMA QuietNext ==
  ASSUME NEW in \in Seq(Byte), NEW c \in Byte, c # STX, Quiet(in)
  PROVE  /\ Quiet(Append(in, c))
         /\ \A msg \in Telegrams : ~At(Append(in, c), Len(in) + 1, Encoded(msg))
<1>1. \A msg \in Telegrams : \A j, esc : ~Underway(in, msg, j, esc)
  BY DEF Quiet, Underway
<1>2. ASSUME NEW msg \in Telegrams, NEW j, NEW esc, Underway(Append(in, c), msg, j, esc)
      PROVE  FALSE
  <2>1. Preceded(in, c, msg, j, esc)
    BY <1>2, UnderwayBefore
  <2> QED BY <1>1, <2>1 DEF Preceded
<1>3. ASSUME NEW msg \in Telegrams, At(Append(in, c), Len(in) + 1, Encoded(msg))
      PROVE  FALSE
  BY <1>1, <1>3, EndsEncoded
<1> QED BY <1>2, <1>3 DEF Quiet

LEMMA UnmetNext ==
  ASSUME NEW in \in Seq(Byte), NEW t \in Seq(Byte), NEW c \in Byte, Unmet(in, t),
         \A msg \in Telegrams : ~At(Append(t, c), Len(t) + 1, Encoded(msg))
  PROVE  Unmet(in, Append(t, c))
<1> DEFINE u == Append(t, c)
<1>1. /\ u \in Seq(Byte) /\ Len(u) = Len(t) + 1 /\ Len(t) \in Nat /\ Len(in) \in Nat
      /\ \A i \in 1 .. Len(t) : u[i] = t[i]
  BY AppendAt
<1> HIDE DEF u
<1>2. ASSUME NEW msg \in Telegrams, NEW p \in Len(in) + 1 .. Len(t) + 1, At(u, p, Encoded(msg))
      PROVE  FALSE
  <2>1. CASE p = Len(t) + 1
    BY <1>2, <2>1 DEF u
  <2>2. CASE p # Len(t) + 1
    <3>1. p \in 0 .. Len(t) /\ p \in Len(in) + 1 .. Len(t) /\ Len(t) <= Len(u)
      BY <1>1, <2>2
    <3>2. At(t, p, Encoded(msg))
      BY <1>1, <1>2, <3>1, AtStays, EncodedType
    <3> QED BY <3>1, <3>2 DEF Unmet
  <2> QED BY <2>1, <2>2
<1>3. Unmet(in, u)
  BY <1>1, <1>2 DEF Unmet
<1> QED BY <1>3 DEF u

LEMMA UnmetNone ==
  ASSUME NEW in \in Seq(Byte)
  PROVE  Unmet(in, in)
<1>1. Len(in) \in Nat
  OBVIOUS
<1>2. Len(in) + 1 .. Len(in) = {}
  BY <1>1
<1> QED BY <1>2 DEF Unmet

(* BusDecode has been given n of the characters chars, after in: it is in the  *)
(* telegram they end with, if any, and has accepted one that they complete.    *)
Answers(d, in, chars, n, t) ==
  /\ d.rc = "BUS_MSG_RXING" =>
       /\ Unmet(in, t)
       /\ \/ Tracks(d, t)
          \/ n = 0 /\ d.l1 = "WAIT_FOR_STX" /\ chars[1] = STX
  /\ d.rc = "BUS_MSG_OK" =>
       /\ Quiet(t)
       /\ \A msg \in Telegrams : \A p \in Len(in) + 1 .. Len(t) :
            At(t, p, Encoded(msg)) => p = Len(t) /\ d.msg = msg
  /\ d.rc = "BUS_MSG_ERROR" =>
       /\ Unmet(in, t)
       /\ \/ Quiet(t)
          \/ ~d.skip /\ d.used < n /\ chars[d.used + 1] = STX

LEMMA TracksKept ==
  ASSUME NEW d, NEW e, NEW in, Tracks(d, in), e.l1 = d.l1, e.l2 = d.l2, e.sum = d.sum,
         e.stuff = d.stuff, e.last = d.last, e.msg = d.msg
  PROVE  Tracks(e, in)
<1>1. \A msg, j, esc : Tracked(d, msg, j, esc) => Tracked(e, msg, j, esc)
  BY DEF Tracked, Holds
<1> QED BY <1>1 DEF Tracks

LEMMA TracksQuiet ==
  ASSUME NEW d, NEW in, Tracks(d, in), d.l1 = "WAIT_FOR_STX"
  PROVE  Quiet(in)
BY DEF Tracks, Quiet, Tracked

LEMMA QuietTracks == ASSUME NEW d, NEW in, Quiet(in) PROVE Tracks(d, in)
BY DEF Tracks, Quiet

(* The decoder after an STX. *)
LEMMA TracksSTX ==
  ASSUME NEW in \in Seq(Byte), NEW e, e.l1 = "RX_MSG", e.l2 = "WAIT_FOR_SENDER_ADDR",
         e.sum = Sum(<<STX>>), e.stuff = FALSE
  PROVE  Tracks(e, Append(in, STX))
<1>1. STX \in Byte
  BY DEF STX, Byte
<1>2. ASSUME NEW msg \in Telegrams, NEW j, NEW esc, Underway(Append(in, STX), msg, j, esc)
      PROVE  Tracked(e, msg, j, esc)
  <2>1. Preceded(in, STX, msg, j, esc)
    BY <1>1, <1>2, UnderwayBefore
  <2>2. esc \in BOOLEAN /\ STX # ESC
    BY <1>2 DEF Underway, STX, ESC
  <2>3. j = 0 /\ esc = FALSE
    BY <2>1, <2>2 DEF Preceded
  <2>4. First(msg, 0) = <<>>
    <3>1. msg \in Seq(Byte)
      BY CodeOf
    <3> QED BY <3>1 DEF First
  <2>5. <<STX>> \o <<>> = <<STX>>
    <3>1. <<STX>> \in Seq(Byte)
      BY <1>1
    <3> QED BY <3>1
  <2> QED BY <2>3, <2>4, <2>5 DEF Tracked, Holds
<1> QED BY <1>2 DEF Tracks

-----------------------------------------------------------------------------
(* BusDecode answers every telegram. *)
LEMMA SkipAnswers ==
  ASSUME NEW in \in Seq(Byte), NEW t \in Seq(Byte), NEW chars, NEW n, NEW c \in Byte, c # STX,
         Unmet(in, t), Quiet(t), NEW e, e.rc = "BUS_MSG_ERROR"
  PROVE  Answers(e, in, chars, n, Append(t, c))
<1>1. Quiet(Append(t, c)) /\ Unmet(in, Append(t, c))
  BY QuietNext, UnmetNext
<1>2. e.rc # "BUS_MSG_RXING" /\ e.rc # "BUS_MSG_OK"
  OBVIOUS
<1> QED BY <1>1, <1>2, Zenon DEF Answers

LEMMA StartedAnswers ==
  ASSUME NEW in \in Seq(Byte), NEW t \in Seq(Byte), NEW chars, NEW n \in Nat, NEW c \in Byte, c # STX,
         Len(in) <= Len(t), Unmet(in, t), NEW d \in DecoderType, d.rc = "BUS_MSG_RXING",
         Tracks(d, t), NEW e \in DecoderType, e = Started(d, c)
  PROVE  Answers(e, in, chars, n + 1, Append(t, c))
<1> DEFINE u == Append(t, c)
<1>1. /\ u \in Seq(Byte) /\ Len(u) = Len(t) + 1 /\ Len(t) \in Nat /\ Len(in) \in Nat
      /\ \A i \in 1 .. Len(t) : u[i] = t[i]
  BY AppendAt
<1>2. \A msg \in Telegrams : At(u, Len(t) + 1, Encoded(msg)) => e.rc = "BUS_MSG_OK" /\ e.msg = msg
  BY StepAccepted
<1>3. \A msg \in Telegrams : \A j, esc :
        Underway(u, msg, j, esc) => e.rc = "BUS_MSG_RXING" /\ Tracked(e, msg, j, esc)
  BY StepTracked
<1>4. ASSUME e.rc # "BUS_MSG_OK" PROVE Unmet(in, u)
  BY <1>2, <1>4, UnmetNext
<1> HIDE DEF u
<1>5. CASE e.rc = "BUS_MSG_RXING"
  <2>1. Tracks(e, u)
    BY <1>3 DEF Tracks
  <2> QED BY <1>4, <1>5, <2>1 DEF Answers, u
<1>6. CASE e.rc = "BUS_MSG_OK"
  <2>1. Quiet(u)
    BY <1>3, <1>6 DEF Quiet
  <2>2. ASSUME NEW msg \in Telegrams, NEW p \in Len(in) + 1 .. Len(u), At(u, p, Encoded(msg))
        PROVE  p = Len(u) /\ e.msg = msg
    <3>1. CASE p = Len(u)
      BY <1>1, <1>2, <2>2, <3>1
    <3>2. CASE p # Len(u)
      <4>1. p \in 0 .. Len(t) /\ p \in Len(in) + 1 .. Len(t) /\ Len(t) <= Len(u)
        BY <1>1, <3>2
      <4>2. At(t, p, Encoded(msg))
        BY <1>1, <2>2, <4>1, AtStays, EncodedType
      <4> QED BY <4>1, <4>2 DEF Unmet
    <3> QED BY <3>1, <3>2
  <2> QED BY <1>6, <2>1, <2>2 DEF Answers, u
<1>7. CASE e.rc = "BUS_MSG_ERROR"
  <2>1. Quiet(u)
    BY <1>3, <1>7 DEF Quiet
  <2>2. Unmet(in, u) /\ e.rc # "BUS_MSG_RXING" /\ e.rc # "BUS_MSG_OK"
    BY <1>4, <1>7
  <2>3. Answers(e, in, chars, n + 1, u)
    BY <2>1, <2>2, Zenon DEF Answers
  <2> QED BY <2>3 DEF u
<1> QED BY <1>5, <1>6, <1>7 DEF DecoderType

LEMMA StartedUsed ==
  ASSUME NEW d \in DecoderType, d.rc = "BUS_MSG_RXING", d.l1 # "WAIT_FOR_STX",
         NEW t \in Seq(Byte), Located(d, t), NEW c \in Byte, NEW e, e = Started(d, c)
  PROVE  e \in DecoderType /\ e.used = d.used
<1>1. PICK i : LastSTX(t, i) /\ Follows(d, Since(t, i))
  BY DEF Located
<1>2. Since(t, i) \in Seq(Byte)
  BY <1>1, SinceType DEF LastSTX
<1> QED BY <1>1, <1>2, StartedRight

LEMMA ConsumeAnswers ==
  ASSUME NEW in \in Seq(Byte), NEW chars \in Seq(Byte), NEW n \in Nat, n + 1 <= Len(chars),
         NEW d, Running(d, in, chars, n), Answers(d, in, chars, n, Input(in, chars, d)),
         NEW e, e = Consume(d, chars[n + 1])
  PROVE  Answers(e, in, chars, n + 1, Input(in, chars, e))
<1> DEFINE c == chars[n + 1]
           f == [d EXCEPT !.used = @ + 1]
           t == Input(in, chars, d)
<1>1. /\ c \in Byte /\ d \in DecoderType
      /\ in \o SubSeq(chars, 1, n + 1) = Append(in \o SubSeq(chars, 1, n), c)
      /\ in \o SubSeq(chars, 1, n) \in Seq(Byte)
  BY InputNext DEF Running
<1>2. /\ f \in DecoderType /\ f.used = d.used + 1 /\ f.skip = d.skip /\ f.rc = d.rc /\ f.l1 = d.l1
      /\ f.l2 = d.l2 /\ f.msg = d.msg /\ f.last = d.last /\ f.sum = d.sum /\ f.stuff = d.stuff
  <2>1. d \in DecoderType
    BY <1>1
  <2>2. d.used + 1 \in Nat
    BY <2>1 DEF DecoderType
  <2> QED BY ONLY <2>1, <2>2 DEF DecoderType
<1>3. e = IF d.rc # "BUS_MSG_RXING"
          THEN IF d.skip /\ c # STX THEN f ELSE [d EXCEPT !.skip = FALSE]
          ELSE IF d.l1 = "WAIT_FOR_STX" THEN WaitForSTX(f, c)
          ELSE IF c = STX THEN Error(d)
          ELSE Started(f, c)
  BY DEF Consume
<1>4. Answers(d, in, chars, n, t)
  OBVIOUS
<1>5. ASSUME d.used = n
      PROVE  /\ t = in \o SubSeq(chars, 1, n) /\ t \in Seq(Byte) /\ Len(in) <= Len(t)
             /\ \A g : g.used = n + 1 => Input(in, chars, g) = Append(t, c)
  <2>1. t = in \o SubSeq(chars, 1, n)
    BY <1>5 DEF Input
  <2>2. \A g : g.used = n + 1 => Input(in, chars, g) = Append(t, c)
    BY <1>1, <2>1 DEF Input
  <2>3. Len(in) <= Len(t)
    <3>1. SubSeq(chars, 1, n) \in Seq(Byte) /\ Len(SubSeq(chars, 1, n)) = n
      OBVIOUS
    <3>2. Len(in \o SubSeq(chars, 1, n)) = Len(in) + n
      BY <3>1
    <3> QED BY <2>1, <3>2
  <2> QED BY <1>1, <2>1, <2>2, <2>3
<1>6. \A g : g.used = d.used => Input(in, chars, g) = t
  BY DEF Input
<1>7. d.rc \in {"BUS_MSG_RXING", "BUS_MSG_OK", "BUS_MSG_ERROR"} /\ d.used \in Nat
  BY <1>1 DEF DecoderType
<1>8. c = chars[n + 1]
  OBVIOUS
<1> HIDE DEF c, f, t
<1>9. CASE d.rc # "BUS_MSG_RXING" /\ d.skip /\ c # STX
  <2>1. e = f /\ d.rc = "BUS_MSG_ERROR"
    BY <1>3, <1>7, <1>9 DEF Running
  <2>2. d.used = n
    BY <1>9, <2>1 DEF Running
  <2>3. Unmet(in, t) /\ Quiet(t)
    BY <1>4, <1>9, <2>1 DEF Answers
  <2>4. Answers(e, in, chars, n + 1, Append(t, c))
    BY <1>1, <1>2, <1>5, <1>9, <2>1, <2>2, <2>3, SkipAnswers
  <2> QED BY <1>2, <1>5, <2>1, <2>2, <2>4
<1>10. CASE d.rc # "BUS_MSG_RXING" /\ ~(d.skip /\ c # STX)
  <2>1. e.used = d.used /\ ~e.skip /\ e.rc = d.rc /\ e.msg = d.msg
    <3>1. e = [d EXCEPT !.skip = FALSE]
      BY <1>3, <1>10
    <3> QED BY <1>1, <3>1 DEF DecoderType
  <2>2. Input(in, chars, e) = t
    BY <1>6, <2>1
  <2>3. d.used < n => d.used < n + 1
    BY <1>7
  <2>4. ASSUME d.rc = "BUS_MSG_ERROR"
        PROVE  Unmet(in, t) /\ (Quiet(t) \/ (~e.skip /\ e.used < n + 1 /\ chars[e.used + 1] = STX))
    BY <1>4, <2>1, <2>3, <2>4 DEF Answers
  <2>5. ASSUME d.rc = "BUS_MSG_OK"
        PROVE  /\ Quiet(t)
               /\ \A msg \in Telegrams : \A p \in Len(in) + 1 .. Len(t) :
                    At(t, p, Encoded(msg)) => p = Len(t) /\ e.msg = msg
    BY <1>4, <2>1, <2>5 DEF Answers
  <2> QED BY <1>7, <1>10, <2>1, <2>2, <2>4, <2>5 DEF Answers
<1>11. CASE d.rc = "BUS_MSG_RXING"
  <2>1. /\ d.used = n /\ ~d.skip /\ f.used = n + 1
        /\ d.l1 # "RX_MSG" => d.l2 = "WAIT_FOR_SENDER_ADDR"
    BY <1>2, <1>11 DEF Running
  <2>2. /\ t \in Seq(Byte) /\ Len(in) <= Len(t)
        /\ \A g : g.used = n + 1 => Input(in, chars, g) = Append(t, c)
    BY <1>5, <2>1
  <2>3. Unmet(in, t) /\ (Tracks(d, t) \/ (d.l1 = "WAIT_FOR_STX" /\ c = STX))
    <3>1. n = 0 => n + 1 = 1
      OBVIOUS
    <3>2. n = 0 /\ chars[1] = STX => c = STX
      BY <1>8, <3>1
    <3> QED BY <1>4, <1>11, <3>2, Zenon DEF Answers
  <2>4. CASE d.l1 = "WAIT_FOR_STX" /\ c = STX
    <3>1. e = [f EXCEPT !.l1 = "RX_MSG", !.sum = Sum(<<STX>>), !.stuff = FALSE]
      BY <1>3, <1>11, <2>4 DEF WaitForSTX
    <3>2. Sum(<<STX>>) \in Byte
      <4>1. STX \in Byte
        BY DEF STX, Byte
      <4>2. <<STX>> \in Seq(Byte)
        BY <4>1
      <4> QED BY <4>2, SumType
    <3>3. /\ e.used = n + 1 /\ e.rc = "BUS_MSG_RXING" /\ e.l1 = "RX_MSG"
          /\ e.l2 = "WAIT_FOR_SENDER_ADDR" /\ e.sum = Sum(<<STX>>) /\ e.stuff = FALSE
      BY <1>2, <1>11, <2>1, <2>4, <3>1, <3>2 DEF DecoderType
    <3>4. Tracks(e, Append(t, STX))
      BY <2>2, <3>3, TracksSTX
    <3>5. \A msg \in Telegrams : ~At(Append(t, c), Len(t) + 1, Encoded(msg))
      BY <1>1, <2>2, <2>4, EndsEncoded
    <3>6. Unmet(in, Append(t, c))
      BY <1>1, <2>2, <2>3, <3>5, UnmetNext
    <3>7. Input(in, chars, e) = Append(t, c)
      BY <2>2, <3>3
    <3> QED BY <2>4, <3>3, <3>4, <3>6, <3>7 DEF Answers
  <2>5. CASE d.l1 = "WAIT_FOR_STX" /\ c # STX
    <3>1. e = [Error(f) EXCEPT !.skip = TRUE]
      BY <1>3, <1>11, <2>5 DEF WaitForSTX
    <3>2. e.used = n + 1 /\ e.rc = "BUS_MSG_ERROR"
      BY <1>2, <2>1, <3>1 DEF Error, DecoderType
    <3>3. Quiet(t)
      BY <2>3, <2>5, TracksQuiet
    <3>4. Answers(e, in, chars, n + 1, Append(t, c))
      BY <1>1, <2>2, <2>3, <2>5, <3>2, <3>3, SkipAnswers
    <3> QED BY <2>2, <3>2, <3>4
  <2>6. CASE d.l1 # "WAIT_FOR_STX" /\ c = STX
    <3>1. e = [d EXCEPT !.rc = "BUS_MSG_ERROR"]
      BY <1>3, <1>11, <2>6 DEF Error
    <3>2. e.used = n /\ ~e.skip /\ e.rc = "BUS_MSG_ERROR"
      BY <1>1, <2>1, <3>1 DEF DecoderType
    <3>3. Input(in, chars, e) = t
      BY <1>6, <2>1, <3>2
    <3>4. e.used < n + 1 /\ chars[e.used + 1] = STX
      <4>1. e.used < n + 1
        BY <3>2
      <4>2. chars[e.used + 1] = STX
        BY <1>8, <2>6, <3>2, Zenon
      <4> QED BY <4>1, <4>2
    <3> QED BY <2>3, <3>2, <3>3, <3>4 DEF Answers
  <2>7. CASE d.l1 # "WAIT_FOR_STX" /\ c # STX
    <3>1. e = Started(f, c)
      BY <1>3, <1>11, <2>7
    <3>2. Located(f, t)
      <4>1. Located(d, t)
        BY <1>11 DEF Running, t
      <4> QED BY <1>2, <4>1, LocatedKept
    <3>3. e \in DecoderType /\ e.used = n + 1
      BY <1>1, <1>2, <1>11, <2>1, <2>2, <2>7, <3>1, <3>2, StartedUsed
    <3>4. Tracks(d, t)
      BY <2>3, <2>7
    <3>5. Tracks(f, t)
      BY <1>2, <3>4, TracksKept
    <3>6. Answers(e, in, chars, n + 1, Append(t, c))
      BY <1>1, <1>2, <1>11, <2>2, <2>3, <2>7, <3>1, <3>3, <3>5, StartedAnswers
    <3> QED BY <2>2, <3>3, <3>6
  <2> QED BY <2>4, <2>5, <2>6, <2>7
<1> QED BY <1>9, <1>10, <1>11

-----------------------------------------------------------------------------
(* What BusDecode has accepted. *)
(* BusDecode with the characters chars, after in. *)
LEMMA DecodedAnswers ==
  ASSUME NEW in \in Seq(Byte), NEW chars \in Seq(Byte), Running(Start, in, chars, 0),
         Answers(Start, in, chars, 0, Input(in, chars, Start))
  PROVE  Answers(Decoded(chars), in, chars, Len(chars), Input(in, chars, Decoded(chars)))
<1>1. PICK f : IsAfter(f, chars, Len(chars)) /\ Decoded(chars) = f[Len(chars)]
  BY DecodedIs
<1> DEFINE Both(n) == /\ Running(f[n], in, chars, n)
                      /\ Answers(f[n], in, chars, n, Input(in, chars, f[n]))
           S == {n \in Nat : n <= Len(chars) => Both(n)}
<1>2. 0 \in S
  <2>1. f[0] = Start
    BY <1>1 DEF IsAfter
  <2> QED BY <2>1
<1>3. ASSUME NEW n \in Nat, n \in S PROVE n + 1 \in S
  <2> SUFFICES ASSUME n + 1 <= Len(chars) PROVE Both(n + 1)
    OBVIOUS
  <2>1. PICK j \in 0 .. Len(chars) : j = n + 1 /\ j # 0 /\ j - 1 = n
    OBVIOUS
  <2>2. f[j] = Consume(f[j - 1], chars[j])
    BY <1>1, <2>1, Zenon DEF IsAfter
  <2>3. f[n + 1] = Consume(f[n], chars[n + 1])
    BY <2>1, <2>2, Zenon
  <2>4. Running(f[n], in, chars, n) /\ Answers(f[n], in, chars, n, Input(in, chars, f[n]))
    BY <1>3
  <2>5. Running(f[n + 1], in, chars, n + 1)
    BY <2>3, <2>4, ConsumeRunning
  <2>6. Answers(f[n + 1], in, chars, n + 1, Input(in, chars, f[n + 1]))
    BY <2>3, <2>4, ConsumeAnswers
  <2> QED BY <2>5, <2>6
<1> HIDE DEF S
<1>4. Len(chars) \in S
  BY <1>2, <1>3, Induct
<1> QED BY <1>1, <1>4 DEF S

-----------------------------------------------------------------------------
(* The next character that BusDecode is given is an STX. *)
Pending == IF held # <<>> THEN log[held[1]] = STX ELSE q # <<>> /\ log[q[1]] = STX

(* Every telegram that the used characters hold was accepted. *)
Accepted ==
  \A msg \in Telegrams : \A t \in 0 .. Len(Used) :
    At(Used, t, Encoded(msg)) => \E k \in DOMAIN accepted : accepted[k] = [at |-> t, msg |-> msg]

ResyncInv ==
  /\ BusInv
  /\ held # <<>> => Cap > 0
  /\ Tracks(decoder, Used) \/ (decoder.l1 = "WAIT_FOR_STX" /\ Pending)
  /\ Accepted

LEMMA StuffedLonger == ASSUME NEW c \in Byte PROVE Len(Stuffed(c)) > 0
<1>1. CASE c \in {STX, ESC}
  <2>1. Stuffed(c) = <<ESC, Inverted(c)>>
    BY <1>1 DEF Stuffed
  <2> QED BY <2>1
<1>2. CASE c \notin {STX, ESC}
  <2>1. Stuffed(c) = <<c>>
    BY <1>2 DEF Stuffed
  <2> QED BY <2>1
<1> QED BY <1>1, <1>2

LEMMA CodeLonger ==
  ASSUME NEW msg \in Telegrams, NEW j \in 0 .. Len(msg) + 1
  PROVE  Code(msg)[j] \in Seq(Byte) /\ Len(Code(msg)[j]) > 0
<1>1. /\ Len(msg) \in Nat /\ Code(msg)[j] \in Seq(Byte)
      /\ Checked(msg) \in Seq(Byte) /\ Len(Checked(msg)) = Len(msg) + 1
  BY CodeOf
<1>2. CASE j = 0
  <2>1. Code(msg)[j] = <<STX>>
    BY <1>2, CodeOf
  <2> QED BY <1>1, <2>1
<1>3. CASE j # 0
  <2>1. PICK i \in 0 .. Len(msg) : j = i + 1 /\ i \in 0 .. Len(msg) + 1
    <3>1. j - 1 \in 0 .. Len(msg) /\ j = (j - 1) + 1 /\ j - 1 \in 0 .. Len(msg) + 1
      BY <1>1, <1>3
    <3> QED BY <3>1
  <2> DEFINE c == Checked(msg)[i + 1]
             s == Code(msg)[i]
             r == Stuffed(c)
  <2>2. Code(msg)[j] = s \o r
    BY <2>1, CodeOf
  <2>3. s \in Seq(Byte)
    BY <2>1, CodeOf
  <2>4. c \in Byte
    <3>1. PICK k \in 1 .. Len(Checked(msg)) : k = i + 1
      <4>1. i + 1 \in 1 .. Len(msg) + 1
        BY <1>1, <2>1
      <4> QED BY <1>1, <4>1
    <3> QED BY <1>1, <3>1, ElementOfSeq
  <2> HIDE DEF c
  <2>5. r \in Seq(Byte) /\ Len(r) > 0
    BY <2>4, StuffedType, StuffedLonger
  <2> HIDE DEF s, r
  <2>6. Len(s \o r) = Len(s) + Len(r) /\ Len(s) \in Nat /\ Len(r) \in Nat
    BY <2>3, <2>5, ConcatAt
  <2>7. Len(s \o r) > 0
    BY <2>5, <2>6
  <2> QED BY <1>1, <2>2, <2>7
<1> QED BY <1>2, <1>3

LEMMA QuietNone == Quiet(<<>>)
<1> SUFFICES ASSUME NEW msg \in Telegrams, NEW j \in 0 .. Len(msg), NEW esc \in BOOLEAN,
                    Underway(<<>>, msg, j, esc)
             PROVE  FALSE
  BY DEF Quiet
<1> DEFINE s == Code(msg)[j]
<1>1. s \in Seq(Byte) /\ Len(s) > 0 /\ Len(s) \in Nat
  <2>1. Len(msg) \in Nat
    BY CodeOf
  <2>2. j \in 0 .. Len(msg) + 1
    BY <2>1
  <2>3. s \in Seq(Byte) /\ Len(s) > 0
    BY <2>2, CodeLonger
  <2> HIDE DEF s
  <2> QED BY <2>3
<1>2. ESC \in Byte
  BY DEF ESC, Byte
<1>3. Len(Append(s, ESC)) = Len(s) + 1
  BY <1>1, <1>2, AppendAt
<1>4. \A r : At(<<>>, Len(<<>>), r) => Len(r) <= 0
  BY DEF At
<1>5. Len(IF esc THEN Append(s, ESC) ELSE s) <= 0
  BY <1>4 DEF Underway
<1> HIDE DEF s
<1> QED BY <1>1, <1>3, <1>5

LEMMA EncodedLonger == ASSUME NEW msg \in Telegrams PROVE Len(Encoded(msg)) > 0
<1>1. Len(msg) \in Nat /\ Code(msg)[Len(msg) + 1] = Encoded(msg)
  BY CodeOf
<1>2. PICK n \in 0 .. Len(msg) + 1 : n = Len(msg) + 1
  BY <1>1
<1>3. Len(Code(msg)[n]) > 0
  BY CodeLonger
<1> QED BY <1>1, <1>2, <1>3, Zenon

LEMMA ResyncStarts == Init => ResyncInv
<1> SUFFICES ASSUME Init PROVE ResyncInv
  OBVIOUS
<1>1. BusInv
  BY BusStarts
<1>2. Used = <<>>
  BY DEF Init, FifoInit, Used
<1>3. Tracks(decoder, Used)
  BY <1>2, QuietNone, QuietTracks
<1>4. Accepted
  <2> SUFFICES ASSUME NEW msg \in Telegrams, NEW t \in 0 .. Len(Used), At(Used, t, Encoded(msg))
               PROVE  FALSE
    BY DEF Accepted
  <2>1. t = 0
    BY <1>2
  <2>2. Len(Encoded(msg)) <= 0
    BY <2>1 DEF At
  <2>3. Encoded(msg) \in Seq(Byte) /\ Len(Encoded(msg)) > 0
    BY EncodedType, EncodedLonger
  <2>4. Len(Encoded(msg)) \in Nat
    BY <2>3
  <2> QED BY <2>2, <2>3, <2>4
<1>5. held = <<>>
  BY DEF Init, FifoInit
<1> QED BY <1>1, <1>3, <1>4, <1>5 DEF ResyncInv

-----------------------------------------------------------------------------
(* The steps of the senders and of the bus. *)
LEMMA ResyncSteady ==
  ASSUME ResyncInv, BusInv', Used' = Used, decoder' = decoder, accepted' = accepted,
         held' # <<>> => Cap > 0, Pending => Pending'
  PROVE  ResyncInv'
BY DEF ResyncInv, Accepted

LEMMA QueueLogged ==
  ASSUME FifoInv, log \in Seq(Byte), Len(log) = arrived
  PROVE  q \in Seq(Nat) /\ \A i \in 1 .. Len(q) : q[i] \in 1 .. Len(log)
<1>1. /\ q \in Seq(Nat) /\ held \in Seq(Nat) /\ taken \in Seq(Nat) /\ arrived \in Nat
      /\ Len(q) \in Nat
  BY DEF FifoInv, FifoTypeOK
<1> DEFINE s == taken \o held
<1>2. s \in Seq(Nat) /\ Len(s) \in Nat
  BY <1>1
<1>3. All = s \o q
  BY DEF All
<1> HIDE DEF s
<1>4. Len(All) = Len(s) + Len(q) /\ \A i \in 1 .. Len(q) : All[Len(s) + i] = q[i]
  BY <1>1, <1>2, <1>3, ConcatAt
<1>5. \A i \in 1 .. Len(All) : All[i] <= arrived /\ All[i] > 0
  BY DEF FifoInv, Numbered, Increasing
<1>6. ASSUME NEW i \in 1 .. Len(q) PROVE q[i] \in 1 .. Len(log)
  <2>1. Len(s) + i \in 1 .. Len(All)
    BY <1>1, <1>2, <1>4
  <2>2. q[i] <= arrived /\ q[i] > 0 /\ q[i] \in Nat
    BY <1>1, <1>4, <1>5, <2>1
  <2> QED BY <1>1, <2>2
<1> QED BY <1>1, <1>6

(* What fits of a queue that is not empty begins with the same character. *)
LEMMA FittingFirst ==
  ASSUME NEW s \in Seq(Nat), s # <<>>, Cap > 0
  PROVE  Fitting(s) # <<>> /\ Fitting(s)[1] = s[1]
<1>1. Len(s) \in Nat /\ Len(s) > 0 /\ Cap \in Nat
  BY CapAssumption
<1>2. PICK n \in 1 .. Len(s) : Fitting(s) = SubSeq(s, 1, n)
  <2>1. CASE Len(s) > Cap
    BY <1>1, <2>1 DEF Fitting
  <2>2. CASE ~(Len(s) > Cap)
    BY <1>1, <2>2 DEF Fitting
  <2> QED BY <2>1, <2>2
<1>3. Len(SubSeq(s, 1, n)) = n /\ SubSeq(s, 1, n)[1] = s[1]
  BY <1>1, <1>2
<1>4. SubSeq(s, 1, n) # <<>>
  BY <1>2, <1>3
<1> QED BY <1>2, <1>3, <1>4

LEMMA ArrivePending ==
  ASSUME BusInv, NEW ch \in Byte, Arrive(ch), Pending
  PROVE  Pending'
<1>1. FifoInv /\ log \in Seq(Byte) /\ Len(log) = arrived /\ Len(q) <= Cap
  BY DEF BusInv, TypeOK
<1>2. /\ log' = Append(log, ch) /\ held' = held /\ q' = Fitting(Append(q, arrived'))
      /\ arrived' \in Nat
  BY <1>1 DEF Arrive, Put, FifoInv, FifoTypeOK
<1>3. \A i \in 1 .. Len(log) : log'[i] = log[i]
  BY <1>1, <1>2, AppendAt
<1>4. CASE held # <<>>
  <2>1. held \in Seq(Nat)
    BY <1>1 DEF FifoInv, FifoTypeOK
  <2>2. 1 \in 1 .. Len(held)
    BY <1>4, <2>1
  <2>3. held[1] \in 1 .. Len(log)
    BY <1>1, <2>2, UsedType
  <2> QED BY <1>2, <1>3, <1>4, <2>3 DEF Pending
<1>5. CASE held = <<>>
  <2>1. q # <<>> /\ log[q[1]] = STX
    BY <1>5 DEF Pending
  <2>2. q \in Seq(Nat) /\ Len(q) \in Nat /\ 1 \in 1 .. Len(q)
    BY <1>1, <2>1, QueueLogged
  <2>3. q[1] \in 1 .. Len(log)
    BY <1>1, <2>2, QueueLogged
  <2>4. Cap > 0
    BY <1>1, <2>2, CapAssumption
  <2>5. /\ Append(q, arrived') \in Seq(Nat) /\ Append(q, arrived')[1] = q[1]
        /\ Append(q, arrived') # <<>>
    BY <1>2, <2>2
  <2>6. q' # <<>> /\ q'[1] = q[1]
    BY <1>2, <2>4, <2>5, FittingFirst
  <2> QED BY <1>2, <1>3, <1>5, <2>1, <2>3, <2>6 DEF Pending
<1> QED BY <1>4, <1>5

LEMMA ArriveResync ==
  ASSUME ResyncInv, BusInv', NEW ch \in Byte, Arrive(ch), decoder' = decoder, accepted' = accepted
  PROVE  ResyncInv'
<1>1. BusInv /\ FifoInv /\ log \in Seq(Byte) /\ Len(log) = arrived
  BY DEF ResyncInv, BusInv, TypeOK
<1>2. held' = held /\ Used' = Used
  BY <1>1, ArriveRight
<1>3. Pending => Pending'
  BY <1>1, ArrivePending
<1>4. held' # <<>> => Cap > 0
  BY <1>2 DEF ResyncInv
<1> QED BY <1>2, <1>3, <1>4, ResyncSteady

LEMMA SameResync ==
  ASSUME ResyncInv, BusInv', UNCHANGED <<fifoVars, log, decoder, accepted>>
  PROVE  ResyncInv'
<1>1. /\ held' = held /\ q' = q /\ taken' = taken /\ log' = log
      /\ decoder' = decoder /\ accepted' = accepted
  BY DEF fifoVars
<1>2. Used' = Used /\ (Pending => Pending') /\ (held' # <<>> => Cap > 0)
  BY <1>1, UsedSame DEF Pending, ResyncInv
<1> QED BY <1>1, <1>2, ResyncSteady

LEMMA CheckResync ==
  ASSUME ResyncInv, BusInv', BusCheck
  PROVE  ResyncInv'
<1>1. FifoInv /\ log \in Seq(Byte) /\ Len(log) = arrived /\ Len(q) <= Cap
  BY DEF ResyncInv, BusInv, TypeOK
<1>2. PICK k \in 1 .. Len(q) : held' = SubSeq(q, 1, k)
  BY DEF BusCheck, Take
<1>3. held = <<>> /\ taken' = taken /\ log' = log /\ decoder' = decoder /\ accepted' = accepted
  BY DEF BusCheck, Take, busVars
<1>4. q \in Seq(Nat) /\ Len(q) \in Nat
  BY <1>1, QueueLogged
<1>5. held' # <<>> /\ held'[1] = q[1]
  BY <1>2, <1>4
<1>6. Cap > 0
  BY <1>1, <1>2, <1>4, CapAssumption
<1>7. Pending => Pending'
  BY <1>3, <1>5 DEF Pending
<1>8. Used' = Used
  BY <1>3, UsedSame
<1> QED BY <1>3, <1>6, <1>7, <1>8, ResyncSteady

-----------------------------------------------------------------------------
(* BusDecode, and every telegram that it has used. *)
LEMMA DecodeAnswers ==
  ASSUME ResyncInv, held # <<>>
  PROVE  Answers(Decoded(Given), Used, Given, Len(Given), Input(Used, Given, Decoded(Given)))
<1>1. BusInv /\ FifoInv /\ log \in Seq(Byte) /\ Len(log) = arrived /\ DecoderOK
  BY TypeSplit DEF ResyncInv, BusInv, TypeOK
<1>2. Used \in Seq(Byte) /\ Given \in Seq(Byte)
  BY <1>1, UsedType
<1>3. Running(Start, Used, Given, 0)
  BY <1>1, <1>2, StartRunning DEF DecoderOK, BusInv
<1>4. /\ Start \in DecoderType /\ Start.rc = "BUS_MSG_RXING" /\ Start.used = 0 /\ ~Start.skip
      /\ Start.l1 = decoder.l1 /\ Start.l2 = decoder.l2 /\ Start.sum = decoder.sum
      /\ Start.stuff = decoder.stuff /\ Start.last = decoder.last /\ Start.msg = decoder.msg
  BY <1>1, StartType DEF DecoderOK
<1>5. Input(Used, Given, Start) = Used
  <2>1. SubSeq(Given, 1, 0) = <<>>
    BY <1>2
  <2>2. Used \o <<>> = Used
    BY <1>2
  <2> QED BY <1>4, <2>1, <2>2 DEF Input
<1>6. Tracks(Start, Used) \/ (Start.l1 = "WAIT_FOR_STX" /\ Given[1] = STX)
  <2>1. CASE Tracks(decoder, Used)
    BY <1>4, <2>1, TracksKept
  <2>2. CASE decoder.l1 = "WAIT_FOR_STX" /\ Pending
    <3>1. held \in Seq(Nat)
      BY <1>1 DEF FifoInv, FifoTypeOK
    <3>2. 1 \in DOMAIN held
      BY <3>1
    <3> QED BY <1>4, <2>2, <3>2 DEF Pending, Given
  <2> QED BY <2>1, <2>2 DEF ResyncInv
<1>7. Unmet(Used, Used)
  BY <1>2, UnmetNone
<1>8. Answers(Start, Used, Given, 0, Used)
  BY <1>4, <1>6, <1>7 DEF Answers
<1> QED BY <1>2, <1>3, <1>5, <1>8, DecodedAnswers

(* The first character that is put back is the next one to be read. *)
LEMMA PutBackFirst ==
  ASSUME FifoInv, PutBack, Cap > 0, NEW n \in 0 .. Len(held), n < Len(held),
         Len(taken') = Len(taken) + n
  PROVE  q' # <<>> /\ q'[1] = held[n + 1] /\ held' = <<>>
<1>1. /\ q \in Seq(Nat) /\ held \in Seq(Nat) /\ taken \in Seq(Nat)
      /\ Len(held) \in Nat /\ Len(taken) \in Nat
  BY DEF FifoInv, FifoTypeOK
<1>2. PICK k \in 0 .. Len(held) : /\ taken' = taken \o SubSeq(held, 1, k)
                                  /\ q' = Fitting(SubSeq(held, k + 1, Len(held)) \o q)
  BY DEF PutBack
<1>3. k = n
  <2>1. SubSeq(held, 1, k) \in Seq(Nat) /\ Len(SubSeq(held, 1, k)) = k
    BY <1>1
  <2>2. Len(taken') = Len(taken) + k
    BY <1>1, <1>2, <2>1
  <2> QED BY <1>1, <2>2
<1> DEFINE r == SubSeq(held, n + 1, Len(held))
<1>4. r \in Seq(Nat) /\ r # <<>> /\ r[1] = held[n + 1]
  <2>1. r \in Seq(Nat)
    BY <1>1, SplitSeq
  <2>2. Len(r) = Len(held) - n
    BY <1>1
  <2>3. r[1] = held[n + 1]
    BY <1>1
  <2>4. Len(r) > 0
    BY <1>1, <2>2
  <2> HIDE DEF r
  <2>5. r # <<>>
    BY <2>4
  <2> QED BY <2>1, <2>3, <2>5
<1> HIDE DEF r
<1>5. r \o q \in Seq(Nat) /\ (r \o q)[1] = r[1] /\ r \o q # <<>>
  <2>1. 1 \in 1 .. Len(r) /\ Len(r) \in Nat
    BY <1>4
  <2>2. Len(r \o q) = Len(r) + Len(q) /\ Len(q) \in Nat
    BY <1>1, <1>4
  <2>3. r \o q \in Seq(Nat) /\ (r \o q)[1] = r[1]
    BY <1>1, <1>4, <2>1, ConcatAt
  <2> QED BY <2>1, <2>2, <2>3
<1>6. q' = Fitting(r \o q)
  BY <1>2, <1>3 DEF r
<1>7. q' # <<>> /\ q'[1] = r[1]
  BY <1>5, <1>6, FittingFirst
<1> QED BY <1>4, <1>7 DEF PutBack

LEMMA DecodeResync ==
  ASSUME ResyncInv, BusInv', BusDecode
  PROVE  ResyncInv'
<1>1. /\ FifoInv /\ FifoInv' /\ log \in Seq(Byte) /\ Len(log) = arrived /\ held # <<>> /\ Cap > 0
      /\ accepted \in Seq([at : Nat, msg : Seq(Byte)])
  BY DEF ResyncInv, BusInv, TypeOK, BusDecode, AcceptedRight
<1>2. /\ Used \in Seq(Byte) /\ Len(Used) = Len(taken) /\ Given \in Seq(Byte) /\ Len(Given) = Len(held)
      /\ Len(taken) \in Nat /\ Len(held) \in Nat /\ Len(held) > 0
      /\ held \in Seq(Nat) /\ taken \in Seq(Nat)
  <2>1. held \in Seq(Nat) /\ taken \in Seq(Nat)
    BY <1>1 DEF FifoInv, FifoTypeOK
  <2>2. Len(taken) \in Nat /\ Len(held) \in Nat /\ Len(held) > 0
    BY <1>1, <2>1
  <2> QED BY <1>1, <2>1, <2>2, UsedType
<1> DEFINE d == Decoded(Given)
<1>3. Running(d, Used, Given, Len(Given)) /\ Answers(d, Used, Given, Len(Given), Input(Used, Given, d))
  BY <1>1, DecodeUsed, DecodeAnswers DEF ResyncInv
<1>4. /\ PutBack /\ taken' = taken \o SubSeq(held, 1, d.used) /\ decoder' = Kept(d)
      /\ accepted' = IF d.rc = "BUS_MSG_OK"
                     THEN Append(accepted, [at |-> Len(taken'), msg |-> d.msg])
                     ELSE accepted
      /\ log' = log
  BY DEF BusDecode, Given
<1> HIDE DEF d
<1>5. d \in DecoderType /\ d.used \in 0 .. Len(held)
  <2>1. d \in DecoderType
    BY <1>3 DEF Running
  <2>2. d.rc \in {"BUS_MSG_RXING", "BUS_MSG_OK", "BUS_MSG_ERROR"}
    BY <2>1 DEF DecoderType
  <2> QED BY <1>2, <1>3, <2>1, <2>2 DEF Running
<1>6. Used' = Input(Used, Given, d)
  BY <1>1, <1>4, <1>5, UsedInput DEF Input
<1>7. /\ Used' \in Seq(Byte) /\ Len(Used') = Len(Used) + d.used /\ Len(taken') = Len(taken) + d.used
      /\ \A i \in 1 .. Len(Used) : Used'[i] = Used[i]
  <2>1. SubSeq(Given, 1, d.used) \in Seq(Byte) /\ Len(SubSeq(Given, 1, d.used)) = d.used
    BY <1>2, <1>5
  <2>2. Used' = Used \o SubSeq(Given, 1, d.used)
    BY <1>6 DEF Input
  <2>3. /\ Used' \in Seq(Byte) /\ Len(Used') = Len(Used) + d.used
        /\ \A i \in 1 .. Len(Used) : Used'[i] = Used[i]
    BY <1>2, <2>1, <2>2
  <2>4. Len(taken') = Len(taken) + d.used
    <3>1. SubSeq(held, 1, d.used) \in Seq(Nat) /\ Len(SubSeq(held, 1, d.used)) = d.used
      BY <1>2, <1>5
    <3> QED BY <1>2, <1>4, <3>1
  <2> QED BY <2>3, <2>4
<1>8. Answers(d, Used, Given, Len(Given), Used')
  BY <1>3, <1>6
<1>9. d.rc \in {"BUS_MSG_RXING", "BUS_MSG_OK", "BUS_MSG_ERROR"}
  BY <1>5 DEF DecoderType
<1>10. Statics(d).l1 = d.l1 /\ Statics(d) \in StaticsType
  BY <1>5, StaticsRight
<1>11. Tracks(decoder', Used') \/ (decoder'.l1 = "WAIT_FOR_STX" /\ Pending')
  <2>1. CASE d.rc = "BUS_MSG_RXING"
    <3>1. Tracks(d, Used')
      <4>1. Len(Given) # 0
        BY <1>2
      <4> QED BY <1>8, <2>1, <4>1 DEF Answers
    <3>2. decoder' = Statics(d)
      BY <1>4, <2>1 DEF Kept
    <3>3. /\ decoder'.l1 = d.l1 /\ decoder'.l2 = d.l2 /\ decoder'.sum = d.sum
          /\ decoder'.stuff = d.stuff /\ decoder'.last = d.last /\ decoder'.msg = d.msg
      BY <1>5, <3>2, StaticsRight
    <3> QED BY <3>1, <3>3, TracksKept
  <2>2. CASE Quiet(Used')
    BY <2>2, QuietTracks
  <2>3. CASE /\ d.rc = "BUS_MSG_ERROR"
             /\ d.used < Len(Given) /\ Given[d.used + 1] = STX
    <3>1. q' # <<>> /\ q'[1] = held[d.used + 1] /\ held' = <<>>
      BY <1>1, <1>2, <1>4, <1>5, <1>7, <2>3, PutBackFirst
    <3>2. d.used + 1 \in DOMAIN held
      BY <1>2, <1>5, <2>3
    <3>3. log[held[d.used + 1]] = STX
      BY <2>3, <3>2 DEF Given
    <3>4. Pending'
      BY <1>4, <3>1, <3>3 DEF Pending
    <3>5. decoder'.l1 = "WAIT_FOR_STX"
      BY <1>4, <1>10, <2>3 DEF Kept, StaticsType
    <3> QED BY <3>4, <3>5
  <2> QED BY <1>8, <1>9, <2>1, <2>2, <2>3 DEF Answers
<1>12. Accepted'
  <2> SUFFICES ASSUME NEW msg \in Telegrams, NEW t \in 0 .. Len(Used'), At(Used', t, Encoded(msg))
               PROVE  \E k \in DOMAIN accepted' : accepted'[k] = [at |-> t, msg |-> msg]
    BY DEF Accepted
  <2>1. CASE t <= Len(Used)
    <3>1. t \in 0 .. Len(Used) /\ Len(Used) <= Len(Used')
      BY <1>2, <1>5, <1>7, <2>1
    <3>2. At(Used, t, Encoded(msg))
      BY <1>2, <1>7, <3>1, AtStays, EncodedType
    <3>3. PICK k \in DOMAIN accepted : accepted[k] = [at |-> t, msg |-> msg]
      BY <3>1, <3>2 DEF ResyncInv, Accepted
    <3>4. k \in DOMAIN accepted' /\ accepted'[k] = accepted[k]
      <4>1. CASE d.rc # "BUS_MSG_OK"
        BY <1>4, <4>1
      <4>2. CASE d.rc = "BUS_MSG_OK"
        <5> DEFINE a == [at |-> Len(taken'), msg |-> d.msg]
        <5>1. a \in [at : Nat, msg : Seq(Byte)]
          BY <1>2, <1>5, <1>7 DEF DecoderType
        <5>2. accepted' = Append(accepted, a)
          BY <1>4, <4>2
        <5> HIDE DEF a
        <5> QED BY <1>1, <5>1, <5>2
      <4> QED BY <4>1, <4>2
    <3> QED BY <3>3, <3>4
  <2>2. CASE t > Len(Used)
    <3>1. t \in Len(Used) + 1 .. Len(Used')
      BY <1>2, <1>5, <1>7, <2>2
    <3>2. ~Unmet(Used, Used')
      BY <3>1 DEF Unmet
    <3>3. d.rc = "BUS_MSG_OK" /\ t = Len(Used') /\ d.msg = msg
      BY <1>8, <1>9, <3>1, <3>2 DEF Answers
    <3> DEFINE a == [at |-> Len(taken'), msg |-> d.msg]
    <3>4. a \in [at : Nat, msg : Seq(Byte)]
      BY <1>2, <1>5, <1>7 DEF DecoderType
    <3>5. accepted' = Append(accepted, a) /\ a = [at |-> t, msg |-> msg]
      BY <1>2, <1>4, <1>7, <3>3
    <3> HIDE DEF a
    <3>6. Len(accepted) + 1 \in DOMAIN accepted' /\ accepted'[Len(accepted) + 1] = a
      BY <1>1, <3>4, <3>5
    <3> QED BY <3>5, <3>6
  <2> QED BY <1>2, <2>1, <2>2
<1> QED BY <1>2, <1>4, <1>11, <1>12 DEF ResyncInv, PutBack

LEMMA ResyncStep == ResyncInv /\ [Next]_vars => ResyncInv'
<1> SUFFICES ASSUME ResyncInv, [Next]_vars PROVE ResyncInv'
  OBVIOUS
<1>1. BusInv'
  BY BusStep DEF ResyncInv
<1>2. SenderType
  BY TypeSplit DEF ResyncInv, BusInv
<1>3. CASE UNCHANGED vars
  BY <1>1, <1>3, SameResync DEF vars, busVars
<1>4. CASE BusSend
  BY <1>1, <1>4, SameResync DEF BusSend
<1>5. CASE Transmit
  <2>1. Head(sending) \in Byte
    BY <1>2, <1>5, SendingLeft DEF SenderType, Transmit
  <2> QED BY <1>1, <1>5, <2>1, ArriveResync DEF Transmit
<1>6. CASE Disturb
  <2>1. CASE \E ch \in Garbage : Arrive(ch)
    BY <1>1, <1>6, <2>1, ArriveResync, BusRxAssumption DEF Disturb
  <2>2. CASE UNCHANGED <<fifoVars, log>>
    BY <1>1, <1>6, <2>2, SameResync DEF Disturb
  <2> QED BY <1>6, <2>1, <2>2 DEF Disturb
<1> QED BY <1>1, <1>3, <1>4, <1>5, <1>6, CheckResync, DecodeResync DEF Next

LEMMA ResyncMeans == ResyncInv => Resynchronised
<1> SUFFICES ASSUME ResyncInv, NEW msg \in Telegrams, NEW i \in 0 .. Len(taken) - Len(Codes[msg]),
                    \A p \in DOMAIN Codes[msg] : log[taken[i + p]] = Codes[msg][p]
             PROVE  \E k \in DOMAIN accepted :
                      accepted[k] = [at |-> i + Len(Codes[msg]), msg |-> msg]
  BY DEF Resynchronised
<1> DEFINE s == Encoded(msg)
<1>1. Codes[msg] = s /\ s \in Seq(Byte) /\ Len(s) \in Nat /\ DOMAIN s = 1 .. Len(s)
  <2>1. s \in Seq(Byte)
    BY EncodedType
  <2>2. Codes[msg] = s
    BY DEF Codes
  <2> HIDE DEF s
  <2> QED BY <2>1, <2>2
<1> HIDE DEF s
<1>2. Len(Used) = Len(taken) /\ Len(taken) \in Nat
  BY UsedType DEF ResyncInv, BusInv, TypeOK, FifoInv, FifoTypeOK
<1> DEFINE t == i + Len(s)
<1>3. i \in Nat /\ t \in 0 .. Len(Used) /\ Len(s) <= t /\ t - Len(s) = i
  BY <1>1, <1>2
<1>4. ASSUME NEW p \in 1 .. Len(s) PROVE Used[t - Len(s) + p] = s[p]
  <2>1. i + p \in 1 .. Len(taken)
    BY <1>1, <1>2, <1>3
  <2>2. Used[i + p] = log[taken[i + p]]
    BY <2>1 DEF Used
  <2> QED BY <1>1, <1>3, <2>2
<1> HIDE DEF t
<1>5. At(Used, t, s)
  BY <1>2, <1>3, <1>4 DEF At
<1>6. \E k \in DOMAIN accepted : accepted[k] = [at |-> t, msg |-> msg]
  BY <1>3, <1>5 DEF ResyncInv, Accepted, s
<1> QED BY <1>1, <1>6 DEF t

(* BusDecode finds its way back: a telegram whose characters it has used was   *)
(* accepted at the last one, whatever came before it and however the reads     *)
(* divided it.                                                                 *)
THEOREM FindsItsWay == Spec => []Resynchronised
<1> QED BY ResyncStarts, ResyncStep, ResyncMeans, PTL DEF Spec
==============================================================================
