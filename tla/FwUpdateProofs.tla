--------------------------- MODULE FwUpdateProofs ---------------------------
(***************************************************************************)
(* A firmware update of any length and any number of lost, late and        *)
(* repeated telegrams and of resets: what is in the flash is right, and    *)
(* complete when the tool says so.                                         *)
(***************************************************************************)
EXTENDS FwUpdate, SequenceTheorems, TLAPS

Sent(queue) == {queue[i] : i \in 1 .. Len(queue)}

Requests ==
  {Msg(t) : t \in {"ReqReboot", "ReqUpdEnter", "ReqUpdTerm"}} \cup {Data(p, p) : p \in 0 .. fileLen - 1}
Responses ==
  {Msg(t) : t \in {"Startup", "RespUpdEnter", "RespUpdTerm"}} \cup {RespData(a) : a \in Packets \cup {INV_PAGE}}

BusOK == toTarget \in Seq(Requests) /\ toTool \in Seq(Responses)

(* No request to begin follows data: erasing never destroys what was programmed. *)
EnterFirst(queue) ==
  \A i, j \in 1 .. Len(queue) : queue[i].type = "ReqUpdData" /\ queue[j].type = "ReqUpdEnter" => j < i

Loading == target = "WAIT_FOR_UPD_DATA"
Early == sFwuState \in {"WAIT_FOR_STARTUP_MSG", "WAIT_FOR_UPD_ENTER_RESP"}
Final == sFwuState \in {"WAIT_FOR_UPD_TERM_RESP", "WAIT_FOR_REBOOT_RESP"}

(* The positions of the tool in the file *)
FileInv ==
  /\ fileLen \in Nat
  /\ Early => sLastWordAddr = 0 /\ filePos = 0 /\ (~ended => sNextWordAddr = 0)
  /\ sFwuState = "WAIT_FOR_UPD_DATA_RESP" =>
       /\ sLastWordAddr < fileLen /\ sLastWordAddr <= Capacity
       /\ sNextWordAddr = sLastWordAddr + 1 /\ filePos = sLastWordAddr + 1
  /\ Final => sLastWordAddr = fileLen /\ 0 < fileLen /\ fileLen <= Capacity

(* What the place of packet p may hold once it was erased *)
Right(p, x) == x = Blank \/ (x = p /\ p < fileLen)

PageRight ==
  IF sActualProgramingPage = INV_PAGE THEN page = BlankPage
  ELSE \A p \in Packets : PageOf(p) = sActualProgramingPage => Right(p, page[p % PagePackets])

FlashRight == \A p \in Packets : flash[p] = Old \/ Right(p, flash[p])

Begun == Loading \/ ~Early \/ Msg("RespUpdEnter") \in Sent(toTool)
Erased == Begun => \A p \in Packets : flash[p] # Old

(* Packet p is in the flash, or in the page buffer. *)
Have(p) == flash[p] = p \/ (sActualProgramingPage = PageOf(p) /\ page[p % PagePackets] = p)

(* While the target loads it has what the tool believes it has. *)
Progress == Loading => \A p \in Packets : p < sLastWordAddr => Have(p)

(* Which telegrams may be on their way to the target, and to the tool *)
UpOK(m) ==
  /\ m.type = "ReqUpdData" => ~Early /\ m.addr <= sLastWordAddr
  /\ m.type = "ReqUpdEnter" => sLastWordAddr = 0 /\ sFwuState # "WAIT_FOR_STARTUP_MSG"
  /\ m.type = "ReqUpdTerm" => Final

DownOK(m) ==
  /\ m.type = "RespUpdEnter" => sFwuState # "WAIT_FOR_STARTUP_MSG"
  /\ m.type = "RespUpdData" =>
       /\ ~Early
       /\ Msg("ReqUpdEnter") \notin Sent(toTarget)
       /\ m.addr # INV_PAGE => m.addr <= sLastWordAddr /\ (Loading => Have(m.addr))
  /\ m.type = "RespUpdTerm" => Final /\ flash = Image

OnTheWay ==
  /\ EnterFirst(toTarget)
  /\ \A m \in Sent(toTarget) : UpOK(m)
  /\ \A m \in Sent(toTool) : DownOK(m)

Complete ==
  /\ sFwuState = "WAIT_FOR_REBOOT_RESP" => flash = Image
  /\ reported = "OK" => sFwuState = "WAIT_FOR_REBOOT_RESP"

Started == target \in {"application", "WAIT_FOR_UPD_ENTER_TIMEOUT"} => ChecksumRight

FwInv ==
  /\ TypeOK /\ BusOK /\ FileInv
  /\ PageRight /\ FlashRight /\ Erased /\ Progress /\ OnTheWay /\ Complete /\ Started
  /\ Loading => sFwuState # "WAIT_FOR_STARTUP_MSG"

-----------------------------------------------------------------------------
(* What is on its way after sending, and after the first telegram was taken. *)
LEMMA SentAppend ==
  ASSUME NEW S, NEW queue \in Seq(S), NEW m \in S
  PROVE  Append(queue, m) \in Seq(S) /\ Sent(Append(queue, m)) = Sent(queue) \cup {m}
  <1>1. Append(queue, m) \in Seq(S) /\ Len(Append(queue, m)) = Len(queue) + 1 /\ Len(queue) \in Nat
    OBVIOUS
  <1>2. \A i \in 1 .. Len(queue) : Append(queue, m)[i] = queue[i]
    OBVIOUS
  <1>3. Append(queue, m)[Len(queue) + 1] = m
    OBVIOUS
  <1> HIDE DEF Sent
  <1>4. ASSUME NEW x \in Sent(Append(queue, m)) PROVE x \in Sent(queue) \cup {m}
    <2>1. PICK i \in 1 .. Len(queue) + 1 : x = Append(queue, m)[i]
      BY <1>1 DEF Sent
    <2> QED
      BY <1>1, <1>2, <1>3, <2>1 DEF Sent
  <1>5. ASSUME NEW x \in Sent(queue) \cup {m} PROVE x \in Sent(Append(queue, m))
    <2>1. CASE x = m
      BY <1>1, <1>3, <2>1 DEF Sent
    <2>2. CASE x \in Sent(queue)
      <3>1. PICK i \in 1 .. Len(queue) : x = queue[i]
        BY <2>2 DEF Sent
      <3> QED
        BY <1>1, <1>2, <3>1 DEF Sent
    <2> QED
      BY <2>1, <2>2
  <1> QED
    BY <1>1, <1>4, <1>5

LEMMA SentTail ==
  ASSUME NEW S, NEW queue \in Seq(S), queue # <<>>
  PROVE  /\ Head(queue) \in S /\ Head(queue) \in Sent(queue)
         /\ Tail(queue) \in Seq(S) /\ Sent(Tail(queue)) \subseteq Sent(queue)
  <1>1. /\ Head(queue) \in S /\ Tail(queue) \in Seq(S) /\ Len(Tail(queue)) = Len(queue) - 1
        /\ \A i \in 1 .. Len(Tail(queue)) : Tail(queue)[i] = queue[i + 1]
    BY HeadTailProperties
  <1>2. Len(queue) \in Nat \ {0} /\ Head(queue) = queue[1]
    BY EmptySeq
  <1>3. Head(queue) \in Sent(queue)
    BY <1>2 DEF Sent
  <1>4. ASSUME NEW x \in Sent(Tail(queue)) PROVE x \in Sent(queue)
    <2>1. PICK i \in 1 .. Len(Tail(queue)) : x = Tail(queue)[i]
      BY DEF Sent
    <2>2. i + 1 \in 1 .. Len(queue) /\ x = queue[i + 1]
      BY <1>1, <1>2, <2>1
    <2> QED
      BY <2>2 DEF Sent
  <1> QED
    BY <1>1, <1>3, <1>4

(* The order of the requests *)
LEMMA EnterFirstTail ==
  ASSUME NEW S, NEW queue \in Seq(S), queue # <<>>, EnterFirst(queue)
  PROVE  /\ EnterFirst(Tail(queue))
         /\ Head(queue).type = "ReqUpdData" => \A m \in Sent(Tail(queue)) : m.type # "ReqUpdEnter"
  <1>1. /\ Len(Tail(queue)) = Len(queue) - 1
        /\ \A i \in 1 .. Len(Tail(queue)) : Tail(queue)[i] = queue[i + 1]
    BY HeadTailProperties
  <1>2. Len(queue) \in Nat \ {0} /\ Head(queue) = queue[1]
    BY EmptySeq
  <1>3. EnterFirst(Tail(queue))
    BY <1>1, <1>2 DEF EnterFirst
  <1>4. ASSUME Head(queue).type = "ReqUpdData", NEW m \in Sent(Tail(queue)), m.type = "ReqUpdEnter"
        PROVE  FALSE
    <2>1. PICK i \in 1 .. Len(Tail(queue)) : m = Tail(queue)[i]
      BY DEF Sent
    <2>2. i + 1 \in 1 .. Len(queue) /\ m = queue[i + 1] /\ 1 \in 1 .. Len(queue)
      BY <1>1, <1>2, <2>1
    <2>3. i + 1 < 1
      BY <1>2, <1>4, <2>2 DEF EnterFirst
    <2> QED
      BY <2>3
  <1> QED
    BY <1>3, <1>4

LEMMA EnterFirstAppend ==
  ASSUME NEW S, NEW queue \in Seq(S), NEW m \in S, EnterFirst(queue),
         m.type = "ReqUpdEnter" => \A n \in Sent(queue) : n.type # "ReqUpdData"
  PROVE  EnterFirst(Append(queue, m))
  <1>1. Len(Append(queue, m)) = Len(queue) + 1 /\ Len(queue) \in Nat
    OBVIOUS
  <1>2. \A i \in 1 .. Len(queue) : Append(queue, m)[i] = queue[i] /\ queue[i] \in Sent(queue)
    BY DEF Sent
  <1>3. Append(queue, m)[Len(queue) + 1] = m
    OBVIOUS
  <1> SUFFICES ASSUME NEW i \in 1 .. Len(queue) + 1, NEW j \in 1 .. Len(queue) + 1,
                      Append(queue, m)[i].type = "ReqUpdData", Append(queue, m)[j].type = "ReqUpdEnter"
               PROVE  j < i
    BY <1>1 DEF EnterFirst
  <1>4. CASE j = Len(queue) + 1
    BY <1>1, <1>2, <1>3, <1>4
  <1>5. CASE j # Len(queue) + 1 /\ i = Len(queue) + 1
    BY <1>1, <1>5
  <1>6. CASE j # Len(queue) + 1 /\ i # Len(queue) + 1
    BY <1>1, <1>2, <1>6 DEF EnterFirst
  <1> QED
    BY <1>4, <1>5, <1>6

-----------------------------------------------------------------------------
(* A packet is where its page and its offset say. *)
LEMMA PlaceOf ==
  ASSUME NEW p \in Nat
  PROVE  /\ PageOf(p) \in Nat /\ p % PagePackets \in Offsets
         /\ p = (PagePackets * PageOf(p)) + (p % PagePackets)
  BY FwUpdateAssumption DEF PageOf, Offsets

LEMMA SamePlace ==
  ASSUME NEW p \in Nat, NEW r \in Nat, PageOf(p) = PageOf(r), p % PagePackets = r % PagePackets
  PROVE  p = r
  BY PlaceOf
-----------------------------------------------------------------------------
(* Programming the page buffer, and a packet into it or over it *)
LEMMA ProgrammedRight ==
  ASSUME NEW p \in Packets, NEW old, NEW new, Right(p, old), Right(p, new)
  PROVE  /\ Right(p, Programmed(old, new))
         /\ old = p \/ new = p => Programmed(old, new) = p
  <1>1. p \in Nat /\ p # Blank /\ p # Mixed
    BY FwUpdateAssumption DEF Packets
  <1> QED
    BY <1>1 DEF Programmed, Right

LEMMA ProgrammedContents ==
  ASSUME NEW old \in Contents, NEW new \in Contents
  PROVE  Programmed(old, new) \in Contents
  BY DEF Programmed, Contents

PageContentsRight(pageNo, buffer) ==
  \A p \in Packets : PageOf(p) = pageNo => Right(p, buffer[p % PagePackets])

LEMMA WithPageRight ==
  ASSUME NEW f \in [Packets -> Contents], NEW buffer \in [Offsets -> Contents], NEW pageNo,
         \A p \in Packets : Right(p, f[p]), PageContentsRight(pageNo, buffer)
  PROVE  /\ WithPage(f, pageNo, buffer) \in [Packets -> Contents]
         /\ \A p \in Packets : Right(p, WithPage(f, pageNo, buffer)[p])
         /\ \A p \in Packets : f[p] = p => WithPage(f, pageNo, buffer)[p] = p
         /\ \A p \in Packets : PageOf(p) = pageNo /\ buffer[p % PagePackets] = p
                                 => WithPage(f, pageNo, buffer)[p] = p
  <1>1. \A p \in Packets : p \in Nat /\ p % PagePackets \in Offsets
    BY PlaceOf DEF Packets
  <1>2. ASSUME NEW p \in Packets
        PROVE  WithPage(f, pageNo, buffer)[p] = IF PageOf(p) = pageNo
                                                THEN Programmed(f[p], buffer[p % PagePackets]) ELSE f[p]
    BY DEF WithPage
  <1>3. WithPage(f, pageNo, buffer) \in [Packets -> Contents]
    <2>1. \A p \in Packets : Programmed(f[p], buffer[p % PagePackets]) \in Contents
      BY <1>1, ProgrammedContents
    <2> QED
      BY <2>1 DEF WithPage
  <1>4. ASSUME NEW p \in Packets
        PROVE  /\ Right(p, WithPage(f, pageNo, buffer)[p])
               /\ f[p] = p => WithPage(f, pageNo, buffer)[p] = p
               /\ PageOf(p) = pageNo /\ buffer[p % PagePackets] = p => WithPage(f, pageNo, buffer)[p] = p
    <2>1. CASE PageOf(p) = pageNo
      <3>1. Right(p, f[p]) /\ Right(p, buffer[p % PagePackets])
        BY <2>1 DEF PageContentsRight
      <3> QED
        BY <1>2, <2>1, <3>1, ProgrammedRight
    <2>2. CASE PageOf(p) # pageNo
      BY <1>2, <2>2
    <2> QED
      BY <2>1, <2>2
  <1> QED
    BY <1>3, <1>4

LEMMA BlankPageRight ==
  BlankPage \in [Offsets -> Contents] /\ \A pageNo : PageContentsRight(pageNo, BlankPage)
  <1>1. BlankPage \in [Offsets -> Contents]
    BY DEF BlankPage, Contents
  <1>2. \A p \in Packets : p % PagePackets \in Offsets
    BY PlaceOf DEF Packets
  <1> QED
    BY <1>1, <1>2 DEF PageContentsRight, Right, BlankPage

(* A packet is programmed: what was there stays, and the packet is there. *)
LEMMA FlashProgramRight ==
  ASSUME NEW a \in Packets, a < fileLen, TypeOK, PageRight, \A p \in Packets : Right(p, flash[p]),
         FlashProgram(a, a), fileLen' = fileLen
  PROVE  /\ flash' \in [Packets -> Contents] /\ page' \in [Offsets -> Contents]
         /\ sActualProgramingPage' \in {PageOf(p) : p \in Packets} \cup {INV_PAGE}
         /\ PageRight' /\ \A p \in Packets : Right(p, flash'[p])
         /\ \A p \in Packets : flash[p] = p => flash'[p] = p
         /\ \A p \in Packets : Have(p) => Have(p)'
         /\ Have(a)'
  <1> DEFINE at == a % PagePackets
             f == Flushed(PageOf(a))
             filled == [f.page EXCEPT ![at] = Programmed(@, a)]
  <1>1. \A p \in Packets : p \in Nat /\ p % PagePackets \in Offsets /\ PageOf(p) \in Nat
    BY PlaceOf DEF Packets
  <1>2. INV_PAGE \notin Nat /\ PageOf(a) # INV_PAGE /\ a \in Contents
    BY <1>1, FwUpdateAssumption DEF Contents
  <1>3. flash \in [Packets -> Contents] /\ page \in [Offsets -> Contents]
    BY DEF TypeOK
  <1>4. /\ f.flash \in [Packets -> Contents] /\ f.page \in [Offsets -> Contents]
        /\ \A p \in Packets : Right(p, f.flash[p])
        /\ PageContentsRight(PageOf(a), f.page)
        /\ \A p \in Packets : flash[p] = p => f.flash[p] = p
        /\ \A p \in Packets : Have(p) => f.flash[p] = p \/ (PageOf(p) = PageOf(a) /\ f.page[p % PagePackets] = p)
    <2>1. CASE sActualProgramingPage \in {INV_PAGE, PageOf(a)}
      <3>1. f.flash = flash /\ f.page = page
        BY <2>1 DEF Flushed
      <3>2. PageContentsRight(PageOf(a), page)
        BY <2>1, <1>2, BlankPageRight DEF PageRight, PageContentsRight
      <3>3. \A p \in Packets : Have(p) => flash[p] = p \/ (PageOf(p) = PageOf(a) /\ page[p % PagePackets] = p)
        BY <1>1, <1>2, <2>1 DEF Have
      <3> QED
        BY <1>3, <3>1, <3>2, <3>3
    <2>2. CASE sActualProgramingPage \notin {INV_PAGE, PageOf(a)}
      <3>1. f.flash = WithPage(flash, sActualProgramingPage, page) /\ f.page = BlankPage
        BY <2>2 DEF Flushed
      <3>2. PageContentsRight(sActualProgramingPage, page)
        BY <2>2 DEF PageRight, PageContentsRight
      <3>3. /\ WithPage(flash, sActualProgramingPage, page) \in [Packets -> Contents]
            /\ \A p \in Packets : Right(p, WithPage(flash, sActualProgramingPage, page)[p])
            /\ \A p \in Packets : flash[p] = p => WithPage(flash, sActualProgramingPage, page)[p] = p
            /\ \A p \in Packets : PageOf(p) = sActualProgramingPage /\ page[p % PagePackets] = p
                                    => WithPage(flash, sActualProgramingPage, page)[p] = p
        BY <1>3, <3>2, WithPageRight
      <3>4. \A p \in Packets : Have(p) => WithPage(flash, sActualProgramingPage, page)[p] = p
        BY <3>3 DEF Have
      <3> QED
        BY <3>1, <3>3, <3>4, BlankPageRight
    <2> QED
      BY <2>1, <2>2
  <1> HIDE DEF f
  <1>5. Right(a, f.page[at]) /\ Right(a, a)
    BY <1>4 DEF PageContentsRight, Right
  <1>6. /\ at \in Offsets
        /\ \A o \in Offsets : filled[o] = IF o = at THEN a ELSE f.page[o]
    <2>1. Programmed(f.page[at], a) = a
      BY <1>5, ProgrammedRight
    <2> QED
      BY <1>1, <1>4, <2>1
  <1>7. filled \in [Offsets -> Contents]
    <2>1. Programmed(f.page[at], a) = a
      BY <1>5, ProgrammedRight
    <2> QED
      BY <1>2, <1>4, <1>6, <2>1
  <1>8. PageContentsRight(PageOf(a), filled)
    <2> SUFFICES ASSUME NEW p \in Packets, PageOf(p) = PageOf(a)
                 PROVE  Right(p, filled[p % PagePackets])
      BY DEF PageContentsRight
    <2>1. CASE p % PagePackets = at
      <3>1. p = a
        BY <1>1, <2>1, SamePlace
      <3> QED
        BY <1>1, <1>5, <1>6, <2>1, <3>1
    <2>2. CASE p % PagePackets # at
      BY <1>1, <1>4, <1>6, <2>2 DEF PageContentsRight
    <2> QED
      BY <2>1, <2>2
  <1>9. \A p \in Packets : PageOf(p) = PageOf(a) /\ f.page[p % PagePackets] = p => filled[p % PagePackets] = p
    <2> SUFFICES ASSUME NEW p \in Packets, PageOf(p) = PageOf(a), f.page[p % PagePackets] = p
                 PROVE  filled[p % PagePackets] = p
      OBVIOUS
    <2>1. CASE p % PagePackets = at
      <3>1. p = a
        BY <1>1, <2>1, SamePlace
      <3> QED
        BY <1>1, <1>6, <2>1, <3>1
    <2>2. CASE p % PagePackets # at
      BY <1>1, <1>6, <2>2
    <2> QED
      BY <2>1, <2>2
  <1>10. filled[at] = a
    BY <1>6
  <1> DEFINE w == WithPage(f.flash, PageOf(a), filled)
  <1>11. /\ w \in [Packets -> Contents]
         /\ \A p \in Packets : Right(p, w[p])
         /\ \A p \in Packets : f.flash[p] = p => w[p] = p
         /\ \A p \in Packets : PageOf(p) = PageOf(a) /\ filled[p % PagePackets] = p => w[p] = p
    <2> HIDE DEF filled
    <2>1. f.flash \in [Packets -> Contents] /\ \A p \in Packets : Right(p, f.flash[p])
      BY <1>4
    <2> QED
      BY ONLY <2>1, <1>7, <1>8, WithPageRight
  <1>12. CASE at = PagePackets - 1
    <2>1. flash' = w /\ page' = BlankPage /\ sActualProgramingPage' = INV_PAGE
      BY <1>12 DEF FlashProgram, f
    <2>2. \A p \in Packets : Right(p, flash'[p])
      BY <1>11, <2>1
    <2>3. PageRight'
      BY <2>1 DEF PageRight
    <2>4. \A p \in Packets : flash[p] = p => flash'[p] = p
      BY <1>4, <1>11, <2>1
    <2>5. \A p \in Packets : Have(p) => Have(p)'
      BY <1>4, <1>9, <1>11, <2>1 DEF Have
    <2>6. Have(a)'
      BY <1>10, <1>11, <2>1 DEF Have
    <2> QED
      BY <1>11, <2>1, <2>2, <2>3, <2>4, <2>5, <2>6, BlankPageRight
  <1>13. CASE at # PagePackets - 1
    <2>1. flash' = f.flash /\ page' = filled /\ sActualProgramingPage' = PageOf(a)
      BY <1>13 DEF FlashProgram, f
    <2>2. \A p \in Packets : Right(p, flash'[p])
      BY <1>4, <2>1
    <2>3. PageRight'
      <3>1. \A p \in Packets : PageOf(p) = PageOf(a) => Right(p, filled[p % PagePackets])
        BY <1>8 DEF PageContentsRight
      <3> QED
        BY <1>2, <2>1, <3>1 DEF PageRight, Right
    <2>4. \A p \in Packets : flash[p] = p => flash'[p] = p
      BY <1>4, <2>1
    <2>5. \A p \in Packets : Have(p) => Have(p)'
      BY <1>4, <1>9, <2>1 DEF Have
    <2>6. Have(a)'
      BY <1>10, <2>1 DEF Have
    <2> QED
      BY <1>4, <1>7, <2>1, <2>2, <2>3, <2>4, <2>5, <2>6
  <1> QED
    BY <1>12, <1>13
-----------------------------------------------------------------------------
(* Telegrams *)
LEMMA Fields ==
  /\ \A t : Msg(t).type = t
  /\ \A a, d : Data(a, d).type = "ReqUpdData" /\ Data(a, d).addr = a /\ Data(a, d).data = d
  /\ \A a : RespData(a).type = "RespUpdData" /\ RespData(a).addr = a
  BY DEF Msg, Data, RespData

LEMMA Requested ==
  /\ Msg("ReqReboot") \in Requests /\ Msg("ReqUpdEnter") \in Requests /\ Msg("ReqUpdTerm") \in Requests
  /\ \A p \in 0 .. fileLen - 1 : Data(p, p) \in Requests
  /\ \A m \in Requests :
       /\ m.type = "ReqUpdData" => m.addr \in 0 .. fileLen - 1 /\ m.data = m.addr
       /\ m.type # "ReqUpdData" => m = Msg(m.type)
       /\ m.type \in {"ReqReboot", "ReqUpdEnter", "ReqUpdTerm", "ReqUpdData"}
  <1> SUFFICES ASSUME NEW m \in Requests
               PROVE  /\ m.type = "ReqUpdData" => m.addr \in 0 .. fileLen - 1 /\ m.data = m.addr
                      /\ m.type # "ReqUpdData" => m = Msg(m.type)
                      /\ m.type \in {"ReqReboot", "ReqUpdEnter", "ReqUpdTerm", "ReqUpdData"}
    BY DEF Requests
  <1>1. CASE \E t \in {"ReqReboot", "ReqUpdEnter", "ReqUpdTerm"} : m = Msg(t)
    BY <1>1, Fields
  <1>2. CASE \E p \in 0 .. fileLen - 1 : m = Data(p, p)
    BY <1>2, Fields
  <1> QED
    BY <1>1, <1>2 DEF Requests

LEMMA Responded ==
  /\ Msg("Startup") \in Responses /\ Msg("RespUpdEnter") \in Responses /\ Msg("RespUpdTerm") \in Responses
  /\ \A a \in Packets \cup {INV_PAGE} : RespData(a) \in Responses
  /\ \A m \in Responses :
       /\ m.type = "RespUpdData" => m.addr \in Packets \cup {INV_PAGE}
       /\ m.type # "RespUpdData" => m = Msg(m.type)
  <1> SUFFICES ASSUME NEW m \in Responses
               PROVE  /\ m.type = "RespUpdData" => m.addr \in Packets \cup {INV_PAGE}
                      /\ m.type # "RespUpdData" => m = Msg(m.type)
    BY DEF Responses
  <1>1. CASE \E t \in {"Startup", "RespUpdEnter", "RespUpdTerm"} : m = Msg(t)
    BY <1>1, Fields
  <1>2. CASE \E a \in Packets \cup {INV_PAGE} : m = RespData(a)
    BY <1>2, Fields
  <1> QED
    BY <1>1, <1>2 DEF Responses

LEMMA SentIn ==
  ASSUME NEW S, NEW queue \in Seq(S)
  PROVE  Sent(queue) \subseteq S
  BY ElementOfSeq DEF Sent

(* A step of the tool: the target and its flash stay. *)
LEMMA ToolKeeps ==
  ASSUME FwInv, UNCHANGED <<fileLen, targetVars>>
  PROVE  /\ PageRight' /\ FlashRight' /\ Started' /\ Image' = Image /\ (Loading' <=> Loading)
         /\ \A p : Have(p)' <=> Have(p)
         /\ Requests' = Requests /\ Responses' = Responses
         /\ flash' \in [Packets -> Contents] /\ page' \in [Offsets -> Contents]
         /\ sActualProgramingPage' \in {PageOf(p) : p \in Packets} \cup {INV_PAGE}
         /\ target' \in {"reset", "application", "WAIT_FOR_UPD_ENTER_TIMEOUT", "WAIT_FOR_UPD_ENTER",
                         "WAIT_FOR_UPD_DATA"}
  <1>1. /\ fileLen' = fileLen /\ target' = target /\ flash' = flash /\ page' = page
        /\ sActualProgramingPage' = sActualProgramingPage
    BY DEF targetVars, flashVars
  <1>2. PageRight' /\ FlashRight'
    BY <1>1 DEF FwInv, PageRight, FlashRight, Right
  <1>3. Image' = Image
    BY <1>1 DEF Image
  <1>4. Started'
    BY <1>1, <1>3 DEF FwInv, Started, ChecksumRight
  <1>5. Requests' = Requests /\ Responses' = Responses
    BY <1>1 DEF Requests, Responses
  <1> QED
    BY <1>1, <1>2, <1>3, <1>4, <1>5 DEF Loading, Have, FwInv, TypeOK

(* The tool takes an answer. *)
LEMMA AnswerTaken ==
  ASSUME FwInv, toTool # <<>>, toTool' = Tail(toTool)
  PROVE  /\ toTool' \in Seq(Responses) /\ Sent(toTool') \subseteq Sent(toTool)
         /\ Head(toTool) \in Responses /\ Head(toTool) \in Sent(toTool)
  BY SentTail DEF FwInv, BusOK

(* A request is sent. *)
LEMMA RequestSent ==
  ASSUME FwInv, NEW m \in Requests, Request(m), m.type = "ReqUpdEnter" => Early
  PROVE  /\ toTarget' \in Seq(Requests) /\ Sent(toTarget') = Sent(toTarget) \cup {m}
         /\ EnterFirst(toTarget')
  <1>1. toTarget \in Seq(Requests) /\ toTarget' = Append(toTarget, m)
    BY DEF FwInv, BusOK, Request
  <1>2. Early => \A n \in Sent(toTarget) : n.type # "ReqUpdData"
    BY DEF FwInv, OnTheWay, UpOK
  <1> QED
    BY <1>1, <1>2, SentAppend, EnterFirstAppend DEF FwInv, OnTheWay
-----------------------------------------------------------------------------
(* The steps of the tool *)
ToolTypes ==
  /\ sFwuState \in {"WAIT_FOR_STARTUP_MSG", "WAIT_FOR_UPD_ENTER_RESP",
                    "WAIT_FOR_UPD_DATA_RESP", "WAIT_FOR_UPD_TERM_RESP", "WAIT_FOR_REBOOT_RESP"}
  /\ sRetryCnt \in 0 .. MAX_RETRY + 1
  /\ sNextWordAddr \in 0 .. fileLen + 1 /\ sLastWordAddr \in 0 .. fileLen
  /\ filePos \in 0 .. fileLen
  /\ reported \in {"", "OK", "ERROR", "empty"} /\ ended \in BOOLEAN

LEMMA ToolParts ==
  FwInv => ToolTypes /\ FileInv /\ Complete
  BY DEF FwInv, TypeOK, ToolTypes

LEMMA ToolNumbers ==
  FwInv => /\ fileLen \in Nat /\ sRetryCnt \in 0 .. MAX_RETRY + 1
           /\ sLastWordAddr \in Nat /\ sNextWordAddr \in Nat /\ filePos \in Nat
  <1> SUFFICES ASSUME FwInv
               PROVE  /\ fileLen \in Nat /\ sRetryCnt \in 0 .. MAX_RETRY + 1
                      /\ sLastWordAddr \in Nat /\ sNextWordAddr \in Nat /\ filePos \in Nat
    OBVIOUS
  <1>1. fileLen \in Nat
    BY DEF FwInv, FileInv
  <1>2. /\ sRetryCnt \in 0 .. MAX_RETRY + 1
        /\ sNextWordAddr \in 0 .. fileLen + 1 /\ sLastWordAddr \in 0 .. fileLen /\ filePos \in 0 .. fileLen
    BY DEF FwInv, TypeOK
  <1> QED
    BY <1>1, <1>2

LEMMA ToolStep ==
  ASSUME FwInv, UNCHANGED <<fileLen, targetVars>>,
         BusOK', ToolTypes', FileInv', OnTheWay', Complete', Progress',
         Begun' => Begun,
         sFwuState' = "WAIT_FOR_STARTUP_MSG" => sFwuState = "WAIT_FOR_STARTUP_MSG"
  PROVE  FwInv'
  <1>1. TypeOK'
    BY ToolKeeps DEF ToolTypes, TypeOK
  <1>2. Erased'
    <2>1. flash' = flash
      BY DEF targetVars, flashVars
    <2> QED
      BY <2>1 DEF FwInv, Erased
  <1>3. Loading' => sFwuState' # "WAIT_FOR_STARTUP_MSG"
    BY ToolKeeps DEF FwInv
  <1> QED
    BY <1>1, <1>2, <1>3, ToolKeeps DEF FwInv

(* The tool sends m, or nothing, after it took an answer or after a time-out. *)
SendsOne(m) == Request(m) /\ m \in Requests /\ (m.type = "ReqUpdEnter" => Early)
Answered == toTool # <<>> /\ toTool' = Tail(toTool)

LEMMA BusStep ==
  ASSUME FwInv, UNCHANGED <<fileLen, targetVars>>,
         (\E m \in Requests : SendsOne(m)) \/ UNCHANGED toTarget,
         Answered \/ UNCHANGED toTool
  PROVE  /\ BusOK' /\ EnterFirst(toTarget') /\ Sent(toTool') \subseteq Sent(toTool)
         /\ Loading' => Loading
         /\ sFwuState' = sFwuState => (Begun' => Begun)
  <1>1. toTarget' \in Seq(Requests) /\ EnterFirst(toTarget')
    <2>1. CASE \E m \in Requests : SendsOne(m)
      BY <2>1, RequestSent DEF SendsOne
    <2>2. CASE UNCHANGED toTarget
      BY <2>2 DEF FwInv, BusOK, OnTheWay
    <2> QED
      BY <2>1, <2>2
  <1>2. toTool' \in Seq(Responses) /\ Sent(toTool') \subseteq Sent(toTool)
    <2>1. CASE Answered
      BY <2>1, AnswerTaken DEF Answered
    <2>2. CASE UNCHANGED toTool
      BY <2>2 DEF FwInv, BusOK
    <2> QED
      BY <2>1, <2>2
  <1>3. Loading' => Loading
    BY ToolKeeps
  <1> QED
    BY <1>1, <1>2, <1>3, ToolKeeps DEF BusOK, Begun, Early

LEMMA OnStartupKeeps ==
  ASSUME FwInv, UNCHANGED <<fileLen, targetVars>>, Answered, NEW m, m = Head(toTool), OnStartup(m), ~ended
  PROVE  FwInv'
  <1>1. Msg("ReqUpdEnter") \in Requests /\ Msg("ReqUpdEnter").type = "ReqUpdEnter"
    BY Requested, Fields
  <1>2. Early /\ ~Final /\ Early' /\ ~Final'
    BY DEF OnStartup, Early, Final
  <1>3. SendsOne(Msg("ReqUpdEnter"))
    BY <1>1, <1>2 DEF OnStartup, SendsOne
  <1>4. BusOK' /\ EnterFirst(toTarget') /\ Sent(toTool') \subseteq Sent(toTool) /\ (Loading' => Loading)
    BY <1>1, <1>3, BusStep
  <1>5. Sent(toTarget') = Sent(toTarget) \cup {Msg("ReqUpdEnter")}
    BY <1>1, <1>2, RequestSent DEF OnStartup
  <1>6. ToolTypes' /\ FileInv' /\ Complete'
    <2>1. ToolTypes /\ FileInv /\ Complete
      BY ToolParts
    <2>2. UNCHANGED <<fileLen, sLastWordAddr, sNextWordAddr, filePos, reported, ended>> /\ sRetryCnt' = 0
      BY DEF OnStartup, fileVars
    <2>3. sFwuState = "WAIT_FOR_STARTUP_MSG" /\ sFwuState' = "WAIT_FOR_UPD_ENTER_RESP"
      BY DEF OnStartup
    <2>4. ToolTypes'
      <3>1. ended' \in BOOLEAN
        BY <2>1, <2>2 DEF ToolTypes
      <3>2. sRetryCnt' \in 0 .. MAX_RETRY + 1
        BY <2>2, FwUpdateAssumption
      <3> QED
        BY <2>1, <2>2, <2>3, <3>1, <3>2 DEF ToolTypes
    <2>5. FileInv'
      BY <1>2, <2>1, <2>2, <2>3 DEF FileInv
    <2>6. Complete'
      BY <2>1, <2>2, <2>3 DEF Complete
    <2> QED
      BY <2>4, <2>5, <2>6
  <1>7. Progress'
    <2>1. sLastWordAddr' = 0
      BY <1>2, <1>6 DEF FileInv
    <2> QED
      BY <2>1, FwUpdateAssumption DEF Progress, Packets
  <1>8. OnTheWay'
    <2>1. \A n \in Sent(toTarget') : UpOK(n)'
      BY <1>1, <1>2, <1>5, <1>6 DEF FwInv, OnTheWay, UpOK, FileInv, OnStartup
    <2>2. \A n \in Sent(toTool') : DownOK(n)'
      BY <1>2, <1>4 DEF FwInv, OnTheWay, DownOK, OnStartup
    <2> QED
      BY <1>4, <2>1, <2>2 DEF OnTheWay
  <1>9. Begun' => Begun
    BY <1>2, <1>4 DEF Begun
  <1> QED
    BY <1>4, <1>6, <1>7, <1>8, <1>9, ToolStep DEF OnStartup

(* A step in which the tool stays where it is in the file: a request is       *)
(* repeated, an answer is not the one that is awaited, or the transfer ends.  *)
LEMMA StaysKeeps ==
  ASSUME FwInv, UNCHANGED <<fileLen, targetVars>>,
         (\E m \in Requests : SendsOne(m) /\ UpOK(m)) \/ UNCHANGED toTarget,
         Answered \/ UNCHANGED toTool,
         UNCHANGED <<sFwuState, sLastWordAddr, sNextWordAddr, filePos>>,
         sRetryCnt' \in 0 .. MAX_RETRY + 1, reported' \in {reported, "ERROR"},
         ended' = ended \/ ended' = TRUE
  PROVE  FwInv'
  <1>1. ToolTypes /\ FileInv /\ Complete
    BY ToolParts
  <1>2. /\ BusOK' /\ EnterFirst(toTarget') /\ Sent(toTool') \subseteq Sent(toTool)
        /\ (Loading' => Loading) /\ (Begun' => Begun)
    BY BusStep
  <1>3. ToolTypes'
    <2>1. ended' \in BOOLEAN
      BY <1>1 DEF ToolTypes
    <2> QED
      BY <1>1, <2>1 DEF ToolTypes
  <1>4. (Early' <=> Early) /\ (Final' <=> Final)
    BY DEF Early, Final
  <1>5. FileInv'
    <2>1. ~ended' => ~ended
      BY <1>1, <1>3 DEF ToolTypes
    <2> QED
      BY <1>1, <1>4, <2>1 DEF FileInv
  <1>6. flash' = flash /\ Image' = Image /\ \A p : Have(p)' <=> Have(p)
    BY ToolKeeps DEF targetVars, flashVars
  <1>7. Complete'
    BY <1>1, <1>6 DEF Complete
  <1>8. Progress'
    BY <1>2, <1>6 DEF FwInv, Progress
  <1>9. /\ \A n \in Sent(toTarget') : UpOK(n)
        /\ ~Early /\ Msg("ReqUpdEnter") \notin Sent(toTarget) => Msg("ReqUpdEnter") \notin Sent(toTarget')
    <2>1. ASSUME NEW m \in Requests, SendsOne(m), UpOK(m)
          PROVE  /\ \A n \in Sent(toTarget') : UpOK(n)
                 /\ ~Early /\ Msg("ReqUpdEnter") \notin Sent(toTarget)
                      => Msg("ReqUpdEnter") \notin Sent(toTarget')
      <3>1. Sent(toTarget') = Sent(toTarget) \cup {m}
        BY <2>1, RequestSent DEF SendsOne
      <3>2. ~Early => m # Msg("ReqUpdEnter")
        BY <2>1, Fields DEF SendsOne
      <3> QED
        BY <2>1, <3>1, <3>2 DEF FwInv, OnTheWay
    <2>2. CASE UNCHANGED toTarget
      BY <2>2 DEF FwInv, OnTheWay
    <2> QED
      BY <2>1, <2>2
  <1>10. OnTheWay'
    <2>1. \A n \in Sent(toTarget') : UpOK(n)'
      BY <1>4, <1>9 DEF UpOK
    <2>2. \A n \in Sent(toTool') : DownOK(n)'
      BY <1>2, <1>4, <1>6, <1>9 DEF FwInv, OnTheWay, DownOK
    <2> QED
      BY <1>2, <2>1, <2>2 DEF OnTheWay
  <1> QED
    BY <1>2, <1>3, <1>5, <1>7, <1>8, <1>10, ToolStep

LEMMA OnUpdEnterKeeps ==
  ASSUME FwInv, UNCHANGED <<fileLen, targetVars>>, Answered, NEW m, m = Head(toTool), OnUpdEnter(m), ~ended
  PROVE  FwInv'
  <1>1. ToolTypes /\ FileInv /\ Complete
    BY ToolParts
  <1>2. /\ sFwuState = "WAIT_FOR_UPD_ENTER_RESP" /\ Early /\ ~Final
        /\ sLastWordAddr = 0 /\ sNextWordAddr = 0 /\ filePos = 0 /\ fileLen \in Nat
    BY <1>1 DEF OnUpdEnter, Early, Final, FileInv
  <1>3. Begun
    <2>1. m \in Responses /\ m \in Sent(toTool)
      BY AnswerTaken DEF Answered
    <2>2. m = Msg("RespUpdEnter")
      BY <2>1, Responded DEF OnUpdEnter
    <2> QED
      BY <2>1, <2>2 DEF Begun
  <1>4. \A n \in Sent(toTarget) : n.type # "ReqUpdData" /\ n.type # "ReqUpdTerm"
    BY <1>2 DEF FwInv, OnTheWay, UpOK
  <1>5. \A n \in Sent(toTool) : n.type # "RespUpdData" /\ n.type # "RespUpdTerm"
    BY <1>2 DEF FwInv, OnTheWay, DownOK
  <1>6. CASE SendNext /\ sFwuState' = "WAIT_FOR_UPD_DATA_RESP" /\ sRetryCnt' = 0 /\ UNCHANGED <<reported, ended>>
    <2>1. 0 < fileLen /\ sLastWordAddr' = 0 /\ sNextWordAddr' = 1 /\ filePos' = 1
      BY <1>2, <1>6 DEF SendNext, Filled
    <2>2. Data(0, 0) \in Requests /\ Data(0, 0).type = "ReqUpdData" /\ Data(0, 0).addr = 0
      BY <1>2, <2>1, Requested, Fields
    <2>3. Request(Data(0, 0))
      BY <1>2, <1>6 DEF SendNext
    <2>4. SendsOne(Data(0, 0))
      BY <2>2, <2>3 DEF SendsOne
    <2>5. BusOK' /\ EnterFirst(toTarget') /\ Sent(toTool') \subseteq Sent(toTool)
      BY <2>2, <2>4, BusStep
    <2>6. Sent(toTarget') = Sent(toTarget) \cup {Data(0, 0)}
      BY <2>2, <2>3, RequestSent
    <2>7. ~Early' /\ ~Final'
      BY <1>6 DEF Early, Final
    <2>8. ToolTypes'
      <3>1. ended' \in BOOLEAN
        BY <1>1, <1>6 DEF ToolTypes
      <3>2. /\ sRetryCnt' \in 0 .. MAX_RETRY + 1 /\ sNextWordAddr' \in 0 .. fileLen' + 1
            /\ sLastWordAddr' \in 0 .. fileLen' /\ filePos' \in 0 .. fileLen'
        BY <1>2, <1>6, <2>1, FwUpdateAssumption
      <3> QED
        BY <1>1, <1>6, <3>1, <3>2 DEF ToolTypes
    <2>9. FileInv'
      BY <1>2, <1>6, <2>1, <2>7, FwUpdateAssumption DEF FileInv
    <2>10. Complete'
      BY <1>1, <1>2, <1>6 DEF Complete
    <2>11. Progress'
      BY <2>1, FwUpdateAssumption DEF Progress, Packets
    <2>12. OnTheWay'
      <3>1. \A n \in Sent(toTarget') : UpOK(n)'
        BY <1>4, <1>6, <2>1, <2>2, <2>6, <2>7 DEF UpOK
      <3>2. \A n \in Sent(toTool') : DownOK(n)'
        BY <1>5, <1>6, <2>5 DEF DownOK
      <3> QED
        BY <2>5, <3>1, <3>2 DEF OnTheWay
    <2> QED
      BY <1>3, <1>6, <2>5, <2>8, <2>9, <2>10, <2>11, <2>12, ToolStep
  <1>7. CASE SendNone /\ reported' = "empty" /\ ended' = TRUE /\ UNCHANGED <<sFwuState, sRetryCnt, toTarget>>
    <2>1. sLastWordAddr' = 0 /\ sNextWordAddr' = 1 /\ filePos' = 0
      BY <1>2, <1>7 DEF SendNone
    <2>2. BusOK' /\ EnterFirst(toTarget') /\ Sent(toTool') \subseteq Sent(toTool)
      BY <1>7, BusStep
    <2>3. Early' /\ ~Final'
      BY <1>2, <1>7 DEF Early, Final
    <2>4. ToolTypes'
      <3>1. ended' \in BOOLEAN
        BY <1>7
      <3>2. /\ sRetryCnt' \in 0 .. MAX_RETRY + 1 /\ sNextWordAddr' \in 0 .. fileLen' + 1
            /\ sLastWordAddr' \in 0 .. fileLen' /\ filePos' \in 0 .. fileLen'
        BY <1>2, <1>7, <2>1, ToolNumbers
      <3>3. sFwuState' = "WAIT_FOR_UPD_ENTER_RESP" /\ reported' = "empty"
        BY <1>2, <1>7
      <3> QED
        BY <3>1, <3>2, <3>3 DEF ToolTypes
    <2>5. FileInv'
      BY <1>2, <1>7, <2>1, <2>3 DEF FileInv
    <2>6. Complete'
      BY <1>2, <1>7 DEF Complete
    <2>7. Progress'
      BY <2>1, FwUpdateAssumption DEF Progress, Packets
    <2>8. OnTheWay'
      <3>1. \A n \in Sent(toTarget') : UpOK(n)'
        BY <1>2, <1>4, <1>7, <2>1 DEF UpOK
      <3>2. \A n \in Sent(toTool') : DownOK(n)'
        BY <1>2, <1>5, <1>7, <2>2 DEF DownOK
      <3> QED
        BY <2>2, <3>1, <3>2 DEF OnTheWay
    <2> QED
      BY <1>2, <1>3, <1>7, <2>2, <2>4, <2>5, <2>6, <2>7, <2>8, ToolStep
  <1> QED
    BY <1>6, <1>7 DEF OnUpdEnter

(* What an answer to data says *)
LEMMA DataAnswered ==
  ASSUME FwInv, Answered, NEW m, m = Head(toTool), OnUpdData(m)
  PROVE  /\ sFwuState = "WAIT_FOR_UPD_DATA_RESP" /\ ~Early /\ ~Final /\ Begun
         /\ fileLen \in Nat /\ sLastWordAddr \in Nat /\ sLastWordAddr < fileLen
         /\ sNextWordAddr = sLastWordAddr + 1 /\ filePos = sLastWordAddr + 1
         /\ \A n \in Sent(toTarget) : n.type # "ReqUpdEnter" /\ n.type # "ReqUpdTerm"
         /\ \A n \in Sent(toTool) : n.type # "RespUpdTerm"
         /\ m.addr = sLastWordAddr => sLastWordAddr \in Packets /\ (Loading => Have(sLastWordAddr))
  <1>1. ToolTypes /\ FileInv /\ Complete
    BY ToolParts
  <1>2. sFwuState = "WAIT_FOR_UPD_DATA_RESP" /\ ~Early /\ ~Final /\ Begun /\ m.type = "RespUpdData"
    BY DEF OnUpdData, Early, Final, Begun
  <1>3. fileLen \in Nat /\ sLastWordAddr \in Nat /\ sLastWordAddr < fileLen
    BY <1>1, <1>2, ToolNumbers DEF FileInv
  <1>4. sNextWordAddr = sLastWordAddr + 1 /\ filePos = sLastWordAddr + 1
    BY <1>1, <1>2 DEF FileInv
  <1>5. m \in Responses /\ m \in Sent(toTool)
    BY AnswerTaken DEF Answered
  <1>6. Msg("ReqUpdEnter") \notin Sent(toTarget)
    BY <1>2, <1>5 DEF FwInv, OnTheWay, DownOK
  <1>7. Sent(toTarget) \subseteq Requests
    BY SentIn DEF FwInv, BusOK
  <1>8. \A n \in Sent(toTarget) : n.type # "ReqUpdEnter"
    BY <1>6, <1>7, Requested
  <1>9. \A n \in Sent(toTarget) : n.type # "ReqUpdTerm"
    BY <1>2 DEF FwInv, OnTheWay, UpOK
  <1>10. \A n \in Sent(toTool) : n.type # "RespUpdTerm"
    BY <1>2 DEF FwInv, OnTheWay, DownOK
  <1>11. ASSUME m.addr = sLastWordAddr PROVE sLastWordAddr \in Packets /\ (Loading => Have(sLastWordAddr))
    <2>1. sLastWordAddr # INV_PAGE
      BY <1>3, FwUpdateAssumption
    <2>2. sLastWordAddr \in Packets
      BY <1>2, <1>5, <1>11, <2>1, Responded
    <2>3. DownOK(m)
      BY <1>5 DEF FwInv, OnTheWay
    <2> QED
      BY <1>2, <1>11, <2>1, <2>2, <2>3 DEF DownOK
  <1> QED
    BY <1>2, <1>3, <1>4, <1>8, <1>9, <1>10, <1>11

LEMMA NextDataKeeps ==
  ASSUME FwInv, UNCHANGED <<fileLen, targetVars>>, Answered, NEW m, m = Head(toTool), OnUpdData(m),
         m.addr = sLastWordAddr, SendNext, UNCHANGED sFwuState
  PROVE  FwInv'
  <1> DEFINE next == sLastWordAddr + 1
  <1>1. ToolTypes /\ FileInv /\ Complete
    BY ToolParts
  <1>2. /\ sFwuState = "WAIT_FOR_UPD_DATA_RESP" /\ fileLen \in Nat /\ sLastWordAddr \in Packets
        /\ sNextWordAddr = next /\ filePos = next /\ next \in Nat /\ fileLen' = fileLen
    BY DataAnswered DEF Packets
  <1>3. next < fileLen /\ sLastWordAddr' = next /\ sNextWordAddr' = next + 1 /\ filePos' = next + 1
    BY <1>2 DEF SendNext, Filled
  <1>4. ended' = ended /\ reported' = reported /\ sRetryCnt' = 0
    BY DEF OnUpdData
  <1>5. Data(next, next) \in Requests /\ Data(next, next).type = "ReqUpdData" /\ Data(next, next).addr = next
    BY <1>2, <1>3, Requested, Fields
  <1>6. Request(Data(next, next))
    BY <1>2 DEF SendNext
  <1>7. SendsOne(Data(next, next))
    BY <1>5, <1>6 DEF SendsOne
  <1>8. /\ BusOK' /\ EnterFirst(toTarget') /\ Sent(toTool') \subseteq Sent(toTool)
        /\ (Loading' => Loading) /\ (Begun' => Begun)
    BY <1>5, <1>7, BusStep
  <1>9. Sent(toTarget') = Sent(toTarget) \cup {Data(next, next)}
    BY <1>5, <1>6, RequestSent
  <1>10. ~Early' /\ ~Final'
    BY DataAnswered DEF Early, Final
  <1>11. ToolTypes'
    <2>1. ended' \in BOOLEAN
      BY <1>1, <1>4 DEF ToolTypes
    <2>2. /\ sRetryCnt' \in 0 .. MAX_RETRY + 1 /\ sNextWordAddr' \in 0 .. fileLen' + 1
          /\ sLastWordAddr' \in 0 .. fileLen' /\ filePos' \in 0 .. fileLen'
      BY <1>2, <1>3, <1>4, FwUpdateAssumption
    <2> QED
      BY <1>1, <1>4, <2>1, <2>2 DEF ToolTypes
  <1>12. FileInv'
    <2>1. next <= Capacity
      BY <1>2, FwUpdateAssumption DEF Packets
    <2> QED
      BY <1>2, <1>3, <1>10, <2>1 DEF FileInv
  <1>13. \A p : Have(p)' <=> Have(p)
    BY ToolKeeps
  <1>14. Complete'
    BY <1>1, <1>2, <1>4 DEF Complete
  <1>15. Progress'
    <2>1. ASSUME Loading, NEW p \in Packets, p < next PROVE Have(p)
      <3>1. CASE p = sLastWordAddr
        BY <2>1, <3>1, DataAnswered
      <3>2. CASE p # sLastWordAddr
        <4>1. p < sLastWordAddr
          BY <1>2, <2>1, <3>2 DEF Packets
        <4> QED
          BY <2>1, <4>1 DEF FwInv, Progress
      <3> QED
        BY <3>1, <3>2
    <2> QED
      BY <1>3, <1>8, <1>13, <2>1 DEF Progress
  <1>16. OnTheWay'
    <2>1. ASSUME NEW n \in Sent(toTarget') PROVE UpOK(n)'
      <3>1. CASE n = Data(next, next)
        BY <1>2, <1>3, <1>5, <1>10, <3>1 DEF UpOK
      <3>2. CASE n \in Sent(toTarget)
        <4>1. n.type # "ReqUpdEnter" /\ n.type # "ReqUpdTerm"
          BY <3>2, DataAnswered
        <4>2. n.type = "ReqUpdData" => n.addr \in Nat /\ n.addr <= sLastWordAddr
          <5>1. n \in Requests
            BY <3>2, SentIn DEF FwInv, BusOK
          <5>2. n.type = "ReqUpdData" => n.addr \in 0 .. fileLen - 1
            BY <5>1, Requested
          <5> QED
            BY <1>2, <3>2, <5>2 DEF FwInv, OnTheWay, UpOK
        <4> QED
          BY <1>2, <1>3, <1>10, <4>1, <4>2 DEF UpOK, Packets
      <3> QED
        BY <1>9, <2>1, <3>1, <3>2
    <2>2. ASSUME NEW n \in Sent(toTool') PROVE DownOK(n)'
      <3>1. n \in Sent(toTool) /\ DownOK(n)
        BY <1>8, <2>2 DEF FwInv, OnTheWay
      <3>2. n.type # "RespUpdTerm"
        BY <3>1, DataAnswered
      <3>3. Msg("ReqUpdEnter") \notin Sent(toTarget')
        <4>1. Msg("ReqUpdEnter").type = "ReqUpdEnter"
          BY Fields
        <4> QED
          BY <1>5, <1>9, <4>1, DataAnswered
      <3>4. n.type = "RespUpdData" /\ n.addr # INV_PAGE => n.addr \in Nat /\ n.addr <= next
        <4>1. n \in Responses
          BY <3>1, SentIn DEF FwInv, BusOK
        <4>2. n.type = "RespUpdData" /\ n.addr # INV_PAGE => n.addr \in Packets
          BY <4>1, Responded
        <4> QED
          BY <1>2, <3>1, <4>2 DEF DownOK, Packets
      <3> QED
        BY <1>2, <1>3, <1>8, <1>10, <1>13, <3>1, <3>2, <3>3, <3>4 DEF DownOK
    <2> QED
      BY <1>8, <2>1, <2>2 DEF OnTheWay
  <1>17. sFwuState' # "WAIT_FOR_STARTUP_MSG"
    BY <1>2
  <1> QED
    BY <1>8, <1>11, <1>12, <1>14, <1>15, <1>16, <1>17, ToolStep

LEMMA LastDataKeeps ==
  ASSUME FwInv, UNCHANGED <<fileLen, targetVars>>, Answered, NEW m, m = Head(toTool), OnUpdData(m),
         m.addr = sLastWordAddr, SendNone, Request(Msg("ReqUpdTerm")),
         sFwuState' = "WAIT_FOR_UPD_TERM_RESP"
  PROVE  FwInv'
  <1>1. ToolTypes /\ FileInv /\ Complete
    BY ToolParts
  <1>2. /\ sFwuState = "WAIT_FOR_UPD_DATA_RESP" /\ fileLen \in Nat /\ sLastWordAddr \in Packets
        /\ sLastWordAddr \in Nat /\ sLastWordAddr < fileLen
        /\ sNextWordAddr = sLastWordAddr + 1 /\ filePos = sLastWordAddr + 1 /\ fileLen' = fileLen
    BY DataAnswered
  <1>3. fileLen = sLastWordAddr + 1 /\ sLastWordAddr' = fileLen /\ sNextWordAddr' = fileLen + 1 /\ filePos' = fileLen
    BY <1>2 DEF SendNone, Filled
  <1>4. ended' = ended /\ reported' = reported /\ sRetryCnt' = 0
    BY DEF OnUpdData
  <1>5. Msg("ReqUpdTerm") \in Requests /\ Msg("ReqUpdTerm").type = "ReqUpdTerm"
    BY Requested, Fields
  <1>6. SendsOne(Msg("ReqUpdTerm"))
    BY <1>5 DEF SendsOne
  <1>7. /\ BusOK' /\ EnterFirst(toTarget') /\ Sent(toTool') \subseteq Sent(toTool) /\ (Loading' => Loading)
    BY <1>5, <1>6, BusStep
  <1>8. Sent(toTarget') = Sent(toTarget) \cup {Msg("ReqUpdTerm")}
    BY <1>5, RequestSent
  <1>9. ~Early' /\ Final'
    BY DEF Early, Final
  <1>10. ToolTypes'
    <2>1. ended' \in BOOLEAN
      BY <1>1, <1>4 DEF ToolTypes
    <2>2. /\ sRetryCnt' \in 0 .. MAX_RETRY + 1 /\ sNextWordAddr' \in 0 .. fileLen' + 1
          /\ sLastWordAddr' \in 0 .. fileLen' /\ filePos' \in 0 .. fileLen'
      BY <1>2, <1>3, <1>4, FwUpdateAssumption
    <2> QED
      BY <1>1, <1>4, <2>1, <2>2 DEF ToolTypes
  <1>11. FileInv'
    <2>1. fileLen <= Capacity
      BY <1>2, <1>3, FwUpdateAssumption DEF Packets
    <2> QED
      BY <1>2, <1>3, <1>9, <2>1 DEF FileInv
  <1>12. \A p : Have(p)' <=> Have(p)
    BY ToolKeeps
  <1>13. Complete'
    BY <1>1, <1>2, <1>4 DEF Complete
  <1>14. Progress'
    <2>1. ASSUME Loading, NEW p \in Packets, p < fileLen PROVE Have(p)
      <3>1. CASE p = sLastWordAddr
        BY <2>1, <3>1, DataAnswered
      <3>2. CASE p # sLastWordAddr
        <4>1. p < sLastWordAddr
          BY <1>2, <1>3, <2>1, <3>2 DEF Packets
        <4> QED
          BY <2>1, <4>1 DEF FwInv, Progress
      <3> QED
        BY <3>1, <3>2
    <2> QED
      BY <1>3, <1>7, <1>12, <2>1 DEF Progress
  <1>15. OnTheWay'
    <2>1. ASSUME NEW n \in Sent(toTarget') PROVE UpOK(n)'
      <3>1. CASE n = Msg("ReqUpdTerm")
        BY <1>5, <1>9, <3>1 DEF UpOK
      <3>2. CASE n \in Sent(toTarget)
        <4>1. n.type # "ReqUpdEnter"
          BY <3>2, DataAnswered
        <4>2. n.type = "ReqUpdData" => n.addr \in 0 .. fileLen - 1
          BY <3>2, SentIn, Requested DEF FwInv, BusOK
        <4>3. n.type = "ReqUpdData" => n.addr <= fileLen
          BY <1>2, <4>2
        <4> QED
          BY <1>3, <1>9, <4>1, <4>3 DEF UpOK
      <3> QED
        BY <1>8, <2>1, <3>1, <3>2
    <2>2. ASSUME NEW n \in Sent(toTool') PROVE DownOK(n)'
      <3>1. n \in Sent(toTool) /\ DownOK(n)
        BY <1>7, <2>2 DEF FwInv, OnTheWay
      <3>2. n.type # "RespUpdTerm"
        BY <3>1, DataAnswered
      <3>3. Msg("ReqUpdEnter") \notin Sent(toTarget')
        <4>1. Msg("ReqUpdEnter").type = "ReqUpdEnter"
          BY Fields
        <4> QED
          BY <1>5, <1>8, <4>1, DataAnswered
      <3>4. n.type = "RespUpdData" /\ n.addr # INV_PAGE => n.addr <= fileLen
        <4>1. n \in Responses
          BY <3>1, SentIn DEF FwInv, BusOK
        <4>2. n.type = "RespUpdData" /\ n.addr # INV_PAGE => n.addr \in Packets
          BY <4>1, Responded
        <4> QED
          BY <1>2, <1>3, <3>1, <4>2 DEF DownOK, Packets
      <3> QED
        BY <1>3, <1>7, <1>9, <1>12, <3>1, <3>2, <3>3, <3>4 DEF DownOK
    <2> QED
      BY <1>7, <2>1, <2>2 DEF OnTheWay
  <1>16. Begun
    BY DataAnswered
  <1> QED
    BY <1>7, <1>10, <1>11, <1>13, <1>14, <1>15, <1>16, ToolStep

LEMMA OnUpdTermKeeps ==
  ASSUME FwInv, UNCHANGED <<fileLen, targetVars>>, Answered, NEW m, m = Head(toTool), OnUpdTerm(m), ~ended
  PROVE  FwInv'
  <1>1. ToolTypes /\ FileInv /\ Complete
    BY ToolParts
  <1>2. /\ sFwuState = "WAIT_FOR_UPD_TERM_RESP" /\ sFwuState' = "WAIT_FOR_REBOOT_RESP" /\ fileLen' = fileLen
        /\ UNCHANGED <<sLastWordAddr, sNextWordAddr, filePos, ended>> /\ reported' = "OK" /\ sRetryCnt' = 0
    BY DEF OnUpdTerm, fileVars
  <1>3. ~Early /\ Final /\ ~Early' /\ Final' /\ Begun
    BY <1>2 DEF Early, Final, Begun
  <1>4. m \in Sent(toTool)
    BY AnswerTaken DEF Answered
  <1>5. flash = Image
    BY <1>4 DEF FwInv, OnTheWay, DownOK, OnUpdTerm
  <1>6. Msg("ReqReboot") \in Requests /\ Msg("ReqReboot").type = "ReqReboot"
    BY Requested, Fields
  <1>7. SendsOne(Msg("ReqReboot")) /\ Request(Msg("ReqReboot"))
    BY <1>6 DEF SendsOne, OnUpdTerm
  <1>8. /\ BusOK' /\ EnterFirst(toTarget') /\ Sent(toTool') \subseteq Sent(toTool) /\ (Loading' => Loading)
    BY <1>6, <1>7, BusStep
  <1>9. Sent(toTarget') = Sent(toTarget) \cup {Msg("ReqReboot")}
    BY <1>6, <1>7, RequestSent
  <1>10. ToolTypes'
    <2>1. ended' \in BOOLEAN
      BY <1>1, <1>2 DEF ToolTypes
    <2>2. sRetryCnt' \in 0 .. MAX_RETRY + 1
      BY <1>2, FwUpdateAssumption
    <2> QED
      BY <1>1, <1>2, <2>1, <2>2 DEF ToolTypes
  <1>11. FileInv'
    BY <1>1, <1>2, <1>3 DEF FileInv
  <1>12. flash' = flash /\ Image' = Image /\ \A p : Have(p)' <=> Have(p)
    BY ToolKeeps DEF targetVars, flashVars
  <1>13. Complete'
    BY <1>2, <1>5, <1>12 DEF Complete
  <1>14. Progress'
    BY <1>2, <1>8, <1>12 DEF FwInv, Progress
  <1>15. OnTheWay'
    <2>1. \A n \in Sent(toTarget') : UpOK(n)'
      BY <1>2, <1>3, <1>6, <1>9 DEF FwInv, OnTheWay, UpOK
    <2>2. ASSUME NEW n \in Sent(toTool') PROVE DownOK(n)'
      <3>1. n \in Sent(toTool) /\ DownOK(n)
        BY <1>8, <2>2 DEF FwInv, OnTheWay
      <3>2. Msg("ReqUpdEnter") \notin Sent(toTarget) => Msg("ReqUpdEnter") \notin Sent(toTarget')
        BY <1>6, <1>9, Fields
      <3> QED
        BY <1>2, <1>3, <1>5, <1>8, <1>12, <3>1, <3>2 DEF DownOK
    <2> QED
      BY <1>8, <2>1, <2>2 DEF OnTheWay
  <1> QED
    BY <1>2, <1>3, <1>8, <1>10, <1>11, <1>13, <1>14, <1>15, ToolStep

(* Data is sent again. *)
LEMMA SentAgain ==
  ASSUME FwInv, sFwuState = "WAIT_FOR_UPD_DATA_RESP", SendAgain
  PROVE  /\ \E m \in Requests : SendsOne(m) /\ UpOK(m)
         /\ UNCHANGED <<sLastWordAddr, sNextWordAddr, filePos>>
  <1>1. /\ ~Early /\ fileLen \in Nat /\ sLastWordAddr \in Nat /\ sLastWordAddr < fileLen
        /\ filePos = sLastWordAddr + 1
    BY ToolParts, ToolNumbers DEF FileInv, Early
  <1>2. Request(Data(sLastWordAddr, sLastWordAddr)) /\ filePos' = sLastWordAddr + 1
    BY <1>1 DEF SendAgain
  <1>3. /\ Data(sLastWordAddr, sLastWordAddr) \in Requests
        /\ Data(sLastWordAddr, sLastWordAddr).type = "ReqUpdData"
        /\ Data(sLastWordAddr, sLastWordAddr).addr = sLastWordAddr
    BY <1>1, Requested, Fields
  <1>4. SendsOne(Data(sLastWordAddr, sLastWordAddr))
    BY <1>2, <1>3 DEF SendsOne
  <1>5. UpOK(Data(sLastWordAddr, sLastWordAddr))
    BY <1>1, <1>3 DEF UpOK
  <1> QED
    BY <1>1, <1>2, <1>3, <1>4, <1>5 DEF SendAgain

LEMMA ToolReceiveKeeps == FwInv /\ ToolReceive => FwInv'
  <1> SUFFICES ASSUME FwInv, ToolReceive PROVE FwInv'
    OBVIOUS
  <1> DEFINE m == Head(toTool)
  <1>1. Answered /\ ~ended /\ UNCHANGED <<fileLen, targetVars>>
    BY DEF ToolReceive, Answered
  <1>2. CASE OnStartup(m)
    BY <1>1, <1>2, OnStartupKeeps
  <1>3. CASE OnUpdEnter(m)
    BY <1>1, <1>3, OnUpdEnterKeeps
  <1>4. CASE OnUpdData(m)
    <2>1. CASE m.addr = sLastWordAddr /\ SendNext /\ UNCHANGED sFwuState
      BY <1>1, <1>4, <2>1, NextDataKeeps
    <2>2. CASE /\ m.addr = sLastWordAddr /\ SendNone
               /\ Request(Msg("ReqUpdTerm")) /\ sFwuState' = "WAIT_FOR_UPD_TERM_RESP"
      BY <1>1, <1>4, <2>2, LastDataKeeps
    <2>3. CASE m.addr # sLastWordAddr /\ SendAgain /\ UNCHANGED sFwuState
      <3>1. /\ \E r \in Requests : SendsOne(r) /\ UpOK(r)
            /\ UNCHANGED <<sLastWordAddr, sNextWordAddr, filePos>>
        BY <1>4, <2>3, SentAgain DEF OnUpdData
      <3>2. sRetryCnt' \in 0 .. MAX_RETRY + 1 /\ reported' = reported /\ ended' = ended
        BY <1>4, FwUpdateAssumption DEF OnUpdData
      <3> QED
        BY <1>1, <2>3, <3>1, <3>2, StaysKeeps
    <2> QED
      BY <1>4, <2>1, <2>2, <2>3 DEF OnUpdData
  <1>5. CASE OnUpdTerm(m)
    BY <1>1, <1>5, OnUpdTermKeeps
  <1>6. CASE OnReboot(m)
    <2>1. /\ UNCHANGED <<sFwuState, sRetryCnt, sLastWordAddr, sNextWordAddr, filePos, reported, toTarget>>
          /\ ended' = TRUE
      BY <1>6 DEF OnReboot, fileVars
    <2>2. sRetryCnt' \in 0 .. MAX_RETRY + 1
      BY <2>1, ToolNumbers
    <2> QED
      BY <1>1, <2>1, <2>2, StaysKeeps
  <1>7. CASE UNCHANGED <<toolVars, toTarget>>
    <2>1. UNCHANGED <<sFwuState, sRetryCnt, sLastWordAddr, sNextWordAddr, filePos, reported, ended, toTarget>>
      BY <1>7 DEF toolVars
    <2>2. sRetryCnt' \in 0 .. MAX_RETRY + 1
      BY <2>1, ToolNumbers
    <2> QED
      BY <1>1, <2>1, <2>2, StaysKeeps
  <1> QED
    BY <1>2, <1>3, <1>4, <1>5, <1>6, <1>7 DEF ToolReceive

LEMMA ToolTimeoutKeeps == FwInv /\ ToolTimeout => FwInv'
  <1> SUFFICES ASSUME FwInv, ToolTimeout PROVE FwInv'
    OBVIOUS
  <1>1. /\ UNCHANGED <<fileLen, targetVars>> /\ UNCHANGED toTool
        /\ UNCHANGED <<sFwuState, reported, ended>>
    BY DEF ToolTimeout
  <1>2. sRetryCnt' \in 0 .. MAX_RETRY + 1
    BY ToolNumbers, FwUpdateAssumption DEF ToolTimeout, Exhausted
  <1>3. /\ \E m \in Requests : SendsOne(m) /\ UpOK(m)
        /\ UNCHANGED <<sLastWordAddr, sNextWordAddr, filePos>>
    <2>1. CASE sFwuState \in {"WAIT_FOR_STARTUP_MSG", "WAIT_FOR_REBOOT_RESP"}
      <3>1. Request(Msg("ReqReboot")) /\ UNCHANGED fileVars
        BY <2>1 DEF ToolTimeout
      <3>2. Msg("ReqReboot") \in Requests /\ Msg("ReqReboot").type = "ReqReboot"
        BY Requested, Fields
      <3>3. SendsOne(Msg("ReqReboot")) /\ UpOK(Msg("ReqReboot"))
        BY <3>1, <3>2 DEF SendsOne, UpOK
      <3> QED
        BY <3>1, <3>2, <3>3 DEF fileVars
    <2>2. CASE sFwuState = "WAIT_FOR_UPD_ENTER_RESP"
      <3>1. Request(Msg("ReqUpdEnter")) /\ UNCHANGED fileVars
        BY <2>2 DEF ToolTimeout
      <3>2. Msg("ReqUpdEnter") \in Requests /\ Msg("ReqUpdEnter").type = "ReqUpdEnter"
        BY Requested, Fields
      <3>3. Early /\ sLastWordAddr = 0
        BY <2>2, ToolParts DEF Early, FileInv
      <3>4. SendsOne(Msg("ReqUpdEnter")) /\ UpOK(Msg("ReqUpdEnter"))
        BY <2>2, <3>1, <3>2, <3>3 DEF SendsOne, UpOK
      <3> QED
        BY <3>1, <3>2, <3>4 DEF fileVars
    <2>3. CASE sFwuState = "WAIT_FOR_UPD_TERM_RESP"
      <3>1. Request(Msg("ReqUpdTerm")) /\ UNCHANGED fileVars
        BY <2>3 DEF ToolTimeout
      <3>2. Msg("ReqUpdTerm") \in Requests /\ Msg("ReqUpdTerm").type = "ReqUpdTerm"
        BY Requested, Fields
      <3>3. SendsOne(Msg("ReqUpdTerm")) /\ UpOK(Msg("ReqUpdTerm"))
        BY <2>3, <3>1, <3>2 DEF SendsOne, UpOK, Final
      <3> QED
        BY <3>1, <3>2, <3>3 DEF fileVars
    <2>4. CASE sFwuState = "WAIT_FOR_UPD_DATA_RESP"
      <3>1. SendAgain
        BY <2>4 DEF ToolTimeout
      <3> QED
        BY <2>4, <3>1, SentAgain
    <2> QED
      BY <2>1, <2>2, <2>3, <2>4, ToolParts DEF ToolTypes
  <1> QED
    BY <1>1, <1>2, <1>3, StaysKeeps

LEMMA ToolAbortKeeps == FwInv /\ ToolAbort => FwInv'
  <1> SUFFICES ASSUME FwInv, ToolAbort PROVE FwInv'
    OBVIOUS
  <1>1. /\ UNCHANGED <<fileLen, targetVars>> /\ UNCHANGED toTool /\ UNCHANGED toTarget
        /\ UNCHANGED <<sFwuState, sLastWordAddr, sNextWordAddr, filePos>>
        /\ sRetryCnt' = sRetryCnt /\ reported' = "ERROR" /\ ended' = TRUE
    BY DEF ToolAbort, busVars, fileVars
  <1>2. sRetryCnt' \in 0 .. MAX_RETRY + 1
    BY <1>1, ToolNumbers
  <1> QED
    BY <1>1, <1>2, StaysKeeps

-----------------------------------------------------------------------------
(* The steps of the target and of the bus *)
FlashTypes ==
  /\ target \in {"reset", "application", "WAIT_FOR_UPD_ENTER_TIMEOUT", "WAIT_FOR_UPD_ENTER",
                 "WAIT_FOR_UPD_DATA"}
  /\ flash \in [Packets -> Contents] /\ page \in [Offsets -> Contents]
  /\ sActualProgramingPage \in {PageOf(p) : p \in Packets} \cup {INV_PAGE}

Passed == toTarget # <<>> /\ toTarget' = Tail(toTarget)

LEMMA TargetStep ==
  ASSUME FwInv, UNCHANGED <<fileLen, toolVars>>,
         Passed \/ UNCHANGED toTarget,
         \/ UNCHANGED toTool \/ Answered
         \/ \E r \in Responses : Respond(r) /\ DownOK(r)',
         FlashTypes', PageRight', FlashRight', Erased', Started',
         Loading' => \/ Loading /\ \A p \in Packets : Have(p) => Have(p)'
                     \/ sLastWordAddr = 0 /\ \A n \in Sent(toTool) : n.type # "RespUpdData",
         Loading' => sFwuState # "WAIT_FOR_STARTUP_MSG",
         Final /\ flash = Image => flash' = Image
  PROVE  FwInv'
  <1>1. /\ UNCHANGED <<sFwuState, sRetryCnt, sLastWordAddr, sNextWordAddr, filePos, reported, ended>>
        /\ fileLen' = fileLen
    BY DEF toolVars
  <1>2. (Early' <=> Early) /\ (Final' <=> Final) /\ Image' = Image
        /\ Requests' = Requests /\ Responses' = Responses
    BY <1>1 DEF Early, Final, Image, Requests, Responses
  <1>3. TypeOK'
    <2>1. ToolTypes'
      BY <1>1, ToolParts DEF ToolTypes
    <2> QED
      BY <2>1 DEF ToolTypes, FlashTypes, TypeOK
  <1>4. FileInv'
    BY <1>1, <1>2, ToolParts DEF FileInv
  <1>5. toTarget' \in Seq(Requests) /\ Sent(toTarget') \subseteq Sent(toTarget) /\ EnterFirst(toTarget')
    <2>1. CASE Passed
      BY <2>1, SentTail, EnterFirstTail DEF FwInv, BusOK, OnTheWay, Passed
    <2>2. CASE UNCHANGED toTarget
      BY <2>2 DEF FwInv, BusOK, OnTheWay
    <2> QED
      BY <2>1, <2>2
  <1>6. toTool' \in Seq(Responses) /\ \A n \in Sent(toTool') : n \in Sent(toTool) \/ DownOK(n)'
    <2>1. CASE UNCHANGED toTool
      BY <2>1 DEF FwInv, BusOK
    <2>2. CASE Answered
      BY <2>2, AnswerTaken DEF Answered
    <2>3. ASSUME NEW r \in Responses, Respond(r), DownOK(r)'
          PROVE  toTool' \in Seq(Responses) /\ \A n \in Sent(toTool') : n \in Sent(toTool) \/ DownOK(n)'
      <3>1. toTool' \in Seq(Responses) /\ Sent(toTool') = Sent(toTool) \cup {r}
        BY <2>3, SentAppend DEF FwInv, BusOK, Respond
      <3> QED
        BY <2>3, <3>1
    <2> QED
      BY <2>1, <2>2, <2>3
  <1>7. Progress'
    <2> SUFFICES ASSUME Loading', NEW p \in Packets, p < sLastWordAddr PROVE Have(p)'
      BY <1>1 DEF Progress
    <2>1. CASE Loading /\ (Have(p) => Have(p)')
      BY <2>1 DEF FwInv, Progress
    <2>2. CASE sLastWordAddr = 0
      BY <2>2, FwUpdateAssumption DEF Packets
    <2> QED
      BY <2>1, <2>2
  <1>8. OnTheWay'
    <2>1. \A n \in Sent(toTarget') : UpOK(n)'
      BY <1>1, <1>2, <1>5 DEF FwInv, OnTheWay, UpOK
    <2>2. ASSUME NEW n \in Sent(toTool'), n \in Sent(toTool) PROVE DownOK(n)'
      <3>1. DownOK(n) /\ n \in Responses
        BY <2>2, SentIn DEF FwInv, OnTheWay, BusOK
      <3>2. ASSUME n.type = "RespUpdData", n.addr # INV_PAGE, Loading' PROVE Have(n.addr)'
        <4>1. n.addr \in Packets
          BY <3>1, <3>2, Responded
        <4>2. Loading /\ \A p \in Packets : Have(p) => Have(p)'
          BY <2>2, <3>2
        <4> QED
          BY <3>1, <3>2, <4>1, <4>2 DEF DownOK
      <3> QED
        BY <1>1, <1>2, <1>5, <3>1, <3>2 DEF DownOK
    <2> QED
      BY <1>5, <1>6, <2>1, <2>2 DEF OnTheWay
  <1>9. Complete'
    <2>1. sFwuState = "WAIT_FOR_REBOOT_RESP" => Final /\ flash = Image
      BY ToolParts DEF Complete, Final
    <2> QED
      BY <1>1, <1>2, <2>1, ToolParts DEF Complete
  <1>10. BusOK'
    BY <1>2, <1>5, <1>6 DEF BusOK
  <1> QED
    BY <1>1, <1>3, <1>4, <1>7, <1>8, <1>9, <1>10 DEF FwInv

(* The flash stays. *)
LEMMA FlashStays ==
  ASSUME FwInv, UNCHANGED <<fileLen, toolVars, flashVars>>, target' \in {target, "reset"} \/ target' = "application",
         Begun' => Begun, target' = "application" => ChecksumRight,
         Passed \/ UNCHANGED toTarget,
         \/ UNCHANGED toTool \/ Answered
         \/ \E r \in Responses : Respond(r) /\ DownOK(r)'
  PROVE  FwInv'
  <1>1. UNCHANGED <<fileLen, flash, page, sActualProgramingPage>>
    BY DEF flashVars
  <1>2. Loading' => Loading
    BY DEF Loading
  <1>3. Image' = Image /\ (ChecksumRight' <=> ChecksumRight)
    BY <1>1 DEF Image, ChecksumRight
  <1>4. FlashTypes'
    BY <1>1 DEF FlashTypes, FwInv, TypeOK
  <1>5. PageRight' /\ FlashRight'
    BY <1>1 DEF FwInv, PageRight, FlashRight, Right
  <1>6. Erased'
    BY <1>1 DEF FwInv, Erased
  <1>7. Started'
    BY <1>3 DEF FwInv, Started
  <1>8. \A p \in Packets : Have(p) => Have(p)'
    BY <1>1 DEF Have
  <1>9. Loading' => sFwuState # "WAIT_FOR_STARTUP_MSG"
    BY <1>2 DEF FwInv
  <1> QED
    BY <1>1, <1>2, <1>3, <1>4, <1>5, <1>6, <1>7, <1>8, <1>9, TargetStep

(* While only old telegrams are on the way and the target does not begin to load, nothing begins. *)
LEMMA NotBegun ==
  ASSUME FwInv, UNCHANGED toolVars, Loading' => Loading, UNCHANGED toTool \/ Answered
  PROVE  Begun' => Begun
  <1>1. Sent(toTool') \subseteq Sent(toTool)
    BY AnswerTaken DEF Answered
  <1> QED
    BY <1>1 DEF Begun, Early, toolVars

LEMMA BootTimeoutKeeps == FwInv /\ BootTimeout => FwInv'
  <1> SUFFICES ASSUME FwInv, BootTimeout PROVE FwInv'
    OBVIOUS
  <1>1. /\ UNCHANGED <<fileLen, toolVars, flashVars>> /\ UNCHANGED toTarget /\ UNCHANGED toTool
        /\ target' = "application" /\ UNCHANGED toolVars
    BY DEF BootTimeout, busVars
  <1>2. ChecksumRight
    BY DEF BootTimeout, FwInv, Started
  <1>3. Begun' => Begun
    BY <1>1, NotBegun DEF Loading
  <1> QED
    BY <1>1, <1>2, <1>3, FlashStays

LEMMA DeafKeeps == FwInv /\ Deaf => FwInv'
  <1> SUFFICES ASSUME FwInv, Deaf PROVE FwInv'
    OBVIOUS
  <1>1. /\ UNCHANGED <<fileLen, toolVars, flashVars>> /\ UNCHANGED toTool /\ Passed
        /\ target' = "reset" /\ UNCHANGED toolVars
    BY DEF Deaf, targetVars, Passed
  <1>2. Begun' => Begun
    BY <1>1, NotBegun DEF Loading
  <1> QED
    BY <1>1, <1>2, FlashStays

LEMMA PowerLossKeeps == FwInv /\ PowerLoss => FwInv'
  <1> SUFFICES ASSUME FwInv, PowerLoss PROVE FwInv'
    OBVIOUS
  <1>1. /\ UNCHANGED <<fileLen, toolVars, flashVars>> /\ UNCHANGED toTool /\ UNCHANGED toTarget
        /\ target' = "reset" /\ UNCHANGED toolVars
    BY DEF PowerLoss
  <1>2. Begun' => Begun
    BY <1>1, NotBegun DEF Loading
  <1> QED
    BY <1>1, <1>2, FlashStays

LEMMA LoseKeeps == FwInv /\ Lose => FwInv'
  <1> SUFFICES ASSUME FwInv, Lose PROVE FwInv'
    OBVIOUS
  <1>1. /\ UNCHANGED <<fileLen, toolVars, flashVars>> /\ target' = target /\ UNCHANGED toolVars
    BY DEF Lose, targetVars
  <1>2. (Passed \/ UNCHANGED toTarget) /\ (UNCHANGED toTool \/ Answered)
    BY DEF Lose, Passed, Answered
  <1>3. Begun' => Begun
    BY <1>1, <1>2, NotBegun DEF Loading
  <1>4. target' = "application" => ChecksumRight
    BY <1>1 DEF FwInv, Started
  <1> QED
    BY <1>1, <1>2, <1>3, <1>4, FlashStays

LEMMA TargetBootKeeps == FwInv /\ TargetBoot => FwInv'
  <1> SUFFICES ASSUME FwInv, TargetBoot PROVE FwInv'
    OBVIOUS
  <1>1. /\ UNCHANGED <<fileLen, toolVars>> /\ UNCHANGED toTarget /\ flash' = flash /\ fileLen' = fileLen
        /\ page' = BlankPage /\ sActualProgramingPage' = INV_PAGE /\ target' = Checked
        /\ Respond(Msg("Startup"))
    BY DEF TargetBoot
  <1>2. Msg("Startup") \in Responses /\ DownOK(Msg("Startup"))'
    BY Responded, Fields DEF DownOK
  <1>3. Image' = Image /\ (ChecksumRight' <=> ChecksumRight)
    BY <1>1 DEF Image, ChecksumRight
  <1>4. target' \in {"WAIT_FOR_UPD_ENTER_TIMEOUT", "WAIT_FOR_UPD_ENTER"} /\ ~Loading'
    BY <1>1 DEF Checked, Loading
  <1>5. FlashTypes'
    BY <1>1, <1>4, BlankPageRight DEF FlashTypes, FwInv, TypeOK
  <1>6. PageRight'
    BY <1>1 DEF PageRight
  <1>7. FlashRight'
    BY <1>1 DEF FwInv, FlashRight, Right
  <1>8. Erased'
    <2>1. Sent(toTool') = Sent(toTool) \cup {Msg("Startup")}
      BY <1>1, <1>2, SentAppend DEF FwInv, BusOK, Respond
    <2>2. Msg("RespUpdEnter") # Msg("Startup")
      BY Fields
    <2>3. Begun' => Begun
      BY <1>1, <1>4, <2>1, <2>2 DEF Begun, Early, toolVars
    <2> QED
      BY <1>1, <2>3 DEF FwInv, Erased
  <1>9. Started'
    BY <1>1, <1>3, <1>4 DEF Started, Checked
  <1> QED
    BY <1>1, <1>2, <1>4, <1>5, <1>6, <1>7, <1>8, <1>9, TargetStep

(* A request to begin: nothing was programmed that the tool counts on. *)
LEMMA EnterOnTheWay ==
  ASSUME FwInv, toTarget # <<>>, Head(toTarget).type = "ReqUpdEnter"
  PROVE  /\ sLastWordAddr = 0 /\ ~Final /\ sFwuState # "WAIT_FOR_STARTUP_MSG"
         /\ \A n \in Sent(toTool) : n.type # "RespUpdData"
  <1>1. Head(toTarget) \in Sent(toTarget) /\ Head(toTarget) \in Requests
    BY SentTail DEF FwInv, BusOK
  <1>2. Msg("ReqUpdEnter") \in Sent(toTarget)
    BY <1>1, Requested
  <1>3. sLastWordAddr = 0 /\ sFwuState # "WAIT_FOR_STARTUP_MSG"
    BY <1>1 DEF FwInv, OnTheWay, UpOK
  <1>4. ~Final
    BY <1>3, ToolParts, ToolNumbers DEF FileInv
  <1>5. \A n \in Sent(toTool) : n.type # "RespUpdData"
    BY <1>2 DEF FwInv, OnTheWay, DownOK
  <1> QED
    BY <1>3, <1>4, <1>5

LEMMA PowerLossErasingKeeps == FwInv /\ PowerLossErasing => FwInv'
  <1> SUFFICES ASSUME FwInv, PowerLossErasing PROVE FwInv'
    OBVIOUS
  <1>1. /\ UNCHANGED <<fileLen, toolVars>> /\ Passed /\ UNCHANGED toTool /\ UNCHANGED toolVars
        /\ fileLen' = fileLen /\ UNCHANGED <<page, sActualProgramingPage>> /\ target' = "reset"
    BY DEF PowerLossErasing, Passed
  <1>2. PICK n \in Packets : flash' = [p \in Packets |-> IF PageOf(p) < n THEN Blank ELSE flash[p]]
    BY DEF PowerLossErasing
  <1>3. \A p \in Packets : flash'[p] \in {Blank, flash[p]}
    BY <1>2
  <1>4. FlashTypes'
    <2>1. flash \in [Packets -> Contents]
      BY DEF FwInv, TypeOK
    <2>2. flash' \in [Packets -> Contents]
      BY <1>2, <2>1 DEF Contents
    <2> QED
      BY <1>1, <2>2 DEF FlashTypes, FwInv, TypeOK
  <1>5. PageRight'
    BY <1>1 DEF FwInv, PageRight, Right
  <1>6. FlashRight'
    BY <1>1, <1>3 DEF FwInv, FlashRight, Right
  <1>7. ~Loading' /\ Started'
    BY <1>1 DEF Loading, Started
  <1>8. Erased'
    <2>1. Begun' => Begun
      BY <1>1, <1>7, NotBegun
    <2> QED
      BY <1>3, <2>1, FwUpdateAssumption DEF FwInv, Erased
  <1>9. ~Final
    BY EnterOnTheWay DEF PowerLossErasing
  <1> QED
    BY <1>1, <1>4, <1>5, <1>6, <1>7, <1>8, <1>9, TargetStep

LEMMA OnReqUpdEnterKeeps ==
  ASSUME FwInv, UNCHANGED <<fileLen, toolVars>>, Passed, OnReqUpdEnter(Head(toTarget))
  PROVE  FwInv'
  <1>1. /\ sLastWordAddr = 0 /\ ~Final /\ sFwuState # "WAIT_FOR_STARTUP_MSG"
        /\ \A n \in Sent(toTool) : n.type # "RespUpdData"
    BY EnterOnTheWay DEF OnReqUpdEnter, Passed
  <1>2. /\ flash' = [p \in Packets |-> Blank] /\ target' = "WAIT_FOR_UPD_DATA"
        /\ Respond(Msg("RespUpdEnter")) /\ UNCHANGED <<page, sActualProgramingPage>> /\ fileLen' = fileLen
    BY DEF OnReqUpdEnter
  <1>3. Msg("RespUpdEnter") \in Responses /\ DownOK(Msg("RespUpdEnter"))'
    <2>1. sFwuState' # "WAIT_FOR_STARTUP_MSG"
      BY <1>1 DEF toolVars
    <2> QED
      BY <2>1, Responded, Fields DEF DownOK
  <1>4. FlashTypes'
    <2>1. flash' \in [Packets -> Contents]
      BY <1>2 DEF Contents
    <2> QED
      BY <1>2, <2>1 DEF FlashTypes, FwInv, TypeOK
  <1>5. PageRight'
    BY <1>2 DEF FwInv, PageRight, Right
  <1>6. FlashRight' /\ Erased'
    BY <1>2, FwUpdateAssumption DEF FlashRight, Right, Erased
  <1>7. Started'
    BY <1>2 DEF Started
  <1> QED
    BY <1>1, <1>3, <1>2, <1>4, <1>5, <1>6, <1>7, TargetStep

LEMMA OnReqRebootKeeps ==
  ASSUME FwInv, UNCHANGED <<fileLen, toolVars>>, Passed, OnReqReboot(Head(toTarget))
  PROVE  FwInv'
  <1>1. UNCHANGED <<fileLen, toolVars, flashVars>> /\ UNCHANGED toTool /\ target' = "reset" /\ UNCHANGED toolVars
    BY DEF OnReqReboot
  <1>2. Begun' => Begun
    BY <1>1, NotBegun DEF Loading
  <1> QED
    BY <1>1, <1>2, FlashStays

LEMMA IgnoredKeeps ==
  ASSUME FwInv, UNCHANGED <<fileLen, toolVars>>, Passed, UNCHANGED <<targetVars, toTool>>
  PROVE  FwInv'
  <1>1. UNCHANGED <<fileLen, toolVars, flashVars>> /\ UNCHANGED toTool /\ target' = target /\ UNCHANGED toolVars
    BY DEF targetVars
  <1>2. Begun' => Begun
    BY <1>1, NotBegun DEF Loading
  <1>3. target' = "application" => ChecksumRight
    BY <1>1 DEF FwInv, Started
  <1> QED
    BY <1>1, <1>2, <1>3, FlashStays

(* While it loads, the flash was erased. *)
LEMMA LoadedRight ==
  ASSUME FwInv, Loading
  PROVE  Begun /\ \A p \in Packets : Right(p, flash[p])
  BY DEF FwInv, Begun, Erased, FlashRight

LEMMA OnReqUpdDataKeeps ==
  ASSUME FwInv, UNCHANGED <<fileLen, toolVars>>, Passed,
         NEW m, m = Head(toTarget), OnReqUpdData(m), NEW a, a = m.addr
  PROVE  FwInv'
  <1>1. /\ Loading /\ Loading' /\ fileLen' = fileLen /\ sFwuState' = sFwuState
        /\ sLastWordAddr' = sLastWordAddr /\ m.type = "ReqUpdData" /\ UNCHANGED target
    BY DEF OnReqUpdData, Loading, toolVars
  <1>2. m \in Requests /\ m \in Sent(toTarget)
    BY SentTail DEF FwInv, BusOK, Passed
  <1>3. a \in 0 .. fileLen - 1 /\ m.data = a /\ ~Early /\ a <= sLastWordAddr
    <2>1. UpOK(m)
      BY <1>2 DEF FwInv, OnTheWay
    <2> QED
      BY <1>1, <1>2, <2>1, Requested DEF UpOK
  <1>4. Msg("ReqUpdEnter") \notin Sent(toTarget')
    <2>1. toTarget \in Seq(Requests) /\ EnterFirst(toTarget) /\ toTarget # <<>> /\ toTarget' = Tail(toTarget)
      BY DEF FwInv, BusOK, OnTheWay, Passed
    <2>2. \A n \in Sent(Tail(toTarget)) : n.type # "ReqUpdEnter"
      BY <1>1, <2>1, EnterFirstTail
    <2> QED
      BY <2>1, <2>2, Fields
  <1>5. Early' <=> Early
    BY <1>1 DEF Early
  <1>6. fileLen \in Nat /\ a \in Nat /\ a < fileLen
    BY <1>3, ToolNumbers
  <1>7. \A p \in Packets : flash[p] # Old
    BY <1>1, LoadedRight DEF FwInv, Erased
  <1>8. Started' /\ sFwuState # "WAIT_FOR_STARTUP_MSG"
    BY <1>1 DEF Started, Loading, FwInv
  <1>9. CASE Fits(a)
    <2>1. FlashProgram(a, a) /\ Respond(RespData(a)) /\ a \in Packets
      BY <1>3, <1>6, <1>9, FwUpdateAssumption DEF OnReqUpdData, Fits, Packets
    <2>2. /\ flash' \in [Packets -> Contents] /\ page' \in [Offsets -> Contents]
          /\ sActualProgramingPage' \in {PageOf(p) : p \in Packets} \cup {INV_PAGE}
          /\ PageRight' /\ \A p \in Packets : Right(p, flash'[p])
          /\ \A p \in Packets : flash[p] = p => flash'[p] = p
          /\ \A p \in Packets : Have(p) => Have(p)'
          /\ Have(a)'
      <3>1. TypeOK /\ PageRight
        BY DEF FwInv
      <3>2. \A p \in Packets : Right(p, flash[p])
        BY <1>1, LoadedRight
      <3> QED
        BY <1>1, <1>6, <2>1, <3>1, <3>2, FlashProgramRight
    <2>3. RespData(a) \in Responses /\ DownOK(RespData(a))'
      <3>1. RespData(a) \in Responses /\ RespData(a).type = "RespUpdData" /\ RespData(a).addr = a
        BY <2>1, Responded, Fields
      <3> QED
        BY <1>1, <1>3, <1>4, <1>5, <2>2, <3>1 DEF DownOK
    <2>4. FlashTypes'
      BY <1>1, <2>2 DEF FlashTypes, FwInv, TypeOK
    <2>5. FlashRight'
      BY <1>1, <2>2 DEF FlashRight, Right
    <2>6. Erased'
      BY <2>2, FwUpdateAssumption DEF Erased, Right, Packets
    <2>7. flash = Image => flash' = Image
      <3> SUFFICES ASSUME flash = Image PROVE flash' = Image
        OBVIOUS
      <3>1. ASSUME NEW p \in Packets PROVE flash'[p] = (IF p < fileLen THEN p ELSE Blank)
        <4>1. CASE p < fileLen
          <5>1. flash[p] = p
            BY <4>1 DEF Image
          <5> QED
            BY <2>2, <4>1, <5>1
        <4>2. CASE ~(p < fileLen)
          BY <2>2, <4>2 DEF Right
        <4> QED
          BY <4>1, <4>2
      <3> QED
        BY <2>2, <3>1 DEF Image
    <2> QED
      BY <1>1, <1>8, <2>1, <2>2, <2>3, <2>4, <2>5, <2>6, <2>7, TargetStep
  <1>10. CASE ~Fits(a)
    <2>1. /\ flash' = flash /\ page' = page /\ sActualProgramingPage' = sActualProgramingPage
          /\ Respond(RespData(INV_PAGE))
      BY <1>10 DEF OnReqUpdData, flashVars
    <2>2. RespData(INV_PAGE) \in Responses /\ DownOK(RespData(INV_PAGE))'
      BY <1>3, <1>4, <1>5, Responded, Fields DEF DownOK
    <2>3. FlashTypes'
      BY <1>1, <2>1 DEF FlashTypes, FwInv, TypeOK
    <2>4. PageRight' /\ FlashRight'
      BY <1>1, <2>1 DEF FwInv, PageRight, FlashRight, Right
    <2>5. Erased'
      BY <1>7, <2>1 DEF Erased
    <2>6. \A p \in Packets : Have(p) => Have(p)'
      BY <2>1 DEF Have
    <2> QED
      BY <1>1, <1>8, <2>1, <2>2, <2>3, <2>4, <2>5, <2>6, TargetStep
  <1> QED
    BY <1>9, <1>10

LEMMA OnReqUpdTermKeeps ==
  ASSUME FwInv, UNCHANGED <<fileLen, toolVars>>, Passed, OnReqUpdTerm(Head(toTarget))
  PROVE  FwInv'
  <1> DEFINE m == Head(toTarget)
  <1>1. /\ Loading /\ Loading' /\ fileLen' = fileLen /\ sFwuState' = sFwuState
        /\ m.type = "ReqUpdTerm" /\ UNCHANGED target /\ Respond(Msg("RespUpdTerm")) /\ FlashProgramTerminate
        /\ sActualProgramingPage' = sActualProgramingPage
    BY DEF OnReqUpdTerm, Loading, toolVars, FlashProgramTerminate
  <1>2. m \in Requests /\ m \in Sent(toTarget)
    BY SentTail DEF FwInv, BusOK, Passed
  <1>3. Final /\ Final'
    <2>1. UpOK(m)
      BY <1>2 DEF FwInv, OnTheWay
    <2> QED
      BY <1>1, <2>1 DEF UpOK, Final
  <1>4. sLastWordAddr = fileLen /\ fileLen \in Nat
    BY <1>3, ToolParts DEF FileInv
  <1>5. \A p \in Packets : p \in Nat /\ PageOf(p) \in Nat /\ PageOf(p) # INV_PAGE
    <2>1. \A p \in Packets : p \in Nat /\ PageOf(p) \in Nat
      BY PlaceOf DEF Packets
    <2> QED
      BY <2>1, FwUpdateAssumption
  <1>6. \A p \in Packets : p < fileLen => Have(p)
    BY <1>1, <1>4 DEF FwInv, Progress
  <1>7. \A p \in Packets : Right(p, flash[p])
    BY <1>1, LoadedRight
  <1>8. flash \in [Packets -> Contents] /\ page \in [Offsets -> Contents]
    BY DEF FwInv, TypeOK
  <1>9. /\ flash' \in [Packets -> Contents] /\ page' = BlankPage
        /\ \A p \in Packets : Right(p, flash'[p])
        /\ \A p \in Packets : Have(p) => flash'[p] = p
    <2>1. CASE sActualProgramingPage = INV_PAGE
      <3>1. flash' = flash /\ page' = page /\ page = BlankPage
        BY <1>1, <2>1 DEF FlashProgramTerminate, FwInv, PageRight
      <3> QED
        BY <1>5, <1>7, <1>8, <2>1, <3>1 DEF Have
    <2>2. CASE sActualProgramingPage # INV_PAGE
      <3>1. flash' = WithPage(flash, sActualProgramingPage, page) /\ page' = BlankPage
        BY <1>1, <2>2 DEF FlashProgramTerminate
      <3>2. PageContentsRight(sActualProgramingPage, page)
        BY <2>2 DEF FwInv, PageRight, PageContentsRight
      <3>3. /\ flash' \in [Packets -> Contents]
            /\ \A p \in Packets : Right(p, flash'[p])
            /\ \A p \in Packets : flash[p] = p => flash'[p] = p
            /\ \A p \in Packets : PageOf(p) = sActualProgramingPage /\ page[p % PagePackets] = p => flash'[p] = p
        BY <1>7, <1>8, <3>1, <3>2, WithPageRight
      <3> QED
        BY <3>1, <3>3 DEF Have
    <2> QED
      BY <2>1, <2>2
  <1>10. flash' = Image
    <2>1. ASSUME NEW p \in Packets PROVE flash'[p] = (IF p < fileLen THEN p ELSE Blank)
      BY <1>6, <1>9 DEF Right
    <2> QED
      BY <1>9, <2>1 DEF Image
  <1>11. Image' = Image
    BY <1>1 DEF Image
  <1>12. Msg("RespUpdTerm") \in Responses /\ DownOK(Msg("RespUpdTerm"))'
    BY <1>3, <1>10, <1>11, Responded, Fields DEF DownOK
  <1>13. FlashTypes'
    BY <1>1, <1>9, BlankPageRight DEF FlashTypes, FwInv, TypeOK
  <1>14. PageRight'
    <2>1. \A p \in Packets : p % PagePackets \in Offsets
      BY PlaceOf DEF Packets
    <2> QED
      BY <1>9, <2>1 DEF PageRight, Right, BlankPage
  <1>15. FlashRight'
    BY <1>1, <1>9 DEF FlashRight, Right
  <1>16. Erased'
    BY <1>9, FwUpdateAssumption DEF Erased, Right, Packets
  <1>17. Started' /\ sFwuState # "WAIT_FOR_STARTUP_MSG"
    BY <1>1 DEF Started, Loading, FwInv
  <1>18. \A p \in Packets : Have(p) => Have(p)'
    BY <1>9 DEF Have
  <1> QED
    BY <1>1, <1>10, <1>12, <1>13, <1>14, <1>15, <1>16, <1>17, <1>18, TargetStep

LEMMA TargetReceiveKeeps == FwInv /\ TargetReceive => FwInv'
  <1> SUFFICES ASSUME FwInv, TargetReceive PROVE FwInv'
    OBVIOUS
  <1>1. UNCHANGED <<fileLen, toolVars>> /\ Passed
    BY DEF TargetReceive, Passed
  <1>2. CASE OnReqReboot(Head(toTarget))
    BY <1>1, <1>2, OnReqRebootKeeps
  <1>3. CASE OnReqUpdEnter(Head(toTarget))
    BY <1>1, <1>3, OnReqUpdEnterKeeps
  <1>4. CASE OnReqUpdData(Head(toTarget))
    <2>1. PICK m, a : m = Head(toTarget) /\ a = m.addr
      OBVIOUS
    <2> QED
      BY <1>1, <1>4, <2>1, OnReqUpdDataKeeps
  <1>5. CASE OnReqUpdTerm(Head(toTarget))
    BY <1>1, <1>5, OnReqUpdTermKeeps
  <1>6. CASE UNCHANGED <<targetVars, toTool>>
    BY <1>1, <1>6, IgnoredKeeps
  <1> QED
    BY <1>2, <1>3, <1>4, <1>5, <1>6 DEF TargetReceive

-----------------------------------------------------------------------------
LEMMA InitRight == Init => FwInv
  <1> SUFFICES ASSUME Init PROVE FwInv
    OBVIOUS
  <1>1. fileLen \in Nat
    BY FwUpdateAssumption DEF Init
  <1>2. ToolTypes
    <2>1. /\ sFwuState = "WAIT_FOR_STARTUP_MSG" /\ sRetryCnt = 0
          /\ sNextWordAddr = 0 /\ sLastWordAddr = 0 /\ filePos = 0 /\ reported = ""
      BY DEF Init
    <2>2. ended = FALSE
      BY DEF Init
    <2>3. ended \in BOOLEAN
      BY <2>2
    <2>4. 0 \in 0 .. MAX_RETRY + 1 /\ 0 \in 0 .. fileLen + 1 /\ 0 \in 0 .. fileLen
      BY <1>1, FwUpdateAssumption
    <2> QED
      BY <2>1, <2>3, <2>4 DEF ToolTypes
  <1>3. flash \in [Packets -> Contents] /\ page \in [Offsets -> Contents]
    BY BlankPageRight DEF Init, Contents
  <1>4. TypeOK
    BY <1>2, <1>3 DEF Init, TypeOK, ToolTypes
  <1>5. toTarget = <<Msg("ReqReboot")>> /\ toTool = <<>>
    BY DEF Init
  <1>6. BusOK
    BY <1>5, Requested DEF BusOK
  <1>7. Sent(toTarget) = {Msg("ReqReboot")} /\ Sent(toTool) = {}
    BY <1>5 DEF Sent
  <1>8. Early /\ ~Final /\ FileInv
    BY <1>1 DEF Init, FileInv, Early, Final
  <1>9. ~Loading
    BY DEF Init, Loading
  <1>10. PageRight /\ FlashRight
    BY DEF Init, PageRight, FlashRight
  <1>11. Erased /\ Progress
    BY <1>7, <1>8, <1>9 DEF Erased, Begun, Progress
  <1>12. OnTheWay
    <2>1. EnterFirst(toTarget)
      BY <1>5, Fields DEF EnterFirst
    <2>2. UpOK(Msg("ReqReboot"))
      BY Fields DEF UpOK
    <2> QED
      BY <1>7, <2>1, <2>2 DEF OnTheWay
  <1>13. Complete /\ Started
    BY DEF Init, Complete, Started, ChecksumRight
  <1> QED
    BY <1>4, <1>6, <1>8, <1>9, <1>10, <1>11, <1>12, <1>13 DEF FwInv

LEMMA StepKeeps == FwInv /\ [Next]_vars => FwInv'
  <1> SUFFICES ASSUME FwInv, [Next]_vars PROVE FwInv'
    OBVIOUS
  <1>1. CASE ToolReceive
    BY <1>1, ToolReceiveKeeps
  <1>2. CASE ToolTimeout
    BY <1>2, ToolTimeoutKeeps
  <1>3. CASE ToolAbort
    BY <1>3, ToolAbortKeeps
  <1>4. CASE TargetReceive
    BY <1>4, TargetReceiveKeeps
  <1>5. CASE TargetBoot
    BY <1>5, TargetBootKeeps
  <1>6. CASE BootTimeout
    BY <1>6, BootTimeoutKeeps
  <1>7. CASE Deaf
    BY <1>7, DeafKeeps
  <1>8. CASE PowerLoss
    BY <1>8, PowerLossKeeps
  <1>9. CASE PowerLossErasing
    BY <1>9, PowerLossErasingKeeps
  <1>10. CASE Lose
    BY <1>10, LoseKeeps
  <1>11. CASE UNCHANGED vars
    <2>1. /\ UNCHANGED <<fileLen, toolVars, flashVars>> /\ target' = target
          /\ UNCHANGED toTarget /\ UNCHANGED toTool /\ UNCHANGED toolVars
      BY <1>11 DEF vars, targetVars, busVars
    <2>2. Begun' => Begun
      BY <2>1, NotBegun DEF Loading
    <2>3. target' = "application" => ChecksumRight
      BY <2>1 DEF FwInv, Started
    <2> QED
      BY <2>1, <2>2, <2>3, FlashStays
  <1> QED
    BY <1>1, <1>2, <1>3, <1>4, <1>5, <1>6, <1>7, <1>8, <1>9, <1>10, <1>11 DEF Next

(* Whatever is lost, late or repeated, the invariant holds. *)
THEOREM Invariance == Spec => []FwInv
  <1>1. Init => FwInv
    BY InitRight
  <1>2. FwInv /\ [Next]_vars => FwInv'
    BY StepKeeps
  <1> QED
    BY <1>1, <1>2, PTL DEF Spec

(* The positions of the tool in the file, the flash and the page buffer keep  *)
(* their types: the tool never counts past the end of the file (main.c,       *)
(* SendDataPacket), the bootloader never fills the buffer for a page that is  *)
(* not in its flash (FlashProgram).                                           *)
THEOREM TypesKept == Spec => []TypeOK
  <1>1. FwInv => TypeOK
    BY DEF FwInv
  <1> QED
    BY <1>1, Invariance, PTL

(* When the tool prints "transfer OK" the flash of the target holds the file  *)
(* and nothing else, for every length of the file, size of the flash and of   *)
(* its pages, and for any number of losses, late answers and resets.          *)
THEOREM OKMeansComplete == Spec => []Transferred
  <1>1. FwInv => Transferred
    <2> SUFFICES ASSUME FwInv, reported = "OK" PROVE fileLen <= Capacity /\ flash = Image
      BY DEF Transferred
    <2>1. Final /\ flash = Image
      BY ToolParts DEF Complete, Final
    <2> QED
      BY <2>1, ToolParts DEF FileInv
  <1> QED
    BY <1>1, Invariance, PTL

(* No packet is programmed in a wrong place or over another one: the          *)
(* bootloader may program a packet twice (FlashProgram), and only after       *)
(* FlashErase.                                                                *)
THEOREM NothingMisplaced == Spec => []InPlace
  <1>1. FwInv => InPlace
    BY DEF FwInv, FlashRight, Right, InPlace
  <1> QED
    BY <1>1, Invariance, PTL

(* The target runs the old application or the complete new one, wherever the  *)
(* update broke off: main of the bootloader starts only what has a right      *)
(* checksum, and an update begins only after a reset.                         *)
THEOREM OnlyWholeApplications == Spec => []Bootable
  <1>1. FwInv => Bootable
    BY DEF FwInv, Started, Bootable
  <1> QED
    BY <1>1, Invariance, PTL
=============================================================================
