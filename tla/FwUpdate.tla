------------------------------ MODULE FwUpdate ------------------------------
(***************************************************************************)
(* A firmware update: tools/firmwareupdate and the bootloader of the DO31  *)
(* over a bus that may lose telegrams and be slower than the time-outs.    *)
(* The firmware is counted in packets of 32 bytes; packet p of the file is *)
(* the value p.  Time is left out: a time-out may come whenever the tool   *)
(* waits, or, if Late is FALSE, only when no answer is on its way.         *)
(***************************************************************************)
EXTENDS Naturals, Sequences

CONSTANTS
  FileLens,      \* lengths the file may have, in packets
  Capacity,      \* FIRMWARE_WORD_SIZE
  PagePackets,   \* PAGE_WORD_SIZE
  MAX_RETRY,
  Late,          \* whether answers may come after the time-out
  Old, Blank,    \* a packet of the flash before the update, and after erasing (0xff)
  Mixed,         \* a packet programmed over something else
  INV_PAGE,      \* no page, no address
  MaxLost,       \* bound: telegrams lost by the bus
  MaxResets,     \* bound: resets of the target by a loss of power
  MaxFlight      \* bound: telegrams on their way in one direction

ASSUME FwUpdateAssumption ==
  /\ FileLens \subseteq Nat /\ PagePackets \in Nat \ {0}
  /\ Capacity \in Nat /\ Capacity % PagePackets = 0
  /\ MAX_RETRY \in Nat /\ Late \in BOOLEAN
  /\ MaxLost \in Nat /\ MaxResets \in Nat /\ MaxFlight \in Nat \ {0}
  /\ Old # Blank /\ Mixed \notin {Old, Blank}       \* symbols: none is a packet of the file
  /\ \A symbol \in {Old, Blank, Mixed, INV_PAGE} : symbol \notin Nat

VARIABLES
  fileLen,
  (* the tool *)
  sFwuState, sRetryCnt,
  sNextWordAddr, sLastWordAddr, filePos,   \* in packets
  reported,      \* what it has printed at the end: "", "OK", "ERROR" or "empty"
  ended,         \* sFileTransferComplete
  (* the target *)
  target,        \* "reset", "application" or the bootloader's sFwuState
  flash, page,   \* the application's flash and the page buffer, by packet
  sActualProgramingPage,
  (* the bus *)
  toTarget, toTool, lost, resets

toolVars == <<sFwuState, sRetryCnt, sNextWordAddr, sLastWordAddr, filePos, reported, ended>>
flashVars == <<flash, page, sActualProgramingPage>>
targetVars == <<target, flashVars>>
busVars == <<toTarget, toTool, lost, resets>>
vars == <<fileLen, toolVars, targetVars, busVars>>

Packets == 0 .. Capacity - 1
Offsets == 0 .. PagePackets - 1
PageOf(addr) == addr \div PagePackets
BlankPage == [o \in Offsets |-> Blank]

(* Programming clears bits only. *)
Programmed(old, new) ==
  CASE new = Blank -> old
    [] new # Blank /\ old \in {Blank, new} -> new
    [] OTHER -> Mixed

Image == [p \in Packets |-> IF p < fileLen THEN p ELSE Blank]

(* FlashSum over the application is right for what was there before and for *)
(* the complete file, and wrong for an erased flash and for any mixture.    *)
ChecksumRight == \/ flash = [p \in Packets |-> Old]
                 \/ fileLen > 0 /\ flash = Image

Msg(type) == [type |-> type]
Data(addr, data) == [type |-> "ReqUpdData", addr |-> addr, data |-> data]
RespData(addr) == [type |-> "RespUpdData", addr |-> addr]

-----------------------------------------------------------------------------
Init ==
  /\ fileLen \in FileLens
  /\ sFwuState = "WAIT_FOR_STARTUP_MSG" /\ sRetryCnt = 0
  /\ sNextWordAddr = 0 /\ sLastWordAddr = 0 /\ filePos = 0
  /\ reported = "" /\ ended = FALSE
  /\ target = "application"
  /\ flash = [p \in Packets |-> Old] /\ page = BlankPage
  /\ sActualProgramingPage = INV_PAGE
  /\ toTarget = <<Msg("ReqReboot")>> /\ toTool = <<>> /\ lost = 0 /\ resets = 0

-----------------------------------------------------------------------------
(* The tool.  Every action begins with a telegram m that was received, or m *)
(* is <<>> when the time-out has passed.                                    *)
Request(msg) == toTarget' = Append(toTarget, msg)

Filled == fileLen > filePos           \* fread returns something

(* SendDataPacket(TRUE), if the file has another packet. *)
SendNext ==
  /\ Filled
  /\ Request(Data(sNextWordAddr, filePos))
  /\ sLastWordAddr' = sNextWordAddr /\ sNextWordAddr' = sNextWordAddr + 1
  /\ filePos' = filePos + 1

(* SendDataPacket(TRUE) at the end of the file. *)
SendNone ==
  /\ ~Filled
  /\ sLastWordAddr' = sNextWordAddr /\ sNextWordAddr' = sNextWordAddr + 1
  /\ UNCHANGED filePos

(* Mutant of SendAgain: the file is not positioned. *)
SendAgainUnsought ==
  /\ IF Filled THEN Request(Data(sLastWordAddr, filePos)) ELSE UNCHANGED toTarget
  /\ filePos' = IF Filled THEN filePos + 1 ELSE filePos
  /\ UNCHANGED <<sLastWordAddr, sNextWordAddr>>

(* SendDataPacket(FALSE): the file is positioned first. *)
SendAgain ==
  /\ IF fileLen > sLastWordAddr
     THEN Request(Data(sLastWordAddr, sLastWordAddr)) /\ filePos' = sLastWordAddr + 1
     ELSE filePos' = sLastWordAddr /\ UNCHANGED toTarget
  /\ UNCHANGED <<sLastWordAddr, sNextWordAddr>>

fileVars == <<sLastWordAddr, sNextWordAddr, filePos>>

(* ProcessBus, BUS_MSG_OK: the branch of the state in which m is awaited. *)
OnStartup(m) ==
  /\ sFwuState = "WAIT_FOR_STARTUP_MSG" /\ m.type = "Startup"
  /\ Request(Msg("ReqUpdEnter"))
  /\ sFwuState' = "WAIT_FOR_UPD_ENTER_RESP" /\ sRetryCnt' = 0
  /\ UNCHANGED <<fileVars, reported, ended>>

OnUpdEnter(m) ==
  /\ sFwuState = "WAIT_FOR_UPD_ENTER_RESP" /\ m.type = "RespUpdEnter"
  /\ \/ /\ SendNext
        /\ sFwuState' = "WAIT_FOR_UPD_DATA_RESP" /\ sRetryCnt' = 0
        /\ UNCHANGED <<reported, ended>>
     \/ /\ SendNone
        /\ reported' = "empty" /\ ended' = TRUE
        /\ UNCHANGED <<sFwuState, sRetryCnt, toTarget>>

OnUpdData(m) ==
  /\ sFwuState = "WAIT_FOR_UPD_DATA_RESP" /\ m.type = "RespUpdData"
  /\ sRetryCnt' = 0
  /\ \/ m.addr = sLastWordAddr /\ SendNext /\ UNCHANGED sFwuState
     \/ /\ m.addr = sLastWordAddr /\ SendNone
        /\ Request(Msg("ReqUpdTerm")) /\ sFwuState' = "WAIT_FOR_UPD_TERM_RESP"
     \/ m.addr # sLastWordAddr /\ SendAgain /\ UNCHANGED sFwuState
  /\ UNCHANGED <<reported, ended>>

OnUpdTerm(m) ==
  /\ sFwuState = "WAIT_FOR_UPD_TERM_RESP" /\ m.type = "RespUpdTerm"
  /\ reported' = "OK"
  /\ Request(Msg("ReqReboot"))
  /\ sFwuState' = "WAIT_FOR_REBOOT_RESP" /\ sRetryCnt' = 0
  /\ UNCHANGED <<fileVars, ended>>

OnReboot(m) ==
  /\ sFwuState = "WAIT_FOR_REBOOT_RESP" /\ m.type = "Startup"
  /\ ended' = TRUE
  /\ UNCHANGED <<sFwuState, sRetryCnt, fileVars, reported, toTarget>>

Awaited(m) ==
  CASE sFwuState \in {"WAIT_FOR_STARTUP_MSG", "WAIT_FOR_REBOOT_RESP"} -> m.type = "Startup"
    [] sFwuState = "WAIT_FOR_UPD_ENTER_RESP" -> m.type = "RespUpdEnter"
    [] sFwuState = "WAIT_FOR_UPD_DATA_RESP" -> m.type = "RespUpdData"
    [] sFwuState = "WAIT_FOR_UPD_TERM_RESP" -> m.type = "RespUpdTerm"

ToolReceive ==
  /\ ~ended /\ toTool # <<>>
  /\ toTool' = Tail(toTool)
  /\ LET m == Head(toTool)
     IN  \/ OnStartup(m) \/ OnUpdEnter(m) \/ OnUpdData(m) \/ OnUpdTerm(m) \/ OnReboot(m)
         \/ ~Awaited(m) /\ UNCHANGED <<toolVars, toTarget>>
  /\ UNCHANGED <<fileLen, targetVars, lost, resets>>

(* ProcessBus without a telegram, when the time-out of the state has passed. *)
Quiet == toTarget = <<>> /\ toTool = <<>> /\ target # "reset"
Overdue ==
  /\ Len(toTarget) < MaxFlight
  /\ ~Late => /\ Quiet               \* 10 s for UpdEnter, 4 s for the bootloader
               /\ ~(/\ sFwuState = "WAIT_FOR_UPD_ENTER_RESP"
                    /\ target = "WAIT_FOR_UPD_ENTER_TIMEOUT")

(* Mutant of Exhausted: one retry more. *)
ExhaustedLate == sRetryCnt > MAX_RETRY + 1

Exhausted == sRetryCnt > MAX_RETRY

ToolTimeout ==
  /\ ~ended /\ ~Exhausted /\ Overdue
  /\ sRetryCnt' = sRetryCnt + 1
  /\ CASE sFwuState \in {"WAIT_FOR_STARTUP_MSG", "WAIT_FOR_REBOOT_RESP"} ->
            Request(Msg("ReqReboot")) /\ UNCHANGED fileVars
       [] sFwuState = "WAIT_FOR_UPD_ENTER_RESP" ->
            Request(Msg("ReqUpdEnter")) /\ UNCHANGED fileVars
       [] sFwuState = "WAIT_FOR_UPD_TERM_RESP" ->
            Request(Msg("ReqUpdTerm")) /\ UNCHANGED fileVars
       [] sFwuState = "WAIT_FOR_UPD_DATA_RESP" -> SendAgain
  /\ UNCHANGED <<fileLen, sFwuState, reported, ended, targetVars, toTool, lost, resets>>

(* ProcessBus without a telegram, too many retries. *)
ToolAbort ==
  /\ ~ended /\ Exhausted
  /\ reported' = "ERROR" /\ ended' = TRUE
  /\ UNCHANGED <<fileLen, sFwuState, sRetryCnt, fileVars, targetVars, busVars>>

-----------------------------------------------------------------------------
(* The target. *)
Respond(msg) == toTool' = Append(toTool, msg)

(* FlashProgramPagePuffer *)
WithPage(f, pageNo, buffer) ==
  [p \in Packets |-> IF PageOf(p) = pageNo
                     THEN Programmed(f[p], buffer[p % PagePackets]) ELSE f[p]]

(* FlashProgram leaves the page that the buffer was filled for. *)
Flushed(pageNo) ==
  IF sActualProgramingPage \in {INV_PAGE, pageNo}
  THEN [flash |-> flash, page |-> page]
  ELSE [flash |-> WithPage(flash, sActualProgramingPage, page), page |-> BlankPage]

FlashProgram(addr, data) ==
  LET at == addr % PagePackets
      f == Flushed(PageOf(addr))
      filled == [f.page EXCEPT ![at] = Programmed(@, data)]
  IN  IF at = PagePackets - 1
      THEN /\ flash' = WithPage(f.flash, PageOf(addr), filled)
           /\ page' = BlankPage /\ sActualProgramingPage' = INV_PAGE
      ELSE /\ flash' = f.flash
           /\ page' = filled /\ sActualProgramingPage' = PageOf(addr)

(* Mutant of FlashProgramTerminate: the page is left in the buffer. *)
FlashProgramTerminateNot == UNCHANGED flashVars

FlashProgramTerminate ==
  /\ IF sActualProgramingPage = INV_PAGE
     THEN UNCHANGED <<flash, page>>
     ELSE flash' = WithPage(flash, sActualProgramingPage, page) /\ page' = BlankPage
  /\ UNCHANGED sActualProgramingPage

(* ProcessBus of the bootloader. *)
OnReqReboot(m) ==
  /\ m.type = "ReqReboot"
  /\ target' = "reset"
  /\ UNCHANGED <<flashVars, toTool>>

OnReqUpdEnter(m) ==
  /\ m.type = "ReqUpdEnter"
  /\ target \in {"WAIT_FOR_UPD_ENTER_TIMEOUT", "WAIT_FOR_UPD_ENTER"}
  /\ flash' = [p \in Packets |-> Blank]         \* FlashErase
  /\ target' = "WAIT_FOR_UPD_DATA"
  /\ Respond(Msg("RespUpdEnter"))
  /\ UNCHANGED <<page, sActualProgramingPage>>

(* Mutant of Fits: the last packet of the flash is refused. *)
FitsNot(addr) == addr + 1 < Capacity

Fits(addr) == addr < Capacity         \* the test of FlashProgram

OnReqUpdData(m) ==
  /\ m.type = "ReqUpdData" /\ target = "WAIT_FOR_UPD_DATA"
  /\ IF Fits(m.addr)
     THEN FlashProgram(m.addr, m.data) /\ Respond(RespData(m.addr))
     ELSE UNCHANGED flashVars /\ Respond(RespData(INV_PAGE))
  /\ UNCHANGED target

OnReqUpdTerm(m) ==
  /\ m.type = "ReqUpdTerm" /\ target = "WAIT_FOR_UPD_DATA"
  /\ FlashProgramTerminate
  /\ Respond(Msg("RespUpdTerm"))
  /\ UNCHANGED target

Ignored(m) ==
  \/ m.type = "ReqUpdEnter" /\ target \in {"application", "WAIT_FOR_UPD_DATA"}
  \/ m.type \in {"ReqUpdData", "ReqUpdTerm"} /\ target # "WAIT_FOR_UPD_DATA"

TargetReceive ==
  /\ toTarget # <<>> /\ target # "reset"
  /\ toTarget' = Tail(toTarget)
  /\ LET m == Head(toTarget)
     IN  \/ OnReqReboot(m) \/ OnReqUpdEnter(m) \/ OnReqUpdData(m) \/ OnReqUpdTerm(m)
         \/ Ignored(m) /\ UNCHANGED <<targetVars, toTool>>
  /\ UNCHANGED <<fileLen, toolVars, lost, resets>>

(* Mutant of Checked: the checksum is not looked at. *)
CheckedNot == "WAIT_FOR_UPD_ENTER_TIMEOUT"

Checked == IF ChecksumRight THEN "WAIT_FOR_UPD_ENTER_TIMEOUT" ELSE "WAIT_FOR_UPD_ENTER"

(* main of the bootloader, after a reset. *)
TargetBoot ==
  /\ target = "reset"
  /\ page' = BlankPage /\ sActualProgramingPage' = INV_PAGE
  /\ target' = Checked
  /\ Respond(Msg("Startup"))
  /\ UNCHANGED <<fileLen, toolVars, flash, toTarget, lost, resets>>

(* CheckTimeout: the bootloader starts the application. *)
BootTimeout ==
  /\ target = "WAIT_FOR_UPD_ENTER_TIMEOUT"
  /\ Late \/ Quiet
  /\ target' = "application"
  /\ UNCHANGED <<fileLen, toolVars, flashVars, busVars>>

(* A telegram for a target that is not running. *)
Deaf ==
  /\ toTarget # <<>> /\ target = "reset"
  /\ toTarget' = Tail(toTarget)
  /\ UNCHANGED <<fileLen, toolVars, targetVars, toTool, lost, resets>>

PowerLoss ==
  /\ target # "reset" /\ resets < MaxResets
  /\ resets' = resets + 1 /\ target' = "reset"
  /\ UNCHANGED <<fileLen, toolVars, flashVars, toTarget, toTool, lost>>

(* Loss of power while FlashErase works through the pages. *)
PowerLossErasing ==
  /\ toTarget # <<>> /\ resets < MaxResets
  /\ Head(toTarget).type = "ReqUpdEnter"
  /\ target \in {"WAIT_FOR_UPD_ENTER_TIMEOUT", "WAIT_FOR_UPD_ENTER"}
  /\ \E n \in Packets : flash' = [p \in Packets |-> IF PageOf(p) < n THEN Blank ELSE flash[p]]
  /\ resets' = resets + 1 /\ target' = "reset" /\ toTarget' = Tail(toTarget)
  /\ UNCHANGED <<fileLen, toolVars, page, sActualProgramingPage, toTool, lost>>

(* The bus loses a telegram. *)
Lose ==
  /\ lost < MaxLost /\ lost' = lost + 1
  /\ \/ toTarget # <<>> /\ toTarget' = Tail(toTarget) /\ UNCHANGED toTool
     \/ toTool # <<>> /\ toTool' = Tail(toTool) /\ UNCHANGED toTarget
  /\ UNCHANGED <<fileLen, toolVars, targetVars, resets>>

Next ==
  \/ ToolReceive \/ ToolTimeout \/ ToolAbort
  \/ TargetReceive \/ TargetBoot \/ BootTimeout \/ Deaf
  \/ PowerLoss \/ PowerLossErasing \/ Lose

Spec == Init /\ [][Next]_vars

(* The main loops of both programs run on, and time passes. *)
FairSpec ==
  /\ Spec
  /\ WF_vars(ToolReceive) /\ WF_vars(ToolTimeout) /\ WF_vars(ToolAbort)
  /\ WF_vars(TargetReceive) /\ WF_vars(TargetBoot) /\ WF_vars(BootTimeout)

-----------------------------------------------------------------------------
Contents == Packets \cup {Old, Blank, Mixed}
TypeOK ==
  /\ sFwuState \in {"WAIT_FOR_STARTUP_MSG", "WAIT_FOR_UPD_ENTER_RESP",
                    "WAIT_FOR_UPD_DATA_RESP", "WAIT_FOR_UPD_TERM_RESP", "WAIT_FOR_REBOOT_RESP"}
  /\ sRetryCnt \in 0 .. MAX_RETRY + 1
  /\ sNextWordAddr \in 0 .. fileLen + 1 /\ sLastWordAddr \in 0 .. fileLen
  /\ filePos \in 0 .. fileLen
  /\ reported \in {"", "OK", "ERROR", "empty"} /\ ended \in BOOLEAN
  /\ target \in {"reset", "application", "WAIT_FOR_UPD_ENTER_TIMEOUT", "WAIT_FOR_UPD_ENTER",
                 "WAIT_FOR_UPD_DATA"}
  /\ flash \in [Packets -> Contents] /\ page \in [Offsets -> Contents]
  /\ sActualProgramingPage \in {PageOf(p) : p \in Packets} \cup {INV_PAGE}

(* When the tool prints "transfer OK", the whole file is in the flash and    *)
(* nothing else, however many requests and answers were lost, late or        *)
(* answered twice and although the target may have been reset.               *)
Transferred == reported = "OK" => fileLen <= Capacity /\ flash = Image

(* No packet is programmed in a wrong place or over another one, so a packet *)
(* that is repeated because its answer was late does no harm.                *)
InPlace == \A p \in Packets : flash[p] \in {Old, Blank, p}

(* The target runs an application only if it is complete, the old or the new *)
(* one, wherever the update broke off.                                       *)
Bootable == target = "application" => ChecksumRight

(* The tool comes to an end, with success or after MAX_RETRY retries, if the *)
(* file fits in the flash.                                                   *)
Ends == <>ended

(* As the time-outs are for repeating a request without an answer, a lost *)
(* telegram does not make the update fail.                                *)
Repeated == lost <= 1 /\ resets = 0 => reported # "ERROR"
=============================================================================
