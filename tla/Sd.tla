--------------------------------- MODULE Sd ---------------------------------
(***************************************************************************)
(* The SD card driver (SD.c over sdio.c) against the card and the SDIO     *)
(* peripheral.                                                             *)
(*                                                                         *)
(* The driver is one thread that polls: it sends a command, spins until    *)
(* the peripheral has set a response flag, and goes on from there.  pc     *)
(* names the command whose response it waits for.  The card answers a      *)
(* command that is legal in its state and keeps silent otherwise; a fault  *)
(* on the line loses a command or a response, or corrupts one.  The data   *)
(* flags of SDIO_STA are sticky, and late ones meet the next call.         *)
(*                                                                         *)
(* The application calls sd_card_init at any time, and transfers and       *)
(* erases once it has succeeded.  A block holds one value: 1 is what the   *)
(* application writes, 0 an erased block.                                  *)
(***************************************************************************)
EXTENDS Integers, FiniteSets

CONSTANTS
  Kinds,      \* the kinds of card, a subset of AllKinds
  BlockLen,   \* bytes of a block (512)
  NBlocks,    \* blocks that the application uses
  Capacity,   \* blocks of the card
  Word,       \* values of a uint32_t (2^32)
  MaxTrial,   \* SD_MAX_VOLT_TRIAL (40)
  MaxApp,     \* attempts of send_command_specific (8)
  MaxWait,    \* attempts of wait_card_ready (500)
  MaxFaults   \* bound on the faults of the line, for model checking

\* Version 1 standard capacity, high capacity, and high capacity with UHS-II,
\* the only kind that sets bit 29 of the OCR.
AllKinds == {"V1", "SDHC", "UHS2"}

ASSUME KindsAssumption  == Kinds \subseteq AllKinds
ASSUME BlocksAssumption == /\ BlockLen \in Nat \ {0, 1}
                           /\ NBlocks \in Nat \ {0, 1}
                           /\ Capacity \in Nat /\ NBlocks < Capacity
                           /\ BlockLen % 2 = 0 /\ Capacity % 2 = 0
                           /\ Word \in Nat \ {0} /\ Word % 2 = 0
ASSUME BoundsAssumption == /\ MaxTrial \in Nat \ {0} /\ MaxApp \in Nat \ {0}
                           /\ MaxWait \in Nat \ {0} /\ MaxFaults \in Nat

Blocks == 0 .. NBlocks - 1     \* block numbers of the application
Lbas   == 0 .. Capacity - 1    \* block numbers of the card

VARIABLES
  \* The driver.
  pc,     \* the command whose response it waits for, "data" or "idle"
  op,     \* the running call, or the last one
  lo, hi, \* the first and the last block that it is about
  SD,     \* the driver's record of the card
  left,   \* attempts of the running loop that are left
  trial,  \* init_sd: count
  then,   \* what wait_card_ready or send_command_specific returns to
  buffer, \* what a read has put in the caller's buffer
  ret,    \* result of the last call: "ok", "error", or "none" while it runs
  inited, \* the last sd_card_init has succeeded
  \* The SDIO peripheral.
  cmd,    \* the command on the line, "none" if it has been answered
  resp,   \* the response flags and registers, NoResp if no flag is set
  dpsm,   \* the data path: "off", "recv", "send", or "drain" when it only has to
          \*   send what the DMA has put in its FIFO
  sta,    \* the data flags of SDIO_STA
  wide,   \* the host's bus is four bits wide
  \* The card.
  kind, card, mem,
  \* History.
  wrote,  \* what the application's calls have put in each block, or Unknown
  faults  \* faults of the line so far

driverVars == <<pc, op, lo, hi, SD, left, trial, then, buffer, ret, inited>>
vars == <<pc, op, lo, hi, SD, left, trial, then, buffer, ret, inited,
          cmd, resp, dpsm, sta, wide, kind, card, mem, wrote, faults>>

-----------------------------------------------------------------------------
(* The card.                                                               *)

\* multi tells a transfer of several blocks from one that ends by itself.
FreshCard == [state |-> "idle", app |-> FALSE, illegal |-> FALSE,
              wide |-> FALSE, multi |-> FALSE, rca |-> 0]

Selected == {"tran", "data", "rcv", "prg"}

\* The states in which a card obeys a command.
LegalIn(c) ==
  CASE c \in {"ifCond", "opCond"} -> {"idle"}
    [] c = "appCmd" -> {"idle", "stby"} \cup Selected
    [] c = "cid"    -> {"ready"}
    [] c = "rca"    -> {"ident", "stby"}
    [] c \in {"csd", "select"} -> {"stby"}
    [] c = "status" -> {"stby"} \cup Selected
    [] c = "stop"   -> {"data", "rcv"}
    [] OTHER        -> {"tran"}

Obeys(c) ==
  /\ card.state \in LegalIn(c)
  /\ c \in {"appCmd", "csd", "select", "status"} => SD.RCA = card.rca
  /\ c \in {"opCond", "width"} => card.app
  /\ c = "ifCond" => kind # "V1"

Reads  == {"read1", "readN"}
Writes == {"write1", "writeN", "writeDma"}

\* The command that starts the data transfer of a call.
DataCommands == {"read1", "readN", "write1", "writeN"}

StateAfter(c, up) ==
  CASE c = "opCond" -> IF up THEN "ready" ELSE "idle"
    [] c = "cid"    -> "ident"
    [] c = "rca"    -> "stby"
    [] c = "select" -> "tran"
    [] c \in {"read1", "readN"}   -> "data"
    [] c \in {"write1", "writeN"} -> "rcv"
    [] c = "stop"   -> IF card.state = "data" THEN "tran" ELSE "prg"
    [] c = "erase"  -> "prg"
    [] OTHER        -> card.state

\* CMD0 and CMD15 have no response; the line may lose them.
AfterCmd0(c)  == IF c.state = "ina" THEN c ELSE FreshCard
AfterCmd15(c) == IF c.rca # 0 /\ c.rca = SD.RCA THEN [c EXCEPT !.state = "ina"] ELSE c

-----------------------------------------------------------------------------
(* Addresses.                                                              *)

\* if (SD.version != CARD_SDXC) address *= 512, a uint32_t
Scaled(n) == IF SD.version # "SDXC" THEN (n * BlockLen) % Word ELSE n

\* The argument of a data or erase command for block n: write_single_block_sd
\* sends the block number as it is.  (erase_sd tests for CARD_SDSC, which after
\* an initialisation is the same.)
Argument(c, n) == IF c = "write1" THEN n ELSE Scaled(n)

ArgumentOf(c) == Argument(c, IF c = "eraseEnd" THEN hi ELSE lo)
OutOfRange(c) == /\ c \in DataCommands \cup {"eraseStart", "eraseEnd"}
                 /\ ArgumentOf(c) >= Capacity

DataCommand == IF op = "writeDma" THEN "writeN" ELSE op

\* The card's blocks that the running transfer is about.
Extent == LET a == ArgumentOf(DataCommand)
          IN IF op \in {"read1", "write1"} THEN {a} ELSE {a, a + 1}
EraseExtent == Argument("eraseStart", lo) .. Argument("eraseEnd", hi)

-----------------------------------------------------------------------------
(* A command and its response.                                             *)

NoResp == [r |-> "none", state |-> "idle", app |-> FALSE]

Timeout == [NoResp EXCEPT !.r = "timeout"]
Garbled == [NoResp EXCEPT !.r = "crc"]

\* The answer of a card that obeys: the error that CmdResp1Error finds in it.
\* ILLEGAL_COMMAND is about the command before.  Bit 30 of the OCR, which
\* OCR_Type calls busy, is set by a high capacity card that has powered up.
Answered(c, up) ==
  [r     |-> CASE c = "opCond" -> IF up /\ kind # "V1" THEN "ok" ELSE "busy"
               [] c \notin {"ifCond", "cid", "csd"} /\ card.illegal -> "illegal"
               [] OutOfRange(c) -> "range"
               [] OTHER -> "ok",
   state |-> card.state,
   app   |-> c = "appCmd"]

\* The card and the line answer the command: it may be lost on the way, and its
\* response lost or corrupted.  A response without a CRC (R3) is not corrupted.
Answer ==
  /\ cmd # "none"
  /\ \E fault \in {"none", "lost", "mute", "garbled"}, up \in BOOLEAN :
       /\ fault # "none" => faults < MaxFaults
       /\ fault = "garbled" => cmd # "opCond"
       /\ faults' = faults + (IF fault = "none" THEN 0 ELSE 1)
       /\ LET obeyed   == fault # "lost" /\ Obeys(cmd)
              executed == obeyed /\ ~OutOfRange(cmd)
          IN /\ card' = IF ~obeyed
                          THEN [card EXCEPT !.illegal = (@ \/ fault # "lost")]
                          ELSE [state   |-> IF executed THEN StateAfter(cmd, up)
                                                        ELSE card.state,
                                app     |-> cmd = "appCmd",
                                illegal |-> FALSE,
                                wide    |-> card.wide \/ cmd = "width",
                                multi   |-> cmd \in {"readN", "writeN"} \/
                                              (cmd \in {"status", "appCmd"} /\ card.multi),
                                rca     |-> IF cmd = "rca" THEN 1 ELSE card.rca]
             /\ mem' = IF executed /\ cmd = "erase"
                         THEN [l \in Lbas |-> IF l \in EraseExtent THEN 0 ELSE mem[l]]
                         ELSE mem
             /\ resp' = CASE obeyed /\ fault = "none"    -> Answered(cmd, up)
                          [] obeyed /\ fault = "garbled" -> Garbled
                          [] OTHER -> Timeout
  /\ cmd' = "none"
  /\ UNCHANGED <<driverVars, dpsm, sta, wide, kind, wrote>>

\* The card has programmed or erased what it was given, or has sent a block to
\* a host that does not listen, not any more or not yet.
Progress ==
  /\ \/ card.state = "prg"
     \/ card.state = "data" /\ ~card.multi /\ dpsm = "off"
  /\ card' = [card EXCEPT !.state = "tran"]
  /\ UNCHANGED <<driverVars, cmd, resp, dpsm, sta, wide, kind, mem, wrote, faults>>

-----------------------------------------------------------------------------
(* The data path of the peripheral.                                        *)

DataFlags == {"DATAEND", "DBCKEND", "DTIMEOUT", "DCRCFAIL", "TXUNDERR",
              "RXOVERR", "STBITERR", "TCIF"}   \* TCIF is the DMA stream's

EndOfData == {"DATAEND", "DBCKEND"}

NoData == [l \in {} |-> 0]

Fault == faults < MaxFaults /\ faults' = faults + 1

DataPathKeeps == UNCHANGED <<pc, op, lo, hi, SD, left, trial, then, ret, inited,
                             cmd, resp, wide, kind, wrote>>

\* The transfer stops with these flags, and the card in this state.
Stops(flags, state) ==
  /\ dpsm' = "off"
  /\ sta' = sta \cup flags
  /\ card' = [card EXCEPT !.state = state]
  /\ DataPathKeeps

\* A single block ends by itself, several when the driver stops them.
Ending(single) == IF card.multi THEN card.state ELSE single

Receive ==
  /\ dpsm = "recv" /\ card.state = "data" /\ pc = "data"
  /\ \/ /\ buffer' = [l \in Extent |-> mem[l]]
        /\ Stops(EndOfData, Ending("tran"))
        /\ UNCHANGED faults
     \/ /\ \E f \in {"DTIMEOUT", "DCRCFAIL", "RXOVERR", "STBITERR"} :
             Stops({f}, Ending("tran"))
        /\ Fault
        /\ UNCHANGED buffer
  /\ UNCHANGED mem

\* The data path is waiting, but the call has ended because the response of its
\* command was lost or corrupted: nobody reads the FIFO, or no data come.  Or
\* read_single_block_sd has started it when the block was over.
LateReceive ==
  /\ dpsm = "recv" /\ pc # "readN"
  /\ IF card.state = "data" THEN pc # "data" /\ Stops({"RXOVERR"}, Ending("tran"))
                            ELSE Stops({"DTIMEOUT"}, card.state)
  /\ UNCHANGED <<buffer, mem, faults>>

\* The blocks when these of the transfer hold ones.  write_blocks_dma has pointed
\* the DMA at its own stack (CMAR0 = &data), and the others may hold anything.
Stored(ones) ==
  [l \in Lbas |-> IF l \in ones THEN 1
                  ELSE IF op = "writeDma" /\ l \in Extent THEN 0 ELSE mem[l]]

\* The loop of the call has fed the FIFO and the data are out, or a fault has
\* stopped them.
Transmit ==
  /\ dpsm = "send" /\ card.state = "rcv" /\ pc \in {"data", "dma"}
  /\ \/ /\ op # "writeDma"
        /\ mem' = Stored(Extent)
        /\ Stops(EndOfData, Ending("prg"))
        /\ UNCHANGED faults
     \/ /\ \E f \in {"DTIMEOUT", "DCRCFAIL", "TXUNDERR"},
              moved \in IF op = "writeDma" THEN {{}, {"TCIF"}} ELSE {{}} :
             Stops({f} \cup moved, IF f = "TXUNDERR" THEN card.state ELSE Ending("prg"))
        /\ \E ones \in SUBSET Extent : mem' = Stored(ones)
        /\ Fault
  /\ UNCHANGED buffer

\* The DMA has moved the last word into the FIFO, and the data path has still to
\* send what is in it.
StreamEnds ==
  /\ dpsm = "send" /\ card.state = "rcv" /\ pc \in {"data", "dma"} /\ op = "writeDma"
  /\ dpsm' = "drain" /\ sta' = sta \cup {"TCIF"}
  /\ \E ones \in SUBSET Extent : mem' = Stored(ones)
  /\ DataPathKeeps
  /\ UNCHANGED <<buffer, card, faults>>

\* The last words are out, whatever the driver does meanwhile; a card that has
\* been stopped or reset does not acknowledge them.
Drain ==
  /\ dpsm = "drain"
  /\ \/ card.state = "rcv" /\ Stops(EndOfData, card.state) /\ UNCHANGED faults
     \/ card.state = "rcv" /\ Stops({"DCRCFAIL"}, card.state) /\ Fault
     \/ card.state # "rcv" /\ Stops({"DCRCFAIL"}, card.state) /\ UNCHANGED faults
  /\ UNCHANGED <<buffer, mem>>

Hardware ==
  Answer \/ Progress \/ Receive \/ LateReceive \/ Transmit \/ StreamEnds \/ Drain

-----------------------------------------------------------------------------
(* Steps of the driver.                                                    *)

callKeeps == <<op, lo, hi>>
loopKeeps == <<left, trial, then>>
sdioKeeps == <<dpsm, sta, wide>>
cardKeeps == <<kind, card, mem, faults>>

\* send_command_sdio, in a call that goes on.
Sends(c) ==
  /\ pc' = c /\ cmd' = c /\ resp' = NoResp /\ ret' = "none"
  /\ UNCHANGED <<inited, wrote>>

\* What the application knows of the blocks after the call.
Unknown == 2
Affected == IF op \in Writes \cup {"erase"} THEN lo .. hi ELSE {}
Recorded(v) ==
  [n \in Blocks |->
     IF n \notin Affected THEN wrote[n]
     ELSE IF v = "error" \/ op = "writeDma" THEN Unknown
     ELSE IF op = "erase" THEN 0 ELSE 1]

Returns(v) ==
  /\ pc' = "idle" /\ ret' = v /\ cmd' = "none" /\ resp' = NoResp
  /\ left' = 0 /\ trial' = 0 /\ then' = "none"
  /\ inited' = IF op = "init" THEN v = "ok" ELSE inited
  /\ wrote' = Recorded(v)

\* The driver waits for the response of command c and has one.
On(c) == pc = c /\ resp # NoResp

Ok == resp.r = "ok"

\* CmdResp1Error and CmdResp6Error keep the state that the card has answered.
Heard == IF resp.r \in {"timeout", "crc"} THEN SD ELSE [SD EXCEPT !.state = resp.state]

\* clear_flags_sdio(SDIO_MASK_STATIC_DATA_FLAGS): STBITERR is not in the mask.
ClearedMask == DataFlags \ {"STBITERR"}

\* Mutated ClearDataFlags: only the flags of errors.
ClearErrorFlags == sta' = sta \ {"DTIMEOUT", "DCRCFAIL", "TXUNDERR", "RXOVERR"}

ClearDataFlags == sta' = sta \ ClearedMask

\* reset_sd, which does not forget SD.voltage, on a card that is now c; the line
\* may lose CMD0, as it has lost n commands before.
ResetSd(c, n) ==
  /\ \E lost \in {0, 1} :
       /\ faults + n + lost <= MaxFaults
       /\ faults' = faults + n + lost
       /\ card' = IF lost = 1 THEN c ELSE AfterCmd0(c)
  /\ SD' = [SD EXCEPT !.state = "idle", !.version = "unknown", !.RCA = 0]
  /\ UNCHANGED <<kind, mem>>

\* set_inactive_state, and the error return that follows it everywhere.
GivesUp ==
  /\ ResetSd(AfterCmd15(card), 0) \/ ResetSd(card, 1)
  /\ Returns("error")
  /\ UNCHANGED <<callKeeps, buffer, sdioKeeps>>

\* The loop of wait_card_ready begins; it returns to what is called next.
WaitsReady(next) == Sends("status") /\ left' = MaxWait /\ then' = next /\ UNCHANGED trial

\* The loop of send_command_specific begins.
SendsApp(c) == Sends("appCmd") /\ left' = MaxApp /\ then' = c

-----------------------------------------------------------------------------
(* sd_card_init: init_sd, then init_sd_card.                               *)

\* init_sdio does not reset the peripheral (its APB2 branch is commented out).
CallInit ==
  /\ pc = "idle"
  /\ op' = "init" /\ lo' = 0 /\ hi' = 0 /\ inited' = FALSE
  /\ wide' = FALSE
  /\ ResetSd(card, 0)
  /\ pc' = "ifCond" /\ cmd' = "ifCond" /\ resp' = NoResp /\ ret' = "none"
  /\ buffer' = NoData
  /\ UNCHANGED <<loopKeeps, wrote, dpsm, sta>>

\* Mutated NextTrial: count++ instead of ++count.
NextTrialOneMore(count, voltage) ==
  \/ count <= MaxTrial + 1 /\ ~voltage /\ SendsApp("opCond") /\ trial' = count
  \/ count <= MaxTrial + 1 /\ voltage /\ Sends("cid") /\ UNCHANGED loopKeeps
  \/ count > MaxTrial + 1 /\ Returns("error")

\* while ((++count <= SD_MAX_VOLT_TRIAL) && (SD.voltage == 0)) and what follows
NextTrial(count, voltage) ==
  \/ count <= MaxTrial /\ ~voltage /\ SendsApp("opCond") /\ trial' = count
  \/ count <= MaxTrial /\ voltage /\ Sends("cid") /\ UNCHANGED loopKeeps
  \/ count > MaxTrial /\ Returns("error")

\* CmdResp7Error: a card of version 1 keeps silent and is reset again.
OnIfCond ==
  /\ On("ifCond")
  /\ \/ /\ Ok
        /\ SD' = [SD EXCEPT !.version = "V2"]
        /\ NextTrial(1, SD.voltage)
        /\ UNCHANGED cardKeeps
     \/ /\ resp.r = "timeout"
        /\ ResetSd(card, 0)
        /\ NextTrial(1, SD.voltage)
     \/ /\ resp.r = "crc"
        /\ Returns("error")
        /\ UNCHANGED <<SD, cardKeeps>>
  /\ UNCHANGED <<callKeeps, buffer, sdioKeeps>>

\* CMD55 in send_command_specific.  Without a response the test of APP_CMD reads
\* an uninitialised structure: either outcome.  When it fails init_sd returns,
\* init_sd_card waits for the response of a command it has not sent.
OnAppCmd ==
  /\ On("appCmd")
  /\ SD' = Heard
  /\ \/ Ok /\ Sends(then) /\ UNCHANGED loopKeeps
     \/ ~Ok /\ left > 1 /\ Sends("appCmd") /\ left' = left - 1 /\ UNCHANGED <<trial, then>>
     \/ /\ ~Ok /\ (left = 1 \/ ~resp.app)
        /\ \/ then = "opCond" /\ Returns("error")
           \/ /\ then = "width" /\ pc' = "width" /\ cmd' = "none" /\ resp' = NoResp
              /\ UNCHANGED <<ret, inited, wrote, loopKeeps>>
  /\ UNCHANGED <<callKeeps, buffer, sdioKeeps, cardKeeps>>

\* CmdResp3Error: OCR_Type is a bit short, so that its busy is the capacity bit
\* and its CCS the UHS-II bit.
OnOpCond ==
  /\ On("opCond")
  /\ \/ /\ Ok
        /\ SD' = [SD EXCEPT !.state = "ready", !.voltage = TRUE,
                            !.version = IF kind = "UHS2" THEN "SDXC" ELSE "SDSC"]
        /\ NextTrial(trial + 1, TRUE)
        /\ UNCHANGED <<callKeeps, buffer, sdioKeeps, cardKeeps>>
     \/ /\ resp.r = "busy"
        /\ NextTrial(trial + 1, SD.voltage)
        /\ UNCHANGED <<SD, callKeeps, buffer, sdioKeeps, cardKeeps>>
     \/ resp.r = "timeout" /\ GivesUp

\* CMD2
OnCid ==
  /\ On("cid")
  /\ \/ Ok /\ Sends("rca")
        /\ UNCHANGED <<SD, callKeeps, loopKeeps, buffer, sdioKeeps, cardKeeps>>
     \/ ~Ok /\ GivesUp

\* CMD3; init_sd returns and load_csd_sd sends CMD9.
OnRca ==
  /\ On("rca")
  /\ \/ /\ Ok
        /\ SD' = [Heard EXCEPT !.RCA = 1]
        /\ Sends("csd")
        /\ UNCHANGED <<callKeeps, loopKeeps, buffer, sdioKeeps, cardKeeps>>
     \/ ~Ok /\ GivesUp

\* CMD9; the CSD of the cards here is of version 1 or 2.
OnCsd ==
  /\ On("csd")
  /\ \/ Ok /\ Sends("select") /\ UNCHANGED loopKeeps
     \/ ~Ok /\ Returns("error")
  /\ UNCHANGED <<SD, callKeeps, buffer, sdioKeeps, cardKeeps>>

\* CMD7, CmdResp1bError: it waits for the card only if nothing was heard.
OnSelect ==
  /\ On("select")
  /\ SD' = Heard
  /\ \/ Ok /\ SendsApp("width") /\ UNCHANGED trial
     \/ resp.r = "timeout" /\ WaitsReady("selected")
     \/ resp.r \notin {"ok", "timeout"} /\ Returns("error")
  /\ UNCHANGED <<callKeeps, buffer, sdioKeeps, cardKeeps>>

\* Mutated OnWidth: the response of ACMD6 is not looked at.
OnWidthUnchecked ==
  /\ On("width")
  /\ SD' = Heard
  /\ wide' = TRUE
  /\ Returns("ok")
  /\ UNCHANGED <<callKeeps, buffer, dpsm, sta, cardKeeps>>

\* ACMD6, then the bus of the host and its clock.
OnWidth ==
  /\ On("width")
  /\ \/ /\ Ok
        /\ SD' = Heard
        /\ wide' = TRUE
        /\ Returns("ok")
        /\ UNCHANGED <<callKeeps, buffer, dpsm, sta, cardKeeps>>
     \/ ~Ok /\ GivesUp

-----------------------------------------------------------------------------
(* Transfers and erases.                                                   *)

\* A call begins: DCTRL = 0, then the data path (a read of one block sets it up
\* when the card has answered), then the command.
Call(o, first, last) ==
  /\ pc = "idle" /\ inited
  /\ op' = o /\ lo' = first /\ hi' = last
  /\ buffer' = NoData
  /\ dpsm' = CASE o \in Writes -> "send" [] o = "readN" -> "recv" [] OTHER -> "off"
  /\ UNCHANGED <<SD, sta, wide, cardKeeps>>

CallOne(o, n) ==
  Call(o, n, n) /\ Sends(o) /\ UNCHANGED loopKeeps

\* write_multi_block_sd, write_blocks_dma and read_multi_block_sd of two blocks.
CallTwo(o, n) ==
  /\ Call(o, n, n + 1)
  /\ Sends(IF o = "writeDma" THEN "writeN" ELSE o)
  /\ UNCHANGED loopKeeps

\* erase_sd: the ends in either order.
CallErase(a, b) ==
  /\ Call("erase", IF a > b THEN b ELSE a, IF a > b THEN a ELSE b)
  /\ WaitsReady("eraseStart")

\* The response of the command that starts a transfer.
OnTransfer ==
  /\ pc \in DataCommands /\ On(pc)
  /\ SD' = Heard
  /\ \/ /\ Ok
        /\ pc' = "data" /\ resp' = NoResp
        /\ dpsm' = IF op = "read1" THEN "recv" ELSE dpsm
        /\ UNCHANGED <<cmd, ret, inited, wrote, loopKeeps>>
     \/ ~Ok /\ Returns("error") /\ UNCHANGED dpsm
  /\ UNCHANGED <<callKeeps, buffer, sta, wide, cardKeeps>>

\* Mutated EndFlags: the end of the data is not among them.
EndFlagsErrorsOnly == {"DTIMEOUT", "DCRCFAIL", "STBITERR", "RXOVERR", "TXUNDERR"}

\* Mutated ErrorFlags: a wrong CRC is not looked at.
ErrorFlagsNoCrc ==
  IF op \in Reads THEN {"DTIMEOUT", "STBITERR", "RXOVERR"} ELSE {"DTIMEOUT", "TXUNDERR"}

\* The flags that end the loop of a call, and those that make it fail.
EndFlags ==
  CASE op = "read1" -> {"DTIMEOUT", "DCRCFAIL", "STBITERR", "RXOVERR", "DBCKEND"}
    [] op = "readN" -> {"DTIMEOUT", "DCRCFAIL", "STBITERR", "RXOVERR", "DATAEND"}
    [] OTHER        -> {"DTIMEOUT", "DCRCFAIL", "STBITERR", "TXUNDERR", "DATAEND"}
ErrorFlags ==
  IF op \in Reads THEN {"DTIMEOUT", "DCRCFAIL", "STBITERR", "RXOVERR"}
                  ELSE {"DTIMEOUT", "DCRCFAIL", "TXUNDERR"}

\* The end of every transfer: the flags are looked at and cleared, and a success
\* waits for the card, but in write_blocks_dma.
Concludes ==
  /\ ClearDataFlags
  /\ \/ sta \cap ErrorFlags # {} /\ Returns("error")
     \/ /\ sta \cap ErrorFlags = {}
        /\ IF op = "writeDma" THEN Returns("ok")
                              ELSE WaitsReady("return")

\* Several blocks that have all gone through are stopped with CMD12.
StopsOrConcludes ==
  IF op \in {"readN", "writeN", "writeDma"} /\ "DATAEND" \in sta
    THEN Sends("stop") /\ UNCHANGED <<sta, loopKeeps>>
    ELSE Concludes

\* The loop of a transfer ends.
EndData ==
  /\ pc = "data" /\ sta \cap EndFlags # {}
  /\ IF op = "writeDma"
       THEN pc' = "dma" /\ UNCHANGED <<cmd, resp, ret, inited, wrote, sta, loopKeeps>>
       ELSE StopsOrConcludes
  /\ UNCHANGED <<SD, callKeeps, buffer, dpsm, wide, cardKeeps>>

\* while (!(DMA2->LISR & ...)): nothing else ends it.
EndDma ==
  /\ pc = "dma" /\ "TCIF" \in sta
  /\ StopsOrConcludes
  /\ UNCHANGED <<SD, callKeeps, buffer, dpsm, wide, cardKeeps>>

\* CMD12, CmdResp1bError.
OnStop ==
  /\ On("stop")
  /\ SD' = Heard
  /\ \/ Ok /\ Concludes
     \/ resp.r = "timeout" /\ WaitsReady("stopped") /\ UNCHANGED sta
     \/ /\ resp.r \notin {"ok", "timeout"}
        /\ ClearDataFlags /\ Returns("error")
  /\ UNCHANGED <<callKeeps, buffer, dpsm, wide, cardKeeps>>

\* CMD32, CMD33 and CMD38 of erase_sd.
NextErase == [eraseStart |-> "eraseEnd", eraseEnd |-> "erase"]
OnErase ==
  /\ pc \in {"eraseStart", "eraseEnd", "erase"} /\ On(pc)
  /\ SD' = Heard
  /\ \/ Ok /\ pc # "erase" /\ Sends(NextErase[pc]) /\ UNCHANGED <<sta, loopKeeps>>
     \/ Ok /\ pc = "erase" /\ ClearDataFlags /\ WaitsReady("return")
     \/ ~Ok /\ ClearDataFlags /\ Returns("error")
  /\ UNCHANGED <<callKeeps, buffer, dpsm, wide, cardKeeps>>

\* wait_card_ready has returned 0, or an error.
Ready ==
  CASE then = "return"   -> Returns("ok") /\ UNCHANGED sta
    [] then = "selected" -> SendsApp("width") /\ UNCHANGED <<sta, trial>>
    [] then = "stopped"  -> Concludes
    [] OTHER             -> Sends("eraseStart") /\ UNCHANGED <<sta, loopKeeps>>
NotReady ==
  /\ Returns("error")
  /\ IF then = "stopped" THEN ClearDataFlags ELSE UNCHANGED sta

\* Mutated OnStatus: any answer without an error is taken for a ready card.
OnStatusAnyState ==
  /\ On("status")
  /\ SD' = Heard
  /\ \/ resp.r \in {"timeout", "crc"} /\ NotReady
     \/ Ok /\ Ready
     \/ resp.r = "illegal" /\ left > 1 /\ Sends("status") /\ left' = left - 1
          /\ UNCHANGED <<trial, then, sta>>
     \/ resp.r = "illegal" /\ left = 1 /\ NotReady
  /\ UNCHANGED <<callKeeps, buffer, dpsm, wide, cardKeeps>>

\* Mutated OnStatus: while (1).
OnStatusForever ==
  /\ On("status")
  /\ SD' = Heard
  /\ LET done == Ok /\ resp.state = "tran"
         lost == resp.r \in {"timeout", "crc"}
     IN \/ done /\ Ready
        \/ ~done /\ ~lost /\ Sends("status") /\ UNCHANGED <<loopKeeps, sta>>
        \/ lost /\ NotReady
  /\ UNCHANGED <<callKeeps, buffer, dpsm, wide, cardKeeps>>

\* CMD13 in wait_card_ready; a card that programs is not READY_FOR_DATA.
OnStatus ==
  /\ On("status")
  /\ SD' = Heard
  /\ LET done == Ok /\ resp.state = "tran"
         lost == resp.r \in {"timeout", "crc"}
     IN \/ done /\ Ready
        \/ ~done /\ ~lost /\ left > 1 /\ Sends("status") /\ left' = left - 1
             /\ UNCHANGED <<trial, then, sta>>
        \/ lost /\ NotReady
        \/ ~done /\ ~lost /\ left = 1 /\ NotReady
  /\ UNCHANGED <<callKeeps, buffer, dpsm, wide, cardKeeps>>

-----------------------------------------------------------------------------
Init ==
  /\ pc = "idle" /\ op = "none" /\ lo = 0 /\ hi = 0
  /\ SD = [state |-> "idle", version |-> "unknown", voltage |-> FALSE, RCA |-> 0]
  /\ left = 0 /\ trial = 0 /\ then = "none" /\ buffer = NoData
  /\ ret = "none" /\ inited = FALSE
  /\ cmd = "none" /\ resp = NoResp /\ dpsm = "off" /\ sta = {} /\ wide = FALSE
  /\ kind \in Kinds /\ card = FreshCard /\ mem = [l \in Lbas |-> 0]
  /\ wrote = [n \in Blocks |-> 0] /\ faults = 0

Calls ==
  \/ CallInit
  \/ \E o \in {"read1", "write1"}, n \in Blocks : CallOne(o, n)
  \/ \E o \in {"readN", "writeN", "writeDma"}, n \in Blocks \ {NBlocks - 1} : CallTwo(o, n)
  \/ \E a, b \in Blocks : CallErase(a, b)

Step ==
  \/ OnIfCond \/ OnAppCmd \/ OnOpCond \/ OnCid \/ OnRca
  \/ OnCsd \/ OnSelect \/ OnWidth
  \/ OnTransfer \/ EndData \/ EndDma \/ OnStop
  \/ OnErase \/ OnStatus

Next == Calls \/ Step \/ Hardware

Spec == Init /\ [][Next]_vars

\* The processor executes; the peripheral ends every command and every data
\* phase with some flag, and the card ends its programming.
Fairness == WF_vars(Step) /\ WF_vars(Hardware)

FairSpec == Spec /\ Fairness

-----------------------------------------------------------------------------
(* Properties.                                                             *)

CardStates == {"idle", "ready", "ident", "stby", "tran", "data", "rcv", "prg", "ina"}
Commands   == {"ifCond", "appCmd", "opCond", "cid", "rca", "csd", "select", "width",
               "status", "stop", "eraseStart", "eraseEnd", "erase"} \cup DataCommands

TypeOK ==
  /\ pc \in Commands \cup {"idle", "data", "dma"}
  /\ op \in Reads \cup Writes \cup {"none", "init", "erase"}
  /\ lo \in Blocks /\ hi \in lo .. NBlocks - 1
  /\ SD \in [state : CardStates, version : {"unknown", "V2", "SDSC", "SDXC"},
             voltage : BOOLEAN, RCA : {0, 1}]
  /\ left \in 0 .. (IF MaxApp > MaxWait THEN MaxApp ELSE MaxWait)
  /\ trial \in 0 .. MaxTrial
  /\ then \in {"none", "opCond", "width", "return", "selected", "stopped", "eraseStart"}
  /\ DOMAIN buffer \subseteq Lbas /\ ret \in {"none", "ok", "error"}
  /\ inited \in BOOLEAN /\ wide \in BOOLEAN
  /\ cmd \in Commands \cup {"none"}
  /\ resp \in [r : {"none", "ok", "busy", "illegal", "range", "timeout", "crc"},
               state : CardStates, app : BOOLEAN]
  /\ dpsm \in {"off", "recv", "send", "drain"} /\ sta \subseteq DataFlags
  /\ kind \in Kinds /\ mem \in [Lbas -> {0, 1}]
  /\ card \in [state : CardStates, app : BOOLEAN, illegal : BOOLEAN,
               wide : BOOLEAN, multi : BOOLEAN, rca : {0, 1}]
  /\ wrote \in [Blocks -> {0, 1, Unknown}] /\ faults \in 0 .. MaxFaults

\* A call has returned 0.
Succeeded(ops) == pc = "idle" /\ op \in ops /\ ret = "ok"

\* When sd_card_init returns 0, whatever the line has lost, the card is selected
\* under the address that the driver uses, and both ends of the bus are as wide.
InitMeansReady ==
  Succeeded({"init"}) =>
    card.state = "tran" /\ card.rca = SD.RCA /\ SD.RCA # 0 /\ card.wide = wide

\* When a transfer or an erase returns 0 the card is ready for the next one, and
\* no data flag is left, or still to come, that would end it early.  Of
\* write_blocks_dma, which does not wait for the card, only the flags are said;
\* and not when the STBITERR of an earlier read has ended its loop at once: it
\* then returns 0 while its data are still being sent (SD.c:935-940).
ReadyAfterSuccess ==
  /\ Succeeded({"read1", "readN", "write1", "writeN", "erase"}) =>
       card.state = "tran" /\ SD.state = "tran" /\ sta \subseteq {"STBITERR"} /\ dpsm = "off"
  /\ Succeeded({"writeDma"}) /\ "STBITERR" \notin sta => sta = {} /\ dpsm = "off"

\* A call that returns 0 has done what it told the card: a read has brought the
\* blocks, a write has stored them, an erase has cleared them, however many
\* calls have failed before it and left flags or a half-done transfer behind:
\* the end flags that come after the return of a write_blocks_dma included.
\* (What write_blocks_dma stores is not the caller's data.)
SuccessMeansDone ==
  /\ Succeeded(Reads) => buffer = [l \in Extent |-> mem[l]]
  /\ Succeeded({"write1", "writeN"}) => \A l \in Extent : mem[l] = 1
  /\ Succeeded({"erase"}) => \A l \in EraseExtent : mem[l] = 0

\* README.md:75: reads and writes of the card are correct: a read returns what
\* was last written to its blocks.
ReadsBack ==
  Succeeded(Reads) =>
    \A n \in lo .. hi :
      LET lba == ArgumentOf(DataCommand) + n - lo
      IN wrote[n] = Unknown \/ (lba \in DOMAIN buffer /\ wrote[n] = buffer[lba])

\* It is so on a card that the driver addresses by blocks in all of its calls.
ReadsBackByBlock == SD.version = "SDXC" => ReadsBack

\* Two loops that may never end: the wait for the response of an ACMD6 that was
\* not sent, and the wait for a DMA stream that the data path does not serve.
Hung == \/ pc = "width" /\ cmd = "none" /\ resp = NoResp
        \/ pc = "dma" /\ dpsm = "off" /\ "TCIF" \notin sta

\* The driver waits for something that never comes: one of those two, or flags
\* that a data path which has stopped will not set.
Stuck == \/ Hung
         \/ pc = "data" /\ dpsm = "off" /\ sta \cap EndFlags = {}

\* The loops without a bound need a fault of the line to hang, whatever the
\* calls before have left: no legal sequence of calls alone stops the program.
StuckNeedsFault == Stuck => faults > 0

\* Every call returns, but for those two loops: the waits for the card's state
\* are bounded and the peripheral ends the others.
CallsReturn == pc # "idle" ~> (pc = "idle" \/ Hung)
=============================================================================
