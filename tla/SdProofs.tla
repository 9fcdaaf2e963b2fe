------------------------------- MODULE SdProofs -------------------------------
(***************************************************************************)
(* Proofs about Sd, for every kind of card and size, every bound on the    *)
(* attempts of the loops, and any number of faults of the line.            *)
(*                                                                         *)
(* The inductive invariant IInv has a part for each thing the driver takes *)
(* for granted: which command belongs to which call (CallInPhase), the     *)
(* card's address and voltage (Addressed, Voltage), the data path and its  *)
(* sticky flags (DataPath), the card whose data write_blocks_dma has not   *)
(* waited for (Marooned), the card that waits (CardWaits), what the call   *)
(* has done (Effect, Known), and the initialisation on a line without      *)
(* faults (Clean).                                                         *)
(***************************************************************************)
EXTENDS Sd, DivModLemmas, TLAPS

Two == {"readN", "writeN", "writeDma"}

\* wait_card_ready is the last thing of a call, or what follows CMD12.
Closing  == pc = "status" /\ then = "return"
Stopping == pc = "stop" \/ (pc = "status" /\ then = "stopped")

\* The call looks at the flags of its own data.
Moving == pc \in {"data", "dma"} \/ Stopping

\* The calls that end with wait_card_ready.
Waiting == {"read1", "readN", "write1", "writeN", "erase"}

\* init_sd is about the voltage; it, or init_sd_card, is beyond it.
Powering   == pc = "opCond" \/ (pc = "appCmd" /\ then = "opCond")
Addressing == \/ pc \in {"csd", "select", "width"}
              \/ pc = "appCmd" /\ then = "width"
              \/ pc = "status" /\ then = "selected"

\* Which command, and which return of wait_card_ready, belongs to which call.
CallInPhase ==
  /\ pc \in {"idle", "data", "dma"} => cmd = "none" /\ resp = NoResp
  /\ cmd # "none" => cmd = pc /\ resp = NoResp
  /\ pc \in {"ifCond", "appCmd", "opCond", "cid", "rca", "csd", "select", "width"} => op = "init"
  /\ pc \in DataCommands => pc = DataCommand
  /\ pc = "data" => op \in Reads \cup Writes
  /\ pc = "dma" => op = "writeDma"
  /\ pc = "stop" => op \in Two
  /\ pc \in {"eraseStart", "eraseEnd", "erase"} => op = "erase"
  /\ pc = "appCmd" => then \in {"opCond", "width"}
  /\ pc = "status" => \/ then = "selected" /\ op = "init"
                      \/ then = "return" /\ op \in Reads \cup Writes \cup {"erase"} /\ op # "writeDma"
                      \/ then = "stopped" /\ op \in Two
                      \/ then = "eraseStart" /\ op = "erase"
  /\ op \in Two => hi = lo + 1
  /\ op \in {"read1", "write1"} => hi = lo

\* What the driver may take for granted of the card and of its record of it.
Addressed ==
  /\ card.state \in {"stby"} \cup Selected => card.rca = 1
  /\ Addressing => SD.RCA = 1
  /\ pc = "width" /\ resp.r = "ok" => card.state = "tran" /\ card.wide

\* The voltage is settled once and for all by the first card that answers; before
\* that no call but sd_card_init is made.
Voltage ==
  /\ Powering => ~SD.voltage
  /\ Addressing \/ pc \in {"cid", "rca"} => SD.voltage
  /\ inited => SD.voltage
  /\ pc # "idle" /\ op # "init" => inited
  /\ ~SD.voltage => /\ SD.version \notin {"SDSC", "SDXC"}
                    /\ \A n \in Blocks : wrote[n] = 0
                    /\ \A l \in Lbas : mem[l] = 0

\* The addresses that the card has accepted are in its range.
InRange ==
  /\ pc \in DataCommands \cup {"eraseStart", "eraseEnd"} /\ resp.r = "ok" =>
       ArgumentOf(pc) < Capacity
  /\ pc \in {"data", "dma"} => ArgumentOf(DataCommand) < Capacity
  /\ pc = "erase" => ArgumentOf("eraseEnd") < Capacity

\* The data path and its flags.
DataPath ==
  /\ op \in Writes => dpsm # "recv"
  /\ op = "erase" => dpsm = "off"
  /\ op \in Reads => dpsm # "send"
  /\ pc \in {"write1", "writeN"} => dpsm = "send"
  /\ pc = "readN" => dpsm = "recv"
  /\ dpsm = "drain" => \/ op = "init"
                       \/ op = "writeDma" /\ pc \in {"data", "dma", "idle"}
  /\ sta \cap EndOfData # {} => EndOfData \subseteq sta /\ (Moving => dpsm = "off")
  /\ pc = "dma" => sta \cap EndFlags # {}
  /\ pc \in {"data", "dma"} /\ dpsm = "drain" => "TCIF" \in sta
  /\ pc \in {"data", "dma"} /\ dpsm = "off" => "DATAEND" \in sta \/ sta \cap ErrorFlags # {}
  /\ Stopping => "DATAEND" \in sta
  /\ pc \in {"data", "dma"} /\ op = "writeDma" /\ dpsm = "off" /\ "TCIF" \notin sta => faults > 0
  /\ Closing \/ Succeeded(Waiting) => sta \subseteq {"STBITERR"} /\ dpsm # "recv"
  /\ Succeeded({"writeDma"}) /\ "STBITERR" \notin sta => sta = {} /\ dpsm = "off"

\* The data path has been left sending, or has left the flags of its end behind:
\* the card waits for more data, or has been reset and is not powered up again,
\* and answers no command that would end in a success.
Abandoned == ~Moving /\ (dpsm = "drain" \/ sta \cap EndOfData # {})
Marooned ==
  Abandoned =>
    /\ SD.voltage /\ card.state \in {"rcv", "idle", "ina"}
    /\ \/ pc \in {"idle", "ifCond", "cid"} \cup DataCommands
       \/ pc = "status" /\ then = "eraseStart"
    /\ pc \in {"cid"} \cup DataCommands => resp.r \in {"none", "timeout"}

\* A card that is being written to waits for its data, and a card that said it
\* is ready stays so.
CardWaits ==
  /\ pc \in {"write1", "writeN"} /\ resp.r = "ok" => card.state = "rcv"
  /\ dpsm \in {"send", "drain"} /\ pc \in {"data", "dma"} => card.state = "rcv"
  /\ dpsm = "send" /\ Closing /\ op \in Writes => card.state = "rcv"
  /\ pc = "status" /\ resp.r = "ok" /\ resp.state = "tran" => card.state = "tran"
  /\ Succeeded(Waiting) => card.state = "tran" /\ SD.state = "tran" /\ dpsm = "off"

Done ==
  /\ op \in Reads => buffer = [l \in Extent |-> mem[l]]
  /\ op \in {"write1", "writeN"} => \A l \in Extent : mem[l] = 1
  /\ op = "erase" => \A l \in EraseExtent : mem[l] = 0

\* When the data have gone through, the call has done what it was to do.
Effect ==
  /\ Moving /\ "DATAEND" \in sta => Done
  /\ pc = "erase" /\ resp.r = "ok" => Done
  /\ Closing => Done \/ (dpsm = "send" /\ op \in Writes)
  /\ Succeeded(Reads \cup Writes \cup {"erase"}) => Done

\* What the application knows of a card that is addressed by blocks.
Known ==
  SD.version = "SDXC" =>
    \A n \in Blocks : wrote[n] \in {Unknown, mem[n]} \/ (pc # "idle" /\ n \in Affected)

\* The initialisation of a card on a line without faults.
Clean ==
  faults = 0 =>
    /\ card.state # "ina"
    /\ pc \in {"ifCond", "cid"} \/ Powering => card.rca = 0
    /\ pc = "cid" /\ resp.r = "ok" => card.state = "ident" /\ ~card.illegal
    /\ pc \in {"rca", "csd", "select", "width"} \/ Addressing => ~card.illegal
    /\ pc = "rca" => \/ cmd = "rca" /\ card.state = "ident"
                     \/ resp.r = "ok" /\ card.state = "stby"
    /\ pc = "csd" => card.state = "stby" /\ (cmd = "csd" \/ resp.r = "ok")
    /\ pc = "select" => \/ cmd = "select" /\ card.state = "stby"
                        \/ resp.r = "ok" /\ card.state = "tran"
    /\ ~(pc = "status" /\ then = "selected")
    /\ pc = "appCmd" /\ then = "width" =>
         card.state = "tran" /\ (cmd = "appCmd" \/ (resp.r = "ok" /\ card.app))
    /\ pc = "width" =>
         card.state = "tran" /\ ((cmd = "width" /\ card.app) \/ resp.r = "ok")

IInv == /\ TypeOK /\ CallInPhase /\ Addressed /\ Voltage /\ InRange /\ DataPath
        /\ Marooned /\ CardWaits /\ Effect /\ Known /\ Clean /\ InitMeansReady

-----------------------------------------------------------------------------
(* Types.                                                                  *)

SdType   == [state : CardStates, version : {"unknown", "V2", "SDSC", "SDXC"},
             voltage : BOOLEAN, RCA : {0, 1}]
RespType == [r : {"none", "ok", "busy", "illegal", "range", "timeout", "crc"},
             state : CardStates, app : BOOLEAN]
CardType == [state : CardStates, app : BOOLEAN, illegal : BOOLEAN,
             wide : BOOLEAN, multi : BOOLEAN, rca : {0, 1}]

\* TypeOK in three parts: the program, the call and its data, and the card.
ProgramType ==
  /\ pc \in Commands \cup {"idle", "data", "dma"} /\ cmd \in Commands \cup {"none"}
  /\ left \in 0 .. (IF MaxApp > MaxWait THEN MaxApp ELSE MaxWait)
  /\ trial \in 0 .. MaxTrial
  /\ then \in {"none", "opCond", "width", "return", "selected", "stopped", "eraseStart"}
  /\ ret \in {"none", "ok", "error"} /\ inited \in BOOLEAN /\ resp \in RespType
  /\ wrote \in [Blocks -> {0, 1, Unknown}]
DataType ==
  /\ op \in Reads \cup Writes \cup {"none", "init", "erase"}
  /\ lo \in Blocks /\ hi \in lo .. NBlocks - 1
  /\ DOMAIN buffer \subseteq Lbas /\ wide \in BOOLEAN
  /\ dpsm \in {"off", "recv", "send", "drain"} /\ sta \subseteq DataFlags
PeerType ==
  /\ SD \in SdType /\ card \in CardType /\ kind \in Kinds /\ mem \in [Lbas -> {0, 1}]
  /\ faults \in 0 .. MaxFaults

\* The parts make up TypeOK, before a step and after it.
LEMMA TypeParts ==
  /\ TypeOK <=> ProgramType /\ DataType /\ PeerType
  /\ TypeOK' <=> ProgramType' /\ DataType' /\ PeerType'
BY DEF TypeOK, ProgramType, DataType, PeerType, SdType, RespType, CardType

\* No response is a response without a verdict.
LEMMA NoRespType == NoResp \in RespType /\ NoResp.r = "none"
BY DEF NoResp, RespType, CardStates

\* A response is a response.
LEMMA SilenceType ==
  /\ Timeout \in RespType /\ Timeout.r = "timeout" /\ Garbled \in RespType /\ Garbled.r = "crc"
BY NoRespType DEF NoResp, Timeout, Garbled, RespType, CardStates

\* What the driver keeps of a response changes only the state it has on record.
LEMMA HeardType ==
  ASSUME SD \in SdType, resp \in RespType
  PROVE  /\ Heard \in SdType /\ Heard.version = SD.version
         /\ Heard.voltage = SD.voltage /\ Heard.RCA = SD.RCA
         /\ resp.r = "ok" => Heard.state = resp.state
BY DEF Heard, SdType, RespType

\* A command that goes on keeps the types of what it sets.
LEMMA SendsType ==
  ASSUME ProgramType, NEW c \in Commands, Sends(c)
  PROVE  /\ pc' \in Commands \cup {"idle", "data", "dma"} /\ cmd' \in Commands \cup {"none"}
         /\ ret' \in {"none", "ok", "error"} /\ inited' \in BOOLEAN /\ resp' \in RespType
         /\ wrote' \in [Blocks -> {0, 1, Unknown}]
BY NoRespType DEF ProgramType, Sends

\* ... whose loop goes on too.
LEMMA SendsOnType ==
  ASSUME ProgramType, NEW c \in Commands, Sends(c), UNCHANGED loopKeeps
  PROVE  ProgramType'
BY SendsType DEF ProgramType, loopKeeps

\* The loop of wait_card_ready begins.
LEMMA WaitsType ==
  ASSUME ProgramType, NEW next \in {"return", "selected", "stopped", "eraseStart"},
         WaitsReady(next)
  PROVE  ProgramType'
<1>1. "status" \in Commands
  BY DEF Commands
<1>2. MaxWait \in 0 .. (IF MaxApp > MaxWait THEN MaxApp ELSE MaxWait)
  BY BoundsAssumption
<1> QED
  BY <1>1, <1>2, SendsType DEF ProgramType, WaitsReady

\* The loop of send_command_specific begins.
LEMMA SendsAppType ==
  ASSUME ProgramType, NEW c \in {"opCond", "width"}, SendsApp(c), trial' \in 0 .. MaxTrial
  PROVE  ProgramType'
<1>1. "appCmd" \in Commands
  BY DEF Commands
<1>2. MaxApp \in 0 .. (IF MaxApp > MaxWait THEN MaxApp ELSE MaxWait)
  BY BoundsAssumption
<1> QED
  BY <1>1, <1>2, SendsType DEF ProgramType, SendsApp

\* A call returns.
LEMMA ReturnsType ==
  ASSUME ProgramType, NEW v \in {"ok", "error"}, Returns(v)
  PROVE  ProgramType'
<1>1. wrote' \in [Blocks -> {0, 1, Unknown}]
  BY DEF ProgramType, Returns, Recorded
<1>2. inited' \in BOOLEAN
  BY DEF ProgramType, Returns
<1>3. 0 \in 0 .. (IF MaxApp > MaxWait THEN MaxApp ELSE MaxWait) /\ 0 \in 0 .. MaxTrial
  BY BoundsAssumption
<1> QED
  BY <1>1, <1>2, <1>3, NoRespType DEF ProgramType, Returns

\* A reset of the card, and of what the driver knows of it.
LEMMA ResetType ==
  ASSUME PeerType, NEW c \in CardType, NEW m \in Nat, ResetSd(c, m)
  PROVE  PeerType' /\ SD' = [SD EXCEPT !.state = "idle", !.version = "unknown", !.RCA = 0]
<1>1. FreshCard \in CardType
  BY DEF FreshCard, CardType, CardStates
<1>2. card' \in CardType
  BY <1>1 DEF ResetSd, AfterCmd0
<1>3. SD' \in SdType /\ SD' = [SD EXCEPT !.state = "idle", !.version = "unknown", !.RCA = 0]
  BY DEF ResetSd, PeerType, SdType, CardStates
<1>4. faults' \in 0 .. MaxFaults
  <2>1. PICK lost \in {0, 1} : faults + m + lost <= MaxFaults /\ faults' = faults + m + lost
    BY DEF ResetSd
  <2> QED
    BY <2>1, BoundsAssumption DEF PeerType
<1> QED
  BY <1>2, <1>3, <1>4 DEF ResetSd, PeerType

\* The card is given up.
LEMMA GivesUpType ==
  ASSUME ProgramType, PeerType, GivesUp
  PROVE  ProgramType' /\ PeerType'
<1>1. ProgramType'
  BY ReturnsType DEF GivesUp
<1>2. AfterCmd15(card) \in CardType /\ card \in CardType
  BY DEF PeerType, AfterCmd15, CardType, CardStates
<1> QED
  BY <1>1, <1>2, ResetType DEF GivesUp

\* The loop of init_sd goes on, or ends.
LEMMA NextTrialType ==
  ASSUME ProgramType, NEW count \in Nat, NEW voltage \in BOOLEAN, NextTrial(count, voltage)
  PROVE  ProgramType'
<1>1. "cid" \in Commands
  BY DEF Commands
<1>2. CASE count <= MaxTrial /\ ~voltage /\ SendsApp("opCond") /\ trial' = count
  <2>1. trial' \in 0 .. MaxTrial
    BY <1>2, BoundsAssumption
  <2> QED
    BY <1>2, <2>1, SendsAppType
<1>3. CASE Sends("cid") /\ UNCHANGED loopKeeps
  BY <1>1, <1>3, SendsOnType
<1>4. CASE Returns("error")
  BY <1>4, ReturnsType
<1> QED
  BY <1>2, <1>3, <1>4 DEF NextTrial

-----------------------------------------------------------------------------
(* What an answer does.                                                    *)

AnswerKeeps == /\ cmd \in Commands /\ cmd' = "none" /\ faults' \in faults .. MaxFaults
               /\ UNCHANGED <<pc, op, lo, hi, SD, left, trial, then, buffer, ret, inited,
                              dpsm, sta, wide, kind, wrote>>

\* The card has not had the command, or is silent about it.
Silent ==
  /\ \E b \in BOOLEAN : card' = [card EXCEPT !.illegal = b]
  /\ mem' = mem /\ resp' = Timeout
  /\ Obeys(cmd) => faults' > 0

\* The card obeys; the driver hears so, unless there is a fault.
Obeyed(up) ==
  /\ Obeys(cmd)
  /\ card' = [state   |-> IF OutOfRange(cmd) THEN card.state ELSE StateAfter(cmd, up),
              app     |-> cmd = "appCmd",
              illegal |-> FALSE,
              wide    |-> card.wide \/ cmd = "width",
              multi   |-> cmd \in {"readN", "writeN"} \/
                            (cmd \in {"status", "appCmd"} /\ card.multi),
              rca     |-> IF cmd = "rca" THEN 1 ELSE card.rca]
  /\ mem' = IF cmd = "erase" THEN [l \in Lbas |-> IF l \in EraseExtent THEN 0 ELSE mem[l]]
                             ELSE mem
  /\ \/ resp' = Answered(cmd, up)
     \/ resp' \in {Timeout, Garbled} /\ faults' > 0

\* Every answer is one of the two.
LEMMA AnswerCases ==
  ASSUME TypeOK, Answer
  PROVE  AnswerKeeps /\ (Silent \/ \E up \in BOOLEAN : Obeyed(up))
<1>0. PeerType /\ ProgramType /\ faults \in Nat /\ MaxFaults \in Nat
  BY TypeParts, BoundsAssumption DEF PeerType
<1>1. PICK fault \in {"none", "lost", "mute", "garbled"}, up \in BOOLEAN :
        /\ fault # "none" => faults < MaxFaults
        /\ fault = "garbled" => cmd # "opCond"
        /\ faults' = faults + (IF fault = "none" THEN 0 ELSE 1)
        /\ LET obeyed   == fault # "lost" /\ Obeys(cmd)
               executed == obeyed /\ ~OutOfRange(cmd)
           IN /\ card' = IF ~obeyed
                          THEN [card EXCEPT !.illegal = (@ \/ fault # "lost")]
                          ELSE [state   |-> IF executed THEN StateAfter(cmd, up)
                                                        ELSE card.state,
                                app     |-> cmd = "appCmd",
                                illegal |-> FALSE,
                                wide    |-> card.wide \/ cmd = "width",
                                multi   |-> cmd \in {"readN", "writeN"} \/
                                              (cmd \in {"status", "appCmd"} /\ card.multi),
                                rca     |-> IF cmd = "rca" THEN 1 ELSE card.rca]
              /\ mem' = IF executed /\ cmd = "erase"
                         THEN [l \in Lbas |-> IF l \in EraseExtent THEN 0 ELSE mem[l]]
                         ELSE mem
              /\ resp' = CASE obeyed /\ fault = "none"    -> Answered(cmd, up)
                           [] obeyed /\ fault = "garbled" -> Garbled
                           [] OTHER -> Timeout
  BY Zenon DEF Answer
<1>2. cmd \in Commands /\ cmd' = "none"
  BY <1>0 DEF Answer, ProgramType
<1>3. faults' \in faults .. MaxFaults /\ (fault # "none" => faults' > 0)
  BY <1>0, <1>1 DEF PeerType
<1>4. AnswerKeeps
  BY <1>2, <1>3 DEF AnswerKeeps, Answer, driverVars
<1>5. CASE fault # "lost" /\ Obeys(cmd)
  <2>1. ~(cmd = "erase" /\ OutOfRange(cmd))
    BY DEF OutOfRange, DataCommands
  <2>2. \/ resp' = Answered(cmd, up)
        \/ resp' \in {Timeout, Garbled} /\ faults' > 0
    <3>1. CASE fault = "none"
      BY <1>1, <1>5, <3>1
    <3>2. CASE fault = "garbled"
      BY <1>1, <1>3, <1>5, <3>2
    <3>3. CASE fault = "mute"
      BY <1>1, <1>3, <1>5, <3>3
    <3> QED
      BY <1>1, <1>5, <3>1, <3>2, <3>3
  <2>3. Obeyed(up)
    BY <1>1, <1>5, <2>1, <2>2 DEF Obeyed
  <2> QED
    BY <1>4, <2>3
<1>6. CASE ~(fault # "lost" /\ Obeys(cmd))
  <2>1. resp' = Timeout /\ mem' = mem
    BY <1>1, <1>6
  <2>2. \E b \in BOOLEAN : card' = [card EXCEPT !.illegal = b]
    <3>1. card' = [card EXCEPT !.illegal = (card.illegal \/ fault # "lost")]
      BY <1>1, <1>6
    <3> QED
      BY <3>1, Zenon
  <2>3. Obeys(cmd) => faults' > 0
    BY <1>3, <1>6
  <2> QED
    BY <1>4, <2>1, <2>2, <2>3 DEF Silent
<1> QED
  BY <1>5, <1>6

\* Where a command leaves the card.
LEMMA StateAfterType ==
  ASSUME card \in CardType, NEW c \in Commands, NEW up \in BOOLEAN
  PROVE  StateAfter(c, up) \in CardStates
BY DEF CardType, CardStates, StateAfter

\* The answer of a card that obeys is a response; its verdict is "ok" only for a
\* command that the card has executed.
LEMMA AnsweredType ==
  ASSUME card \in CardType, NEW c \in Commands, NEW up \in BOOLEAN
  PROVE  /\ Answered(c, up) \in RespType /\ Answered(c, up) # NoResp
         /\ Answered(c, up).state = card.state
         /\ Answered(c, up).r = "ok" => ~OutOfRange(c)
         /\ Answered(c, up).app <=> c = "appCmd"
         /\ c # "opCond" /\ ~card.illegal /\ ~OutOfRange(c) => Answered(c, up).r = "ok"
         /\ c \in {"ifCond", "cid", "csd"} => Answered(c, up).r = "ok"
<1> DEFINE verdict == CASE c = "opCond" -> IF up /\ kind # "V1" THEN "ok" ELSE "busy"
                        [] c \notin {"ifCond", "cid", "csd"} /\ card.illegal -> "illegal"
                        [] OutOfRange(c) -> "range"
                        [] OTHER -> "ok"
<1>1. verdict \in {"ok", "busy", "illegal", "range"}
  OBVIOUS
<1>2. (c = "appCmd") \in BOOLEAN /\ card.state \in CardStates
  BY DEF CardType
<1>3. verdict = "ok" => ~OutOfRange(c)
  BY DEF OutOfRange, DataCommands
<1>4. c # "opCond" /\ ~card.illegal /\ ~OutOfRange(c) => verdict = "ok"
  OBVIOUS
<1>5. c \in {"ifCond", "cid", "csd"} => verdict = "ok"
  BY DEF OutOfRange, DataCommands
<1>6. Answered(c, up) = [r |-> verdict, state |-> card.state, app |-> c = "appCmd"]
  BY DEF Answered
<1> HIDE DEF verdict
<1>7. Answered(c, up) \in RespType /\ Answered(c, up).r = verdict
  BY <1>1, <1>2, <1>6 DEF RespType
<1>8. verdict # "none"
  BY <1>1
<1>9. Answered(c, up) # NoResp
  BY <1>7, <1>8, NoRespType
<1>10. Answered(c, up).state = card.state
  BY <1>6
<1>11. \A b \in BOOLEAN : [r |-> verdict, state |-> card.state, app |-> b].app = b
  OBVIOUS
<1>12. Answered(c, up).app <=> c = "appCmd"
  BY <1>2, <1>6, <1>11, Zenon
<1> QED
  BY <1>3, <1>4, <1>5, <1>7, <1>9, <1>10, <1>12

-----------------------------------------------------------------------------
(* Addresses.                                                              *)

\* A block number times an even length is even.
LEMMA EvenProduct ==
  ASSUME NEW a \in Nat, NEW b \in Nat, b % 2 = 0
  PROVE  (a * b) % 2 = 0
<1>1. PICK c \in Nat : b = 2 * c
  OBVIOUS
<1>2. a * b = 2 * (a * c) /\ a * c \in Nat
  BY <1>1
<1>3. \A k \in Nat : (2 * k) % 2 = 0
  OBVIOUS
<1> QED
  BY <1>2, <1>3

\* ... and stays even in a word.
LEMMA EvenRest ==
  ASSUME NEW a \in Nat, a % 2 = 0, NEW w \in Nat \ {0}, w % 2 = 0
  PROVE  (a % w) % 2 = 0
<1>1. PICK q \in Nat, r \in Nat : a = q * w + r /\ r = a % w
  BY DivMod
<1>2. PICK c \in Nat, t \in Nat : a = 2 * c /\ w = 2 * t
  OBVIOUS
<1>3. q * w = 2 * (q * t) /\ q * t \in Nat
  BY <1>2
<1>4. \A m \in Nat, n \in Nat : 2 * m = 2 * n + r => r % 2 = 0
  BY <1>1
<1> QED
  BY <1>1, <1>2, <1>3, <1>4

\* Addresses are natural numbers; the second of two blocks that end in an even
\* capacity is on the card if the first is.
LEMMA AddressType ==
  ASSUME TypeOK, NEW c
  PROVE  /\ \A m \in Blocks : Argument(c, m) \in Nat
         /\ ArgumentOf(c) \in Nat
         /\ op \in Two /\ hi = lo + 1 /\ c # "eraseEnd" /\ ArgumentOf(c) < Capacity =>
              ArgumentOf(c) + 1 < Capacity
<1>1. BlockLen \in Nat /\ NBlocks \in Nat /\ Capacity \in Nat /\ NBlocks < Capacity
  BY BlocksAssumption
<1>2. \A m \in Nat : m * BlockLen \in Nat /\ (m * BlockLen) % Word \in Nat
  <2>1. \A a \in Nat : a % Word \in Nat
    BY DivMod, BlocksAssumption
  <2> QED
    BY <1>1, <2>1
<1>3. lo \in Blocks /\ hi \in Blocks /\ Blocks \subseteq Nat /\ hi < NBlocks /\ lo \in Nat
  BY <1>1 DEF TypeOK, Blocks
<1>4. \A m \in Nat : Argument(c, m) \in {m, (m * BlockLen) % Word} /\ Argument(c, m) \in Nat
  BY <1>2 DEF Argument, Scaled
<1>5. ArgumentOf(c) \in Nat
  BY <1>3, <1>4 DEF ArgumentOf
<1>6. ASSUME op \in Two, hi = lo + 1, ArgumentOf(c) < Capacity, c # "eraseEnd"
      PROVE  ArgumentOf(c) + 1 < Capacity
  <2>1. ArgumentOf(c) = lo \/ ArgumentOf(c) = (lo * BlockLen) % Word
    BY <1>3, <1>4, <1>6 DEF ArgumentOf
  <2>2. CASE ArgumentOf(c) = lo
    BY <1>1, <1>3, <1>6, <2>2
  <2>3. CASE ArgumentOf(c) = (lo * BlockLen) % Word
    <3>1. ((lo * BlockLen) % Word) % 2 = 0 /\ Capacity % 2 = 0
      BY <1>1, <1>2, <1>3, EvenProduct, EvenRest, BlocksAssumption
    <3>2. ArgumentOf(c) % 2 = 0 /\ ArgumentOf(c) \in Nat /\ Capacity % 2 = 0
      BY <1>5, <2>3, <3>1
    <3> HIDE DEF ArgumentOf
    <3> QED
      BY <1>1, <1>6, <3>2
  <2> QED
    BY <2>1, <2>2, <2>3
<1> QED
  BY <1>3, <1>4, <1>5, <1>6

\* The blocks of an accepted transfer, and of an accepted erase, are on the card.
LEMMA ExtentType ==
  ASSUME TypeOK, CallInPhase
  PROVE  /\ op \in Reads \cup Writes /\ ArgumentOf(DataCommand) < Capacity =>
              Extent \subseteq Lbas
         /\ ArgumentOf("eraseEnd") < Capacity => EraseExtent \subseteq Lbas
<1>1. Capacity \in Nat /\ ArgumentOf(DataCommand) \in Nat /\ ArgumentOf("eraseEnd") \in Nat
  BY AddressType, BlocksAssumption
<1>2. lo \in Blocks /\ hi \in Blocks
  BY BlocksAssumption DEF TypeOK, Blocks
<1>3. ASSUME op \in Reads \cup Writes, ArgumentOf(DataCommand) < Capacity
      PROVE  Extent \subseteq Lbas
  <2>1. CASE op \in {"read1", "write1"}
    BY <1>1, <1>3, <2>1 DEF Extent, Lbas
  <2>2. CASE op \in Two
    <3>1. DataCommand # "eraseEnd" /\ hi = lo + 1
      BY <2>2 DEF DataCommand, Two, CallInPhase
    <3>2. ArgumentOf(DataCommand) + 1 < Capacity
      BY <1>3, <2>2, <3>1, AddressType
    <3> QED
      BY <1>1, <1>3, <3>2 DEF Extent, Lbas
  <2> QED
    BY <1>3, <2>1, <2>2 DEF Reads, Writes, Two
<1>4. ASSUME ArgumentOf("eraseEnd") < Capacity
      PROVE  EraseExtent \subseteq Lbas
  <2>1. Argument("eraseStart", lo) \in Nat /\ Argument("eraseEnd", hi) \in Nat
    BY <1>2, AddressType
  <2>2. Argument("eraseEnd", hi) < Capacity
    BY <1>4 DEF ArgumentOf
  <2> QED
    BY <1>1, <2>1, <2>2 DEF EraseExtent, Lbas
<1> QED
  BY <1>3, <1>4

-----------------------------------------------------------------------------
(* Type correctness.                                                       *)

\* The flags are some of the flags, whatever is set or cleared.
LEMMA FlagsType ==
  ASSUME sta \subseteq DataFlags
  PROVE  /\ ClearDataFlags => sta' \subseteq {"STBITERR"} /\ sta' \subseteq DataFlags
         /\ \A f \in SUBSET DataFlags : \A s : Stops(f, s) => sta' \subseteq DataFlags
BY DEF ClearDataFlags, ClearedMask, DataFlags, Stops

\* A transfer that stops, with these flags and the card in this state.
LEMMA StopsType ==
  ASSUME TypeOK, NEW f \in SUBSET DataFlags, NEW s \in CardStates, Stops(f, s),
         faults' \in 0 .. MaxFaults, DOMAIN buffer' \subseteq Lbas,
         mem' \in [Lbas -> {0, 1}]
  PROVE  TypeOK'
<1>1. ProgramType /\ DataType /\ PeerType
  BY TypeParts
<1>2. ProgramType'
  BY <1>1 DEF ProgramType, Stops, DataPathKeeps
<1>3. sta' \subseteq DataFlags /\ dpsm' = "off"
  BY <1>1 DEF Stops, DataType
<1>4. card' \in CardType
  BY <1>1 DEF Stops, CardType, PeerType
<1>5. DataType' /\ PeerType'
  BY <1>1, <1>3, <1>4 DEF DataType, PeerType, Stops, DataPathKeeps
<1> QED
  BY <1>2, <1>5, TypeParts

\* The state in which the end of a transfer leaves the card.
LEMMA EndingType ==
  ASSUME TypeOK
  PROVE  Ending("tran") \in CardStates /\ Ending("prg") \in CardStates
BY DEF TypeOK, Ending, CardStates

\* What the hardware does has its types.
LEMMA HardwareType == ASSUME IInv, Hardware PROVE TypeOK'
<1>0. TypeOK /\ ProgramType /\ DataType /\ PeerType /\ CallInPhase /\ InRange
  BY TypeParts DEF IInv
<1>1. CASE Answer
  <2>1. AnswerKeeps /\ (Silent \/ \E up \in BOOLEAN : Obeyed(up))
    BY <1>0, <1>1, AnswerCases
  <2>2. cmd' \in Commands \cup {"none"} /\ faults' \in 0 .. MaxFaults
    BY <1>0, <2>1, BoundsAssumption DEF AnswerKeeps, PeerType
  <2>3. card' \in CardType /\ resp' \in RespType /\ mem' \in [Lbas -> {0, 1}]
    <3>1. CASE Silent
      BY <1>0, <3>1, SilenceType DEF Silent, CardType, PeerType
    <3>2. ASSUME NEW up \in BOOLEAN, Obeyed(up)
          PROVE  card' \in CardType /\ resp' \in RespType /\ mem' \in [Lbas -> {0, 1}]
      <4>1. card \in CardType /\ cmd \in Commands
        BY <1>0, <2>1 DEF PeerType, AnswerKeeps
      <4>2. resp' \in RespType
        BY <3>2, <4>1, AnsweredType, SilenceType DEF Obeyed
      <4>3. StateAfter(cmd, up) \in CardStates /\ card.state \in CardStates
        BY <4>1, StateAfterType DEF CardType
      <4> DEFINE st == IF OutOfRange(cmd) THEN card.state ELSE StateAfter(cmd, up)
                 ap == cmd = "appCmd"
                 wd == card.wide \/ cmd = "width"
                 mu == cmd \in {"readN", "writeN"} \/ (cmd \in {"status", "appCmd"} /\ card.multi)
                 ra == IF cmd = "rca" THEN 1 ELSE card.rca
      <4>4. ap \in BOOLEAN /\ wd \in BOOLEAN /\ mu \in BOOLEAN
        BY Zenon
      <4>5. st \in CardStates /\ ra \in {0, 1}
        BY <4>1, <4>3 DEF CardType
      <4>6. card' = [state |-> st, app |-> ap, illegal |-> FALSE, wide |-> wd, multi |-> mu,
                     rca |-> ra]
        BY <3>2 DEF Obeyed
      <4> HIDE DEF st, ap, wd, mu, ra
      <4>7. card' \in CardType
        BY <4>4, <4>5, <4>6 DEF CardType
      <4>8. mem' \in [Lbas -> {0, 1}]
        BY <1>0, <3>2 DEF Obeyed, PeerType
      <4> QED
        BY <4>2, <4>7, <4>8
    <3> QED
      BY <2>1, <3>1, <3>2
  <2>4. ProgramType' /\ DataType' /\ PeerType'
    BY <1>0, <2>1, <2>2, <2>3 DEF ProgramType, DataType, PeerType, AnswerKeeps
  <2> QED
    BY <2>4, TypeParts
<1>2. CASE Progress
  <2>1. card' \in CardType
    BY <1>0, <1>2 DEF Progress, PeerType, CardType, CardStates
  <2>2. ProgramType' /\ DataType' /\ PeerType'
    BY <1>0, <1>2, <2>1 DEF ProgramType, DataType, PeerType, Progress, driverVars
  <2> QED
    BY <2>2, TypeParts
<1>3. CASE Receive
  <2>1. op \in Reads \cup Writes /\ ArgumentOf(DataCommand) < Capacity
    BY <1>0, <1>3 DEF Receive, CallInPhase, InRange
  <2>2. Extent \subseteq Lbas
    BY <1>0, <2>1, ExtentType
  <2>3. DOMAIN buffer' \subseteq Lbas
    BY <1>0, <1>3, <2>2 DEF Receive, DataType
  <2>4. faults' \in 0 .. MaxFaults /\ mem' \in [Lbas -> {0, 1}]
    BY <1>0, <1>3, BoundsAssumption DEF Receive, Fault, PeerType
  <2>5. PICK f \in SUBSET DataFlags : Stops(f, Ending("tran"))
    BY <1>3 DEF Receive, DataFlags, EndOfData
  <2> QED
    BY <1>0, <2>3, <2>4, <2>5, EndingType, StopsType
<1>4. CASE LateReceive
  <2>1. faults' \in 0 .. MaxFaults /\ mem' \in [Lbas -> {0, 1}] /\ DOMAIN buffer' \subseteq Lbas
    BY <1>0, <1>4 DEF LateReceive, PeerType, DataType
  <2>2. PICK f \in SUBSET DataFlags, s \in {Ending("tran"), card.state} : Stops(f, s)
    BY <1>4 DEF LateReceive, DataFlags
  <2>3. s \in CardStates
    BY <1>0, EndingType DEF PeerType, CardType
  <2> QED
    BY <1>0, <2>1, <2>2, <2>3, StopsType
<1>5. CASE Transmit
  <2>1. faults' \in 0 .. MaxFaults /\ DOMAIN buffer' \subseteq Lbas
    BY <1>0, <1>5, BoundsAssumption DEF Transmit, Fault, PeerType, DataType
  <2>2. mem' \in [Lbas -> {0, 1}]
    <3>1. \A ones : Stored(ones) \in [Lbas -> {0, 1}]
      BY <1>0 DEF Stored, PeerType
    <3>2. \E ones : mem' = Stored(ones)
      BY <1>5 DEF Transmit
    <3> QED
      BY <3>1, <3>2
  <2>3. PICK f \in SUBSET DataFlags, s \in {Ending("prg"), card.state} : Stops(f, s)
    <3>1. CASE Stops(EndOfData, Ending("prg"))
      <4>1. EndOfData \in SUBSET DataFlags
        BY DEF DataFlags, EndOfData
      <4> QED
        BY <3>1, <4>1
    <3>2. ASSUME NEW f \in {"DTIMEOUT", "DCRCFAIL", "TXUNDERR"}, NEW moved \in SUBSET {"TCIF"},
                 Stops({f} \cup moved, IF f = "TXUNDERR" THEN card.state ELSE Ending("prg"))
          PROVE  \E g \in SUBSET DataFlags, s \in {Ending("prg"), card.state} : Stops(g, s)
      <4>1. {f} \cup moved \in SUBSET DataFlags
        BY DEF DataFlags
      <4> QED
        BY <3>2, <4>1
    <3>3. \/ Stops(EndOfData, Ending("prg"))
          \/ \E f \in {"DTIMEOUT", "DCRCFAIL", "TXUNDERR"}, moved \in SUBSET {"TCIF"} :
               Stops({f} \cup moved, IF f = "TXUNDERR" THEN card.state ELSE Ending("prg"))
      BY <1>5 DEF Transmit
    <3> QED
      BY <3>1, <3>2, <3>3
  <2>4. s \in CardStates
    BY <1>0, EndingType DEF PeerType, CardType
  <2> QED
    BY <1>0, <2>1, <2>2, <2>3, <2>4, StopsType
<1>6. CASE StreamEnds
  <2>1. mem' \in [Lbas -> {0, 1}]
    BY <1>0, <1>6 DEF StreamEnds, Stored, PeerType
  <2>2. sta' \subseteq DataFlags
    BY <1>0, <1>6 DEF StreamEnds, DataType, DataFlags
  <2>3. ProgramType'
    BY <1>0, <1>6 DEF StreamEnds, ProgramType, DataPathKeeps
  <2>4. DataType' /\ PeerType'
    BY <1>0, <1>6, <2>1, <2>2 DEF StreamEnds, DataType, PeerType, DataPathKeeps
  <2> QED
    BY <2>3, <2>4, TypeParts
<1>7. CASE Drain
  <2>1. faults' \in 0 .. MaxFaults /\ mem' \in [Lbas -> {0, 1}] /\ DOMAIN buffer' \subseteq Lbas
    BY <1>0, <1>7, BoundsAssumption DEF Drain, Fault, PeerType, DataType
  <2>2. PICK f \in SUBSET DataFlags : Stops(f, card.state)
    BY <1>7 DEF Drain, DataFlags, EndOfData
  <2>3. card.state \in CardStates
    BY <1>0 DEF PeerType, CardType
  <2> QED
    BY <1>0, <2>1, <2>2, <2>3, StopsType
<1> QED
  BY <1>1, <1>2, <1>3, <1>4, <1>5, <1>6, <1>7 DEF Hardware

\* What hear of a response, and what a call, keep of the parts that they leave alone.
LEMMA KeepsType ==
  ASSUME TypeOK
  PROVE  /\ UNCHANGED <<callKeeps, buffer, wide, dpsm>> /\ sta' \subseteq DataFlags => DataType'
         /\ SD' \in SdType /\ UNCHANGED cardKeeps => PeerType'
         /\ UNCHANGED <<SD, cardKeeps>> => PeerType'
         /\ Heard \in SdType
<1>1. DataType /\ PeerType /\ SD \in SdType /\ resp \in RespType
  BY TypeParts DEF PeerType, ProgramType
<1>2. Heard \in SdType
  BY <1>1, HeardType
<1> QED
  BY <1>1, <1>2 DEF DataType, PeerType, callKeeps, cardKeeps

\* The end of a transfer.
LEMMA ConcludesType ==
  ASSUME TypeOK, Concludes
  PROVE  ProgramType' /\ sta' \subseteq DataFlags
<1>1. ProgramType /\ sta \subseteq DataFlags
  BY TypeParts DEF DataType
<1>2. sta' \subseteq DataFlags
  BY <1>1, FlagsType DEF Concludes
<1>3. Returns("error") \/ Returns("ok") \/ WaitsReady("return")
  BY DEF Concludes
<1>4. ProgramType'
  BY <1>1, <1>3, ReturnsType, WaitsType
<1> QED
  BY <1>2, <1>4

\* What the steps of the initialisation do has its types.
LEMMA InitStepsType ==
  ASSUME IInv, \/ OnIfCond \/ OnAppCmd \/ OnOpCond \/ OnCid \/ OnRca
               \/ OnCsd \/ OnSelect \/ OnWidth
  PROVE  TypeOK'
<1>0. TypeOK /\ ProgramType /\ DataType /\ PeerType /\ CallInPhase
  BY TypeParts DEF IInv
<1>1. DataType'
  <2>1. UNCHANGED <<callKeeps, buffer, dpsm, sta>>
    BY DEF OnIfCond, OnAppCmd, OnOpCond, OnCid, OnRca, OnCsd, OnSelect, OnWidth, GivesUp, sdioKeeps
  <2>2. wide' \in BOOLEAN
    <3>1. wide' = wide \/ wide' = TRUE
      BY DEF OnIfCond, OnAppCmd, OnOpCond, OnCid, OnRca, OnCsd, OnSelect, OnWidth, GivesUp, sdioKeeps
    <3> QED
      BY <1>0, <3>1, Zenon DEF DataType
  <2> QED
    BY <1>0, <2>1, <2>2 DEF DataType, callKeeps
<1>2. card \in CardType /\ SD.voltage \in BOOLEAN /\ SD \in SdType /\ trial \in Nat
      /\ {"cid", "rca", "csd", "select", "width", "appCmd", "opCond"} \subseteq Commands
  BY <1>0, BoundsAssumption DEF PeerType, SdType, ProgramType, Commands
<1>3. CASE OnIfCond
  <2>1. ProgramType'
    <3>1. NextTrial(1, SD.voltage) \/ Returns("error")
      BY <1>3 DEF OnIfCond
    <3> QED
      BY <1>0, <1>2, <3>1, NextTrialType, ReturnsType
  <2>2. PeerType'
    <3>1. CASE ResetSd(card, 0)
      BY <1>0, <1>2, <3>1, ResetType
    <3>2. CASE SD' = [SD EXCEPT !.version = "V2"] /\ UNCHANGED cardKeeps
      <4>1. SD' \in SdType
        BY <1>2, <3>2 DEF SdType
      <4> QED
        BY <1>0, <3>2, <4>1, KeepsType
    <3>3. CASE UNCHANGED <<SD, cardKeeps>>
      BY <1>0, <3>3, KeepsType
    <3> QED
      BY <1>3, <3>1, <3>2, <3>3 DEF OnIfCond
  <2> QED
    BY <1>1, <2>1, <2>2, TypeParts
<1>4. CASE OnAppCmd
  <2>1. PeerType'
    BY <1>0, <1>4, KeepsType DEF OnAppCmd
  <2>2. then \in {"opCond", "width"}
    BY <1>0, <1>4 DEF OnAppCmd, On, CallInPhase
  <2>3. CASE Ok /\ Sends(then) /\ UNCHANGED loopKeeps
    <3>1. then \in Commands
      BY <2>2 DEF Commands
    <3>2. ProgramType'
      BY <1>0, <2>3, <3>1, SendsOnType
    <3> QED
      BY <1>1, <2>1, <3>2, TypeParts
  <2>4. CASE left > 1 /\ Sends("appCmd") /\ left' = left - 1 /\ UNCHANGED <<trial, then>>
    <3>1. left' \in 0 .. (IF MaxApp > MaxWait THEN MaxApp ELSE MaxWait)
      BY <1>0, <2>4, BoundsAssumption DEF ProgramType
    <3>2. ProgramType'
      BY <1>0, <1>2, <2>4, <3>1, SendsType DEF ProgramType
    <3> QED
      BY <1>1, <2>1, <3>2, TypeParts
  <2>5. CASE Returns("error")
    BY <1>0, <1>1, <2>1, <2>5, ReturnsType, TypeParts
  <2>6. CASE /\ pc' = "width" /\ cmd' = "none" /\ resp' = NoResp
             /\ UNCHANGED <<ret, inited, wrote, loopKeeps>>
    <3>1. ProgramType'
      BY <1>0, <1>2, <2>6, NoRespType DEF ProgramType, loopKeeps
    <3> QED
      BY <1>1, <2>1, <3>1, TypeParts
  <2> QED
    BY <1>4, <2>3, <2>4, <2>5, <2>6 DEF OnAppCmd
<1>5. CASE OnOpCond
  <2>1. CASE GivesUp
    BY <1>0, <1>1, <2>1, GivesUpType, TypeParts
  <2>2. CASE /\ SD' = [SD EXCEPT !.state = "ready", !.voltage = TRUE,
                                 !.version = IF kind = "UHS2" THEN "SDXC" ELSE "SDSC"]
             /\ NextTrial(trial + 1, TRUE) /\ UNCHANGED cardKeeps
    <3>1. SD' \in SdType
      BY <1>2, <2>2 DEF SdType, CardStates
    <3>2. PeerType'
      BY <1>0, <2>2, <3>1, KeepsType
    <3>3. ProgramType'
      <4>1. trial + 1 \in Nat /\ TRUE \in BOOLEAN
        BY <1>2
      <4> QED
        BY <1>0, <2>2, <4>1, NextTrialType
    <3> QED
      BY <1>1, <3>2, <3>3, TypeParts
  <2>3. CASE NextTrial(trial + 1, SD.voltage) /\ UNCHANGED <<SD, cardKeeps>>
    BY <1>0, <1>1, <1>2, <2>3, KeepsType, NextTrialType, TypeParts
  <2> QED
    BY <1>5, <2>1, <2>2, <2>3 DEF OnOpCond
<1>6. CASE OnCid \/ OnRca \/ OnWidth
  <2>1. CASE GivesUp
    BY <1>0, <1>1, <2>1, GivesUpType, TypeParts
  <2>2. CASE ~GivesUp
    <3>1. \/ Sends("rca") /\ UNCHANGED <<SD, loopKeeps>>
          \/ Sends("csd") /\ SD' = [Heard EXCEPT !.RCA = 1] /\ UNCHANGED loopKeeps
          \/ Returns("ok") /\ SD' = Heard
      BY <1>6, <2>2 DEF OnCid, OnRca, OnWidth
    <3>2. ProgramType'
      BY <1>0, <1>2, <3>1, SendsOnType, ReturnsType
    <3>3. SD' \in SdType
      BY <1>0, <1>2, <3>1, KeepsType DEF SdType
    <3>4. UNCHANGED cardKeeps
      BY <1>6, <2>2 DEF OnCid, OnRca, OnWidth
    <3> QED
      BY <1>0, <1>1, <3>2, <3>3, <3>4, KeepsType, TypeParts
  <2> QED
    BY <2>1, <2>2
<1>7. CASE OnCsd
  <2>1. ProgramType'
    BY <1>0, <1>2, <1>7, SendsOnType, ReturnsType DEF OnCsd
  <2> QED
    BY <1>0, <1>1, <1>7, <2>1, KeepsType, TypeParts DEF OnCsd
<1>8. CASE OnSelect
  <2>1. PeerType'
    BY <1>0, <1>8, KeepsType DEF OnSelect
  <2>2. CASE SendsApp("width") /\ UNCHANGED trial
    <3>1. trial' \in 0 .. MaxTrial
      BY <1>0, <2>2 DEF ProgramType
    <3> QED
      BY <1>0, <1>1, <2>1, <2>2, <3>1, SendsAppType, TypeParts
  <2>3. CASE WaitsReady("selected")
    BY <1>0, <1>1, <2>1, <2>3, WaitsType, TypeParts
  <2>4. CASE Returns("error")
    BY <1>0, <1>1, <2>1, <2>4, ReturnsType, TypeParts
  <2> QED
    BY <1>8, <2>2, <2>3, <2>4 DEF OnSelect
<1> QED
  BY <1>3, <1>4, <1>5, <1>6, <1>7, <1>8

\* What a call of the application does has its types.
LEMMA CallsType == ASSUME IInv, Calls PROVE TypeOK'
<1>0. TypeOK /\ ProgramType /\ DataType /\ PeerType /\ NBlocks \in Nat \ {0, 1}
      /\ Capacity \in Nat
  BY TypeParts, BlocksAssumption DEF IInv
<1>1. DOMAIN NoData \subseteq Lbas
  BY DEF NoData
<1>2. ASSUME NEW o \in Reads \cup Writes \cup {"erase"}, NEW a \in Blocks,
             NEW b \in a .. NBlocks - 1, Call(o, a, b), ProgramType'
      PROVE  TypeOK'
  <2>1. dpsm' \in {"off", "send", "recv"}
    BY <1>2 DEF Call
  <2>2. DataType' /\ PeerType'
    BY <1>0, <1>1, <1>2, <2>1 DEF Call, DataType, PeerType, cardKeeps
  <2> QED
    BY <1>2, <2>2, TypeParts
<1>3. DataCommands \subseteq Commands /\ {"ifCond", "status"} \subseteq Commands
  BY DEF Commands
<1>4. CASE CallInit
  <2>1. wide' \in BOOLEAN /\ inited' \in BOOLEAN
    BY <1>4, Zenon DEF CallInit
  <2>2. DataType'
    BY <1>0, <1>1, <1>4, <2>1 DEF CallInit, DataType, Blocks
  <2>3. PeerType'
    BY <1>0, <1>4, ResetType DEF CallInit, PeerType
  <2>4. ProgramType'
    BY <1>0, <1>3, <1>4, <2>1, NoRespType DEF CallInit, ProgramType, loopKeeps
  <2> QED
    BY <2>2, <2>3, <2>4, TypeParts
<1>5. ASSUME NEW o \in {"read1", "write1"}, NEW m \in Blocks, CallOne(o, m)
      PROVE  TypeOK'
  <2>1. ProgramType'
    BY <1>0, <1>3, <1>5, SendsOnType DEF CallOne, DataCommands
  <2>2. o \in Reads \cup Writes \cup {"erase"} /\ m \in m .. NBlocks - 1
    BY <1>0 DEF Reads, Writes, Blocks
  <2> QED
    BY <1>2, <1>5, <2>1, <2>2 DEF CallOne
<1>6. ASSUME NEW o \in {"readN", "writeN", "writeDma"}, NEW m \in Blocks \ {NBlocks - 1}, CallTwo(o, m)
      PROVE  TypeOK'
  <2>1. ProgramType'
    BY <1>0, <1>3, <1>6, SendsOnType DEF CallTwo, DataCommands
  <2>2. o \in Reads \cup Writes \cup {"erase"} /\ m \in Blocks /\ m + 1 \in m .. NBlocks - 1
    BY <1>0 DEF Reads, Writes, Blocks
  <2> QED
    BY <1>2, <1>6, <2>1, <2>2 DEF CallTwo
<1>7. ASSUME NEW a \in Blocks, NEW b \in Blocks, CallErase(a, b)
      PROVE  TypeOK'
  <2>1. ProgramType'
    BY <1>0, <1>7, WaitsType DEF CallErase
  <2>2. (IF a > b THEN b ELSE a) \in Blocks
        /\ (IF a > b THEN a ELSE b) \in (IF a > b THEN b ELSE a) .. NBlocks - 1
    BY <1>0 DEF Blocks
  <2>3. "erase" \in Reads \cup Writes \cup {"erase"}
    OBVIOUS
  <2>4. Call("erase", IF a > b THEN b ELSE a, IF a > b THEN a ELSE b)
    BY <1>7 DEF CallErase
  <2> QED
    BY <1>2, <2>1, <2>2, <2>3, <2>4
<1> QED
  BY <1>4, <1>5, <1>6, <1>7 DEF Calls

\* What the steps of transfers and erases do has its types.
LEMMA TransferStepsType ==
  ASSUME IInv, OnTransfer \/ EndData \/ EndDma \/ OnStop \/ OnErase \/ OnStatus
  PROVE  TypeOK'
<1>0. TypeOK /\ ProgramType /\ DataType /\ PeerType /\ CallInPhase
      /\ sta \subseteq DataFlags /\ Heard \in SdType
      /\ {"stop", "status", "eraseStart", "eraseEnd", "erase"} \subseteq Commands
  BY TypeParts, KeepsType DEF IInv, DataType, Commands
<1>1. PeerType'
  <2>1. UNCHANGED cardKeeps /\ (SD' = SD \/ SD' = Heard)
    BY DEF OnTransfer, EndData, EndDma, OnStop, OnErase, OnStatus
  <2> QED
    BY <1>0, <2>1, KeepsType DEF cardKeeps
<1>2. ASSUME sta' \in {sta} \cup SUBSET DataFlags, dpsm' \in {dpsm, "recv"} PROVE DataType'
  <2>1. UNCHANGED <<callKeeps, buffer, wide>>
    BY DEF OnTransfer, EndData, EndDma, OnStop, OnErase, OnStatus
  <2> QED
    BY <1>0, <1>2, <2>1 DEF DataType, callKeeps
<1>3. ASSUME StopsOrConcludes PROVE ProgramType' /\ sta' \in {sta} \cup SUBSET DataFlags
  BY <1>0, <1>3, SendsOnType, ConcludesType DEF StopsOrConcludes
<1>4. ASSUME ClearDataFlags PROVE sta' \in {sta} \cup SUBSET DataFlags
  BY <1>0, <1>4, FlagsType
<1>5. CASE OnTransfer
  <2>1. DataType'
    <3>1. dpsm' \in {dpsm, "recv"} /\ sta' = sta
      BY <1>5 DEF OnTransfer
    <3> QED
      BY <1>2, <3>1
  <2>2. CASE pc' = "data" /\ resp' = NoResp /\ UNCHANGED <<cmd, ret, inited, wrote, loopKeeps>>
    BY <1>0, <1>1, <2>1, <2>2, NoRespType, TypeParts DEF ProgramType, loopKeeps
  <2>3. CASE Returns("error")
    BY <1>0, <1>1, <2>1, <2>3, ReturnsType, TypeParts
  <2> QED
    BY <1>5, <2>2, <2>3 DEF OnTransfer
<1>6. CASE EndData
  <2>1. CASE pc' = "dma" /\ UNCHANGED <<cmd, resp, ret, inited, wrote, sta, loopKeeps>>
    <3>1. ProgramType' /\ sta' = sta /\ dpsm' = dpsm
      BY <1>0, <1>6, <2>1 DEF ProgramType, loopKeeps, EndData
    <3> QED
      BY <1>1, <1>2, <3>1, TypeParts
  <2>2. CASE StopsOrConcludes
    <3>1. dpsm' = dpsm
      BY <1>6 DEF EndData
    <3> QED
      BY <1>1, <1>2, <1>3, <2>2, <3>1, TypeParts
  <2> QED
    BY <1>6, <2>1, <2>2 DEF EndData
<1>7. CASE EndDma
  <2>1. dpsm' = dpsm /\ StopsOrConcludes
    BY <1>7 DEF EndDma
  <2> QED
    BY <1>1, <1>2, <1>3, <2>1, TypeParts
<1>8. CASE OnStop
  <2>1. dpsm' = dpsm
    BY <1>8 DEF OnStop
  <2>2. CASE Concludes
    BY <1>0, <1>1, <1>2, <2>1, <2>2, ConcludesType, TypeParts
  <2>3. CASE WaitsReady("stopped") /\ sta' = sta
    BY <1>0, <1>1, <1>2, <2>1, <2>3, WaitsType, TypeParts
  <2>4. CASE ClearDataFlags /\ Returns("error")
    BY <1>0, <1>1, <1>2, <1>4, <2>1, <2>4, ReturnsType, TypeParts
  <2> QED
    BY <1>8, <2>2, <2>3, <2>4 DEF OnStop
<1>9. CASE OnErase
  <2>1. dpsm' = dpsm
    BY <1>9 DEF OnErase
  <2>2. CASE pc # "erase" /\ Sends(NextErase[pc]) /\ UNCHANGED <<sta, loopKeeps>>
    <3>1. NextErase[pc] \in Commands
      BY <1>0, <1>9, <2>2 DEF OnErase, NextErase
    <3>2. ProgramType'
      BY <1>0, <2>2, <3>1, SendsOnType
    <3> QED
      BY <1>1, <1>2, <2>1, <2>2, <3>2, TypeParts
  <2>3. CASE ClearDataFlags /\ WaitsReady("return")
    BY <1>0, <1>1, <1>2, <1>4, <2>1, <2>3, WaitsType, TypeParts
  <2>4. CASE ClearDataFlags /\ Returns("error")
    BY <1>0, <1>1, <1>2, <1>4, <2>1, <2>4, ReturnsType, TypeParts
  <2> QED
    BY <1>9, <2>2, <2>3, <2>4 DEF OnErase
<1>10. CASE OnStatus
  <2>1. dpsm' = dpsm
    BY <1>10 DEF OnStatus
  <2>2. CASE Ready
    <3>1. CASE Returns("ok") /\ sta' = sta
      BY <1>0, <1>1, <1>2, <2>1, <3>1, ReturnsType, TypeParts
    <3>2. CASE SendsApp("width") /\ UNCHANGED <<sta, trial>>
      <4>1. trial' \in 0 .. MaxTrial
        BY <1>0, <3>2 DEF ProgramType
      <4> QED
        BY <1>0, <1>1, <1>2, <2>1, <3>2, <4>1, SendsAppType, TypeParts
    <3>3. CASE Concludes
      BY <1>0, <1>1, <1>2, <2>1, <3>3, ConcludesType, TypeParts
    <3>4. CASE Sends("eraseStart") /\ UNCHANGED <<sta, loopKeeps>>
      BY <1>0, <1>1, <1>2, <2>1, <3>4, SendsOnType, TypeParts
    <3> QED
      BY <2>2, <3>1, <3>2, <3>3, <3>4 DEF Ready
  <2>3. CASE NotReady
    BY <1>0, <1>1, <1>2, <1>4, <2>1, <2>3, ReturnsType, TypeParts DEF NotReady
  <2>4. CASE left > 1 /\ Sends("status") /\ left' = left - 1 /\ UNCHANGED <<trial, then, sta>>
    <3>1. left' \in 0 .. (IF MaxApp > MaxWait THEN MaxApp ELSE MaxWait)
      BY <1>0, <2>4, BoundsAssumption DEF ProgramType
    <3>2. ProgramType'
      BY <1>0, <2>4, <3>1, SendsType DEF ProgramType
    <3> QED
      BY <1>1, <1>2, <2>1, <2>4, <3>2, TypeParts
  <2> QED
    BY <1>10, <2>2, <2>3, <2>4 DEF OnStatus
<1> QED
  BY <1>5, <1>6, <1>7, <1>8, <1>9, <1>10

\* Every step keeps the types.
LEMMA TypeStep == ASSUME IInv, [Next]_vars PROVE TypeOK'
<1>1. CASE UNCHANGED vars
  BY <1>1 DEF IInv, TypeOK, vars
<1> QED
  BY <1>1, HardwareType, CallsType, InitStepsType, TransferStepsType DEF Next, Step

-----------------------------------------------------------------------------
(* What a step does to the card.                                           *)

\* An answer that is "ok" is that of a card which has executed the command.
LEMMA AnswerOk ==
  ASSUME TypeOK, Answer, resp'.r = "ok"
  PROVE  \E up \in BOOLEAN : Obeyed(up) /\ ~OutOfRange(cmd) /\ card'.state = StateAfter(cmd, up)
<1>1. AnswerKeeps /\ card \in CardType
  BY AnswerCases, TypeParts DEF PeerType
<1>2. ~Silent
  BY SilenceType DEF Silent
<1>3. PICK up \in BOOLEAN : Obeyed(up)
  BY <1>2, AnswerCases
<1>4. resp' = Answered(cmd, up)
  BY <1>3, SilenceType DEF Obeyed
<1>5. ~OutOfRange(cmd)
  BY <1>1, <1>4, AnsweredType DEF AnswerKeeps
<1>6. card'.state = StateAfter(cmd, up)
  BY <1>3, <1>5 DEF Obeyed
<1> QED
  BY <1>3, <1>5, <1>6

OtherHardware == Progress \/ Receive \/ LateReceive \/ Transmit \/ StreamEnds \/ Drain

\* The hardware goes on without an answer: data go through, or the card finishes
\* what it was doing.
LEMMA OtherHardwareCard ==
  ASSUME TypeOK, OtherHardware
  PROVE  /\ UNCHANGED <<pc, op, lo, hi, SD, left, trial, then, ret, inited, cmd, resp,
                        wide, kind, wrote>>
         /\ faults' \in Nat /\ faults' >= faults
         /\ card'.rca = card.rca /\ card'.wide = card.wide
         /\ card'.app = card.app /\ card'.illegal = card.illegal
         /\ card'.state # card.state =>
              \/ card.state \in {"prg", "data"} /\ card'.state = "tran"
              \/ card.state = "rcv" /\ card'.state = "prg" /\ dpsm = "send" /\ dpsm' = "off"
                   /\ pc \in {"data", "dma"}
<1>1. card \in CardType /\ faults \in Nat
  BY TypeParts, BoundsAssumption DEF PeerType
<1>2. \A s \in CardStates : LET c == [card EXCEPT !.state = s] IN
        c.state = s /\ c.rca = card.rca /\ c.wide = card.wide /\ c.app = card.app
          /\ c.illegal = card.illegal
  BY <1>1 DEF CardType
<1>3. CASE Progress
  BY <1>1, <1>2, <1>3 DEF Progress, driverVars, CardStates
<1>4. CASE Receive
  <2>1. card.state = "data" /\ \E f : Stops(f, Ending("tran"))
    BY <1>4 DEF Receive
  <2>2. Ending("tran") \in {"data", "tran"}
    BY <2>1 DEF Ending
  <2>3. faults' \in Nat /\ faults' >= faults
    BY <1>1, <1>4 DEF Receive, Fault
  <2> QED
    BY <1>2, <2>1, <2>2, <2>3 DEF Stops, DataPathKeeps, CardStates
<1>5. CASE LateReceive
  <2>1. \E f, s : Stops(f, s) /\ (s = card.state \/ (card.state = "data" /\ s = "tran"))
    BY <1>5 DEF LateReceive, Ending
  <2>2. faults' = faults /\ card.state \in CardStates
    BY <1>1, <1>5 DEF LateReceive, CardType
  <2> QED
    BY <1>1, <1>2, <2>1, <2>2 DEF Stops, DataPathKeeps, CardStates
<1>6. CASE Transmit
  <2>1. card.state = "rcv" /\ dpsm = "send" /\ pc \in {"data", "dma"}
        /\ \E f, s : Stops(f, s) /\ s \in {card.state, "prg"}
    BY <1>6 DEF Transmit, Ending
  <2>2. faults' \in Nat /\ faults' >= faults
    BY <1>1, <1>6 DEF Transmit, Fault
  <2> QED
    BY <1>2, <2>1, <2>2 DEF Stops, DataPathKeeps, CardStates
<1>7. CASE StreamEnds
  BY <1>1, <1>7 DEF StreamEnds, DataPathKeeps
<1>8. CASE Drain
  <2>1. \E f : Stops(f, card.state)
    BY <1>8 DEF Drain
  <2>2. faults' \in Nat /\ faults' >= faults /\ card.state \in CardStates
    BY <1>1, <1>8 DEF Drain, Fault, CardType
  <2> QED
    BY <1>1, <1>2, <2>1, <2>2 DEF Stops, DataPathKeeps
<1> QED
  BY <1>3, <1>4, <1>5, <1>6, <1>7, <1>8 DEF OtherHardware

\* A reset leaves a fresh card, or the card that has not heard of it.
LEMMA ResetCard ==
  ASSUME TypeOK, NEW c, NEW m \in Nat, ResetSd(c, m)
  PROVE  /\ card' \in {c, FreshCard} /\ faults' \in Nat /\ faults' >= faults
         /\ faults' = 0 => m = 0 /\ faults = 0 /\ (c.state # "ina" => card' = FreshCard)
         /\ SD'.RCA = 0 /\ SD'.voltage = SD.voltage /\ SD'.version = "unknown"
         /\ mem' = mem
<1>1. SD \in SdType /\ faults \in Nat
  BY TypeParts, BoundsAssumption DEF PeerType
<1>2. PICK lost \in {0, 1} : /\ faults' = faults + m + lost
                             /\ card' = IF lost = 1 THEN c ELSE AfterCmd0(c)
  BY DEF ResetSd
<1>3. SD' = [SD EXCEPT !.state = "idle", !.version = "unknown", !.RCA = 0] /\ mem' = mem
  BY DEF ResetSd
<1>4. SD'.RCA = 0 /\ SD'.voltage = SD.voltage /\ SD'.version = "unknown"
  BY <1>1, <1>3 DEF SdType
<1>5. faults' \in Nat /\ faults' >= faults /\ (faults' = 0 => m = 0 /\ faults = 0 /\ lost = 0)
  BY <1>1, <1>2
<1> QED
  BY <1>2, <1>3, <1>4, <1>5 DEF AfterCmd0

\* A card that is given up: so does CMD15, which it may obey.
LEMMA GivesUpCard ==
  ASSUME TypeOK, GivesUp
  PROVE  /\ Returns("error") /\ UNCHANGED <<op, lo, hi, buffer, dpsm, sta, wide>>
         /\ card' \in {card, AfterCmd15(card), FreshCard}
         /\ faults' \in Nat /\ faults' >= faults
         /\ faults' = 0 => faults = 0 /\ (card.state # "ina" /\ card.rca = 0 => card' = FreshCard)
         /\ SD'.voltage = SD.voltage /\ SD'.version = "unknown" /\ mem' = mem
<1>1. Returns("error") /\ UNCHANGED <<op, lo, hi, buffer, dpsm, sta, wide>>
  BY DEF GivesUp, callKeeps, sdioKeeps
<1>2. CASE ResetSd(AfterCmd15(card), 0)
  <2>1. card.rca = 0 => AfterCmd15(card) = card
    BY DEF AfterCmd15
  <2> QED
    BY <1>1, <1>2, <2>1, ResetCard
<1>3. CASE ResetSd(card, 1)
  BY <1>1, <1>3, ResetCard
<1> QED
  BY <1>2, <1>3 DEF GivesUp

-----------------------------------------------------------------------------
(* The parts of the invariant.                                             *)

\* A call that has returned is in no phase; what goes on is in that of its command.
LEMMA ReturnsPhase ==
  ASSUME CallInPhase, NEW v, Returns(v), UNCHANGED <<op, lo, hi>>
  PROVE  CallInPhase'
BY DEF CallInPhase, Returns, DataCommands, DataCommand

\* CallInPhase: the driver goes from command to command within the call.
LEMMA PhaseStep == ASSUME IInv, [Next]_vars PROVE CallInPhase'
<1> USE DEF CallInPhase, DataCommands, DataCommand, Reads, Writes, Two, Sends, On,
            loopKeeps, callKeeps
<1>0. TypeOK /\ CallInPhase /\ NoResp.r = "none"
  BY NoRespType DEF IInv
<1>1. CASE UNCHANGED vars
  BY <1>0, <1>1 DEF vars
<1>2. CASE Answer
  <2>1. AnswerKeeps
    BY <1>0, <1>2, AnswerCases
  <2>2. pc = cmd /\ cmd \notin {"none", "idle", "data", "dma"}
    BY <1>0, <2>1 DEF AnswerKeeps, Commands
  <2> QED
    BY <1>0, <2>1, <2>2 DEF AnswerKeeps
<1>3. CASE OtherHardware
  BY <1>0, <1>3, OtherHardwareCard
<1>4. CASE CallInit
  BY <1>0, <1>4 DEF CallInit
<1>5. ASSUME NEW o \in {"read1", "write1"}, NEW m \in Blocks, CallOne(o, m) PROVE CallInPhase'
  BY <1>5 DEF CallOne, Call
<1>6. ASSUME NEW o \in {"readN", "writeN", "writeDma"}, NEW m \in Blocks, CallTwo(o, m)
      PROVE  CallInPhase'
  BY <1>6 DEF CallTwo, Call
<1>7. ASSUME NEW a \in Blocks, NEW b \in Blocks, CallErase(a, b) PROVE CallInPhase'
  BY <1>7 DEF CallErase, Call, WaitsReady
<1>8. CASE OnIfCond
  <2>1. NextTrial(1, SD.voltage) \/ Returns("error")
    BY <1>8 DEF OnIfCond
  <2> QED
    BY <1>0, <1>8, <2>1, ReturnsPhase DEF OnIfCond, NextTrial, SendsApp
<1>9. CASE OnAppCmd
  BY <1>0, <1>9, ReturnsPhase DEF OnAppCmd
<1>10. CASE OnOpCond
  <2>1. NextTrial(trial + 1, TRUE) \/ NextTrial(trial + 1, SD.voltage) \/ Returns("error")
    BY <1>10 DEF OnOpCond, GivesUp
  <2>2. UNCHANGED <<op, lo, hi>>
    BY <1>10 DEF OnOpCond, GivesUp
  <2> QED
    BY <1>0, <1>10, <2>1, <2>2, ReturnsPhase DEF OnOpCond, NextTrial, SendsApp
<1>11. CASE OnCid \/ OnRca \/ OnCsd \/ OnWidth
  <2>1. \/ Sends("rca") /\ UNCHANGED loopKeeps
        \/ Sends("csd") /\ UNCHANGED loopKeeps
        \/ Sends("select") /\ UNCHANGED loopKeeps
        \/ \E v : Returns(v)
    BY <1>11 DEF OnCid, OnRca, OnCsd, OnWidth, GivesUp
  <2>2. UNCHANGED <<op, lo, hi>> /\ op = "init"
    BY <1>0, <1>11 DEF OnCid, OnRca, OnCsd, OnWidth, GivesUp
  <2> QED
    BY <1>0, <2>1, <2>2, ReturnsPhase
<1>12. CASE OnSelect
  BY <1>0, <1>12, ReturnsPhase DEF OnSelect, SendsApp, WaitsReady
<1>13. CASE OnTransfer
  BY <1>0, <1>13, ReturnsPhase DEF OnTransfer
<1>14. ASSUME Concludes, UNCHANGED <<op, lo, hi>>, op \in Reads \cup Writes PROVE CallInPhase'
  BY <1>0, <1>14, ReturnsPhase DEF Concludes, WaitsReady
<1>15. ASSUME StopsOrConcludes, UNCHANGED <<op, lo, hi>>, op \in Reads \cup Writes
       PROVE  CallInPhase'
  <2>1. CASE Concludes
    BY <1>14, <1>15, <2>1
  <2>2. CASE op \in Two /\ Sends("stop") /\ UNCHANGED loopKeeps
    BY <1>0, <1>15, <2>2
  <2> QED
    BY <1>15, <2>1, <2>2 DEF StopsOrConcludes
<1>16. CASE EndData
  BY <1>0, <1>15, <1>16 DEF EndData
<1>17. CASE EndDma
  BY <1>0, <1>15, <1>17 DEF EndDma
<1>18. CASE OnStop
  BY <1>0, <1>14, <1>18, ReturnsPhase DEF OnStop, WaitsReady
<1>19. CASE OnErase
  BY <1>0, <1>19, ReturnsPhase DEF OnErase, WaitsReady, NextErase
<1>20. CASE OnStatus
  <2>1. UNCHANGED <<op, lo, hi>>
    BY <1>20 DEF OnStatus
  <2>2. CASE Ready
    BY <1>0, <1>14, <1>20, <2>1, <2>2, ReturnsPhase DEF Ready, SendsApp, OnStatus
  <2>3. CASE NotReady
    BY <1>0, <2>1, <2>3, ReturnsPhase DEF NotReady
  <2>4. CASE Sends("status") /\ then' = then
    BY <1>0, <1>20, <2>1, <2>4 DEF OnStatus
  <2> QED
    BY <1>20, <2>2, <2>3, <2>4 DEF OnStatus
<1> QED
  BY <1>1, <1>2, <1>3, <1>4, <1>5, <1>6, <1>7, <1>8, <1>9, <1>10, <1>11, <1>12, <1>13,
     <1>16, <1>17, <1>18, <1>19, <1>20 DEF Next, Calls, Step, Hardware, OtherHardware

\* A step of the program leaves the card alone, or resets it in an initialisation.
LEMMA ProgramCard ==
  ASSUME IInv, Calls \/ Step
  PROVE  \/ UNCHANGED <<card, mem, faults>>
         \/ /\ card' \in {card, AfterCmd15(card), FreshCard}
            /\ faults' \in Nat /\ faults' >= faults
            /\ SD'.voltage = SD.voltage /\ SD'.version = "unknown"
            /\ op' = "init" /\ UNCHANGED <<mem, dpsm, sta>>
            /\ \/ pc = "idle" /\ CallInit
               \/ pc = "ifCond" /\ OnIfCond /\ op = "init" /\ NextTrial(1, SD.voltage)
               \/ pc \in {"opCond", "cid", "rca", "width"} /\ op = "init" /\ Returns("error")
<1>0. TypeOK /\ CallInPhase
  BY DEF IInv
<1>1. CASE Calls
  <2>1. CASE CallInit
    BY <1>0, <2>1, ResetCard DEF CallInit
  <2>2. CASE ~CallInit
    BY <1>1, <2>2 DEF Calls, CallOne, CallTwo, CallErase, Call, cardKeeps
  <2> QED
    BY <2>1, <2>2
<1>2. CASE OnIfCond
  <2>1. CASE ResetSd(card, 0) /\ NextTrial(1, SD.voltage)
    BY <1>0, <1>2, <2>1, ResetCard DEF OnIfCond, On, CallInPhase, callKeeps, sdioKeeps
  <2> QED
    BY <1>2, <2>1 DEF OnIfCond, cardKeeps
<1>3. CASE OnOpCond \/ OnCid \/ OnRca \/ OnWidth
  <2>1. CASE GivesUp
    BY <1>0, <1>3, <2>1, GivesUpCard DEF OnOpCond, OnCid, OnRca, OnWidth, On, CallInPhase
  <2> QED
    BY <1>3, <2>1 DEF OnOpCond, OnCid, OnRca, OnWidth, cardKeeps
<1>4. CASE \/ OnAppCmd \/ OnCsd \/ OnSelect \/ OnTransfer \/ EndData \/ EndDma
           \/ OnStop \/ OnErase \/ OnStatus
  BY <1>4 DEF OnAppCmd, OnCsd, OnSelect, OnTransfer, EndData, EndDma, OnStop, OnErase,
     OnStatus, cardKeeps
<1> QED
  BY <1>1, <1>2, <1>3, <1>4 DEF Step

\* After a step of the program no response is there: it has been looked at.
LEMMA ProgramResp == ASSUME IInv, Calls \/ Step PROVE resp' = NoResp
<1> USE DEF Sends, Returns, WaitsReady, SendsApp, NextTrial, GivesUp, Concludes, StopsOrConcludes
<1>0. CallInPhase
  BY DEF IInv
<1>1. CASE Calls
  BY <1>1 DEF Calls, CallInit, CallOne, CallTwo, CallErase
<1>2. CASE OnIfCond \/ OnAppCmd \/ OnOpCond \/ OnCid \/ OnRca \/ OnCsd \/ OnSelect \/ OnWidth
  BY <1>2 DEF OnIfCond, OnAppCmd, OnOpCond, OnCid, OnRca, OnCsd, OnSelect, OnWidth
<1>3. CASE OnTransfer \/ OnStop \/ OnErase \/ OnStatus
  BY <1>3 DEF OnTransfer, OnStop, OnErase, OnStatus, Ready, NotReady
<1>4. CASE EndData \/ EndDma
  BY <1>0, <1>4 DEF EndData, EndDma, CallInPhase
<1> QED
  BY <1>1, <1>2, <1>3, <1>4 DEF Step

\* The initialisation goes on to a command for the addressed card only from
\* another one, or from the answer to CMD3.
LEMMA AddressingFlow ==
  ASSUME IInv, Calls \/ Step, Addressing'
  PROVE  \/ Addressing /\ SD'.RCA = SD.RCA /\ SD'.voltage = SD.voltage
         \/ pc = "rca" /\ SD'.RCA = 1 /\ SD'.voltage = SD.voltage
<1> USE DEF Addressing, Sends, Returns, WaitsReady, SendsApp, On
<1>0. TypeOK /\ CallInPhase /\ SD \in SdType /\ Heard \in SdType /\ resp \in RespType
      /\ Heard.RCA = SD.RCA /\ Heard.voltage = SD.voltage
  BY TypeParts, HeardType, KeepsType DEF IInv, PeerType, ProgramType
<1>1. CASE Calls
  BY <1>1 DEF Calls, CallInit, CallOne, CallTwo, CallErase, DataCommands
<1>2. CASE OnIfCond \/ OnOpCond
  BY <1>2 DEF OnIfCond, OnOpCond, NextTrial, GivesUp
<1>3. CASE OnCid \/ OnTransfer \/ OnErase \/ OnStop \/ OnWidth
  BY <1>3 DEF OnCid, OnTransfer, OnErase, OnStop, OnWidth, GivesUp, Concludes, NextErase
<1>4. CASE EndData \/ EndDma
  BY <1>4 DEF EndData, EndDma, Concludes, StopsOrConcludes
<1>5. CASE OnRca
  <2>1. SD' = [Heard EXCEPT !.RCA = 1]
    BY <1>5 DEF OnRca, GivesUp
  <2> QED
    BY <1>0, <1>5, <2>1 DEF OnRca, SdType
<1>6. CASE OnAppCmd \/ OnSelect
  BY <1>0, <1>6 DEF OnAppCmd, OnSelect, CallInPhase, loopKeeps
<1>7. CASE OnCsd
  BY <1>7 DEF OnCsd
<1>8. CASE OnStatus
  BY <1>0, <1>8 DEF OnStatus, Ready, NotReady, Concludes
<1> QED
  BY <1>1, <1>2, <1>3, <1>4, <1>5, <1>6, <1>7, <1>8 DEF Step

\* The fresh card, and the one that CMD15 has silenced, have no address in use.
LEMMA ResetCardState ==
  ASSUME TypeOK, card' \in {card, AfterCmd15(card), FreshCard}
  PROVE  card' = card \/ (card'.state \notin {"stby"} \cup Selected)
<1>1. card \in CardType
  BY TypeParts DEF PeerType
<1>2. AfterCmd15(card) = card \/ AfterCmd15(card).state = "ina"
  BY <1>1 DEF AfterCmd15, CardType
<1> QED
  BY <1>2 DEF FreshCard, Selected

\* Addressed: the card has the address of CMD3, and the driver has heard of it.
LEMMA AddressedStep == ASSUME IInv, [Next]_vars PROVE Addressed'
<1>0. TypeOK /\ CallInPhase /\ Addressed /\ card \in CardType /\ NoResp.r = "none"
      /\ SD \in SdType /\ resp \in RespType
  BY NoRespType, TypeParts DEF IInv, PeerType, ProgramType
<1>1. CASE UNCHANGED vars
  BY <1>0, <1>1 DEF vars, Addressed, Addressing
<1>2. CASE Answer
  <2>1. AnswerKeeps /\ cmd = pc /\ resp = NoResp
    BY <1>0, <1>2, AnswerCases DEF CallInPhase, Answer
  <2>2. CASE Silent
    <3>1. card'.state = card.state /\ card'.rca = card.rca /\ resp'.r # "ok"
      BY <1>0, <2>2, SilenceType DEF Silent, CardType
    <3> QED
      BY <1>0, <2>1, <3>1 DEF Addressed, Addressing, AnswerKeeps
  <2>3. ASSUME NEW up \in BOOLEAN, Obeyed(up) PROVE Addressed'
    <3>1. card'.state \in {"stby"} \cup Selected => card'.rca = 1
      BY <1>0, <2>3 DEF Obeyed, Addressed, StateAfter, Selected, Obeys, LegalIn
    <3>2. pc = "width" /\ resp'.r = "ok" => card'.state = "tran" /\ card'.wide
      <4>1. ASSUME pc = "width", resp'.r = "ok" PROVE card'.state = "tran"
        BY <1>0, <1>2, <2>1, <4>1, AnswerOk DEF Obeyed, Obeys, LegalIn, StateAfter
      <4>2. ASSUME pc = "width" PROVE card'.wide
        BY <2>1, <2>3, <4>2 DEF Obeyed
      <4> QED
        BY <4>1, <4>2
    <3> QED
      BY <1>0, <2>1, <3>1, <3>2 DEF Addressed, Addressing, AnswerKeeps
  <2> QED
    BY <1>0, <1>2, <2>2, <2>3, AnswerCases
<1>3. CASE OtherHardware
  BY <1>0, <1>3, OtherHardwareCard DEF Addressed, Addressing, Selected
<1>4. CASE Calls \/ Step
  <2>1. card'.state \in {"stby"} \cup Selected => card'.rca = 1
    BY <1>0, <1>4, ProgramCard, ResetCardState DEF Addressed
  <2>2. ~(pc' = "width" /\ resp'.r = "ok")
    BY <1>0, <1>4, ProgramResp
  <2>3. Addressing' => SD'.RCA = 1
    BY <1>0, <1>4, AddressingFlow DEF Addressed
  <2> QED
    BY <2>1, <2>2, <2>3 DEF Addressed
<1> QED
  BY <1>1, <1>2, <1>3, <1>4 DEF Next, Hardware, OtherHardware

\* The record of the card: a call keeps the version and the voltage, but for the
\* initialisation, which learns them from a card that answers ACMD41.
LEMMA ProgramRecord ==
  ASSUME IInv, Calls \/ Step
  PROVE  \/ SD'.version = SD.version /\ SD'.voltage = SD.voltage
         \/ /\ op' = "init" /\ SD'.version \in {"unknown", "V2"} /\ SD'.voltage = SD.voltage
            /\ pc \in {"idle", "ifCond", "opCond", "cid", "rca", "width"}
         \/ /\ pc = "opCond" /\ resp.r = "ok" /\ SD'.voltage = TRUE /\ op = "init"
            /\ SD'.version = IF kind = "UHS2" THEN "SDXC" ELSE "SDSC"
            /\ NextTrial(trial + 1, TRUE) /\ UNCHANGED <<op, lo, hi, mem>>
<1>0. TypeOK /\ CallInPhase /\ SD \in SdType /\ resp \in RespType
      /\ Heard.version = SD.version /\ Heard.voltage = SD.voltage /\ Heard \in SdType
  BY TypeParts, HeardType DEF IInv, PeerType, ProgramType
<1>1. CASE UNCHANGED <<card, mem, faults>>
  <2>1. CASE Calls
    <3>1. CASE CallInit
      BY <1>0, <3>1, ResetCard DEF CallInit
    <3>2. CASE SD' = SD
      BY <3>2
    <3> QED
      BY <2>1, <3>1, <3>2 DEF Calls, CallOne, CallTwo, CallErase, Call
  <2>2. CASE OnIfCond
    <3>1. op' = "init" /\ pc = "ifCond"
      BY <1>0, <2>2 DEF OnIfCond, On, CallInPhase, callKeeps
    <3>2. CASE SD' = SD
      BY <3>2
    <3>3. CASE ResetSd(card, 0)
      BY <1>0, <3>1, <3>3, ResetCard
    <3>4. CASE SD' = [SD EXCEPT !.version = "V2"]
      BY <1>0, <3>1, <3>4 DEF SdType
    <3> QED
      BY <2>2, <3>2, <3>3, <3>4 DEF OnIfCond
  <2>3. CASE OnOpCond
    <3>1. CASE SD' = SD
      BY <3>1
    <3>2. CASE GivesUp
      BY <1>0, <2>3, <3>2, GivesUpCard DEF OnOpCond, On, CallInPhase
    <3>3. CASE /\ Ok
               /\ SD' = [SD EXCEPT !.state = "ready", !.voltage = TRUE,
                                   !.version = IF kind = "UHS2" THEN "SDXC" ELSE "SDSC"]
               /\ NextTrial(trial + 1, TRUE)
               /\ UNCHANGED <<callKeeps, buffer, sdioKeeps, cardKeeps>>
      BY <1>0, <2>3, <3>3 DEF OnOpCond, On, CallInPhase, callKeeps, cardKeeps, SdType, Ok
    <3> QED
      BY <2>3, <3>1, <3>2, <3>3 DEF OnOpCond
  <2>4. CASE OnCid \/ OnRca \/ OnWidth
    <3>1. CASE GivesUp
      BY <1>0, <2>4, <3>1, GivesUpCard DEF OnCid, OnRca, OnWidth, On, CallInPhase
    <3>2. CASE SD' \in {SD, Heard, [Heard EXCEPT !.RCA = 1]}
      BY <1>0, <3>2 DEF SdType
    <3> QED
      BY <2>4, <3>1, <3>2 DEF OnCid, OnRca, OnWidth
  <2>5. CASE \/ OnAppCmd \/ OnCsd \/ OnSelect \/ OnTransfer \/ EndData \/ EndDma
             \/ OnStop \/ OnErase \/ OnStatus
    BY <1>0, <2>5 DEF OnAppCmd, OnCsd, OnSelect, OnTransfer, EndData, EndDma, OnStop, OnErase,
       OnStatus
  <2> QED
    BY <2>1, <2>2, <2>3, <2>4, <2>5 DEF Step
<1> QED
  BY <1>1, ProgramCard

\* A call returns, or goes on and leaves the history as it is; sd_card_init
\* returns 0 only after ACMD6.
LEMMA ProgramHistory ==
  ASSUME IInv, Calls \/ Step
  PROVE  \/ wrote' = wrote /\ inited' = inited /\ pc' # "idle" /\ (pc = "idle" => inited)
            /\ (pc # "idle" => UNCHANGED <<op, lo, hi>>)
         \/ CallInit
         \/ /\ pc # "idle" /\ UNCHANGED <<op, lo, hi>>
            /\ Returns("error") \/ (Returns("ok") /\ (op = "init" => pc = "width"))
<1> USE DEF Sends, WaitsReady, SendsApp, On, callKeeps
<1>0. CallInPhase
  BY DEF IInv
<1>1. CASE Calls
  BY <1>1 DEF Calls, CallOne, CallTwo, CallErase, Call, DataCommands
<1>2. ASSUME Concludes, UNCHANGED <<op, lo, hi>>, pc # "idle", op # "init"
      PROVE  \/ wrote' = wrote /\ inited' = inited /\ pc' # "idle"
             \/ Returns("error") \/ Returns("ok")
  BY <1>2 DEF Concludes
<1>3. CASE OnIfCond \/ OnOpCond
  BY <1>3 DEF OnIfCond, OnOpCond, NextTrial, GivesUp
<1>4. CASE OnCid \/ OnRca \/ OnWidth
  BY <1>4 DEF OnCid, OnRca, OnWidth, GivesUp
<1>5. CASE OnAppCmd \/ OnCsd \/ OnSelect
  BY <1>0, <1>5 DEF OnAppCmd, OnCsd, OnSelect, CallInPhase
<1>6. CASE OnTransfer \/ OnErase
  BY <1>6 DEF OnTransfer, OnErase, DataCommands, NextErase
<1>7. CASE EndData \/ EndDma
  <2>1. op # "init" /\ UNCHANGED <<op, lo, hi>> /\ pc # "idle"
    BY <1>0, <1>7 DEF EndData, EndDma, CallInPhase, Reads, Writes
  <2> QED
    BY <1>2, <1>7, <2>1 DEF EndData, EndDma, StopsOrConcludes
<1>8. CASE OnStop
  <2>1. op # "init" /\ UNCHANGED <<op, lo, hi>> /\ pc # "idle"
    BY <1>0, <1>8 DEF OnStop, CallInPhase, Two
  <2> QED
    BY <1>2, <1>8, <2>1 DEF OnStop
<1>9. CASE OnStatus
  <2>1. (then # "selected" => op # "init") /\ UNCHANGED <<op, lo, hi>> /\ pc # "idle"
    BY <1>0, <1>9 DEF OnStatus, CallInPhase, Two, Reads, Writes
  <2>2. CASE Ready
    BY <1>2, <2>1, <2>2 DEF Ready
  <2>3. CASE NotReady
    BY <2>1, <2>3 DEF NotReady
  <2> QED
    BY <1>9, <2>1, <2>2, <2>3 DEF OnStatus
<1> QED
  BY <1>1, <1>3, <1>4, <1>5, <1>6, <1>7, <1>8, <1>9 DEF Step

\* Transfers and erases are made only on a card that has been initialised; the
\* blocks of the card and what is known of them change only then.
LEMMA HardwareMem ==
  ASSUME IInv, Answer \/ OtherHardware, mem' # mem
  PROVE  /\ pc \in {"erase", "data", "dma"} /\ op # "init" /\ SD.voltage
         /\ Answer => cmd = "erase" /\ pc = "erase"
         /\ OtherHardware => Transmit \/ StreamEnds
<1>0. TypeOK /\ CallInPhase /\ Voltage
  BY DEF IInv
<1>1. CASE Answer
  <2>1. AnswerKeeps /\ (Silent \/ \E up \in BOOLEAN : Obeyed(up))
    BY <1>0, <1>1, AnswerCases
  <2>2. cmd = "erase" /\ pc = "erase"
    BY <1>0, <2>1 DEF Silent, Obeyed, CallInPhase, AnswerKeeps, Commands
  <2>3. ~OtherHardware
    BY <1>0, <1>1, <2>2 DEF OtherHardware, Progress, Receive, LateReceive, Transmit, StreamEnds,
       Drain, Stops, DataPathKeeps, Answer
  <2> QED
    BY <1>0, <2>2, <2>3 DEF CallInPhase, Voltage
<1>2. CASE OtherHardware
  <2>1. Transmit \/ StreamEnds
    BY <1>2 DEF OtherHardware, Progress, Receive, LateReceive, Drain
  <2>2. pc \in {"data", "dma"}
    BY <2>1 DEF Transmit, StreamEnds
  <2>3. ~Answer
    BY <1>0, <2>2 DEF Answer, CallInPhase
  <2> QED
    BY <1>0, <2>1, <2>2, <2>3 DEF CallInPhase, Voltage, Reads, Writes
<1> QED
  BY <1>1, <1>2

\* Voltage: the step that learns the voltage is the one that leaves the loop.
LEMMA VoltageStep == ASSUME IInv, [Next]_vars PROVE Voltage'
<1>0. TypeOK /\ CallInPhase /\ Voltage
  BY DEF IInv
<1>1. CASE UNCHANGED vars
  BY <1>0, <1>1 DEF vars, Voltage, Powering, Addressing
<1>2. CASE Answer \/ OtherHardware
  <2>1. UNCHANGED <<pc, op, SD, then, inited, wrote>>
    BY <1>0, <1>2, AnswerCases, OtherHardwareCard DEF AnswerKeeps
  <2>2. ~SD.voltage => mem' = mem
    BY <1>0, <1>2, HardwareMem
  <2> QED
    BY <1>0, <2>1, <2>2 DEF Voltage, Powering, Addressing
<1>3. CASE Calls \/ Step
  <2>1. SD.voltage => SD'.voltage
    BY <1>3, ProgramRecord
  <2>2. Powering' => ~SD'.voltage
    <3> USE DEF Powering, Sends, Returns, WaitsReady, SendsApp, On
    <3>1. CASE Calls
      BY <3>1 DEF Calls, CallInit, CallOne, CallTwo, CallErase, DataCommands
    <3>2. CASE OnIfCond
      BY <1>3, <3>2, ProgramRecord DEF OnIfCond, NextTrial
    <3>3. CASE OnOpCond
      <4>1. CASE GivesUp \/ NextTrial(trial + 1, TRUE)
        BY <4>1 DEF GivesUp, NextTrial
      <4>2. CASE NextTrial(trial + 1, SD.voltage) /\ SD' = SD
        BY <4>2 DEF NextTrial
      <4> QED
        BY <3>3, <4>1, <4>2 DEF OnOpCond
    <3>4. CASE OnAppCmd
      <4>1. Powering' => then = "opCond"
        BY <1>0, <3>4 DEF OnAppCmd, CallInPhase, loopKeeps
      <4> QED
        BY <1>0, <1>3, <3>4, <4>1, ProgramRecord DEF OnAppCmd, Voltage
    <3>5. CASE OnCid \/ OnRca \/ OnCsd \/ OnSelect \/ OnWidth
      BY <3>5 DEF OnCid, OnRca, OnCsd, OnSelect, OnWidth, GivesUp
    <3>6. CASE OnTransfer \/ OnErase \/ OnStop \/ OnStatus
      BY <3>6 DEF OnTransfer, OnErase, OnStop, OnStatus, Ready, NotReady, Concludes, NextErase
    <3>7. CASE EndData \/ EndDma
      BY <3>7 DEF EndData, EndDma, Concludes, StopsOrConcludes
    <3> QED
      BY <1>3, <3>1, <3>2, <3>3, <3>4, <3>5, <3>6, <3>7 DEF Step
  <2>3. Addressing' \/ pc' \in {"cid", "rca"} => SD'.voltage
    <3>1. CASE Addressing'
      BY <1>0, <1>3, <2>1, <3>1, AddressingFlow DEF Voltage
    <3>2. CASE pc' \in {"cid", "rca"}
      <4> USE DEF Sends, Returns, WaitsReady, SendsApp, On
      <4>1. CASE Calls
        BY <3>2, <4>1 DEF Calls, CallInit, CallOne, CallTwo, CallErase, DataCommands
      <4>2. CASE OnIfCond
        BY <1>3, <2>1, <3>2, <4>2 DEF OnIfCond, NextTrial
      <4>3. CASE OnOpCond
        <5>1. CASE GivesUp
          BY <3>2, <5>1 DEF GivesUp
        <5>2. CASE NextTrial(trial + 1, SD.voltage)
          BY <2>1, <3>2, <5>2 DEF NextTrial
        <5>3. CASE SD' = [SD EXCEPT !.state = "ready", !.voltage = TRUE,
                                   !.version = IF kind = "UHS2" THEN "SDXC" ELSE "SDSC"]
          BY <1>0, <5>3 DEF TypeOK
        <5> QED
          BY <4>3, <5>1, <5>2, <5>3 DEF OnOpCond
      <4>4. CASE OnCid \/ OnRca \/ OnAppCmd
        BY <1>0, <2>1, <3>2, <4>4 DEF OnCid, OnRca, OnAppCmd, Voltage, GivesUp, CallInPhase
      <4>5. CASE OnCsd \/ OnSelect \/ OnWidth
        BY <3>2, <4>5 DEF OnCsd, OnSelect, OnWidth, GivesUp
      <4>6. CASE OnTransfer \/ OnErase \/ OnStop \/ OnStatus
        BY <3>2, <4>6 DEF OnTransfer, OnErase, OnStop, OnStatus, Ready, NotReady, Concludes, NextErase
      <4>7. CASE EndData \/ EndDma
        BY <3>2, <4>7 DEF EndData, EndDma, Concludes, StopsOrConcludes
      <4> QED
        BY <1>3, <4>1, <4>2, <4>3, <4>4, <4>5, <4>6, <4>7 DEF Step
    <3> QED
      BY <3>1, <3>2
  <2>4. /\ inited' => SD'.voltage
        /\ pc' # "idle" /\ op' # "init" => inited'
    <3>1. CASE wrote' = wrote /\ inited' = inited /\ pc' # "idle" /\ (pc = "idle" => inited)
               /\ (pc # "idle" => UNCHANGED <<op, lo, hi>>)
      BY <1>0, <2>1, <3>1 DEF Voltage
    <3>2. CASE CallInit
      BY <3>2 DEF CallInit
    <3>3. CASE pc # "idle" /\ (Returns("error") \/ (Returns("ok") /\ (op = "init" => pc = "width")))
      BY <1>0, <2>1, <3>3 DEF Voltage, Returns, Addressing
    <3> QED
      BY <1>3, <3>1, <3>2, <3>3, ProgramHistory
  <2>5. ASSUME ~SD'.voltage
        PROVE  /\ SD'.version \notin {"SDSC", "SDXC"}
               /\ \A m \in Blocks : wrote'[m] = 0
               /\ \A l \in Lbas : mem'[l] = 0
    <3>1. ~SD.voltage
      BY <2>1, <2>5
    <3>2. SD'.version \notin {"SDSC", "SDXC"}
      BY <1>0, <1>3, <2>5, <3>1, ProgramRecord DEF Voltage
    <3>3. mem' = mem
      BY <1>3, ProgramCard
    <3>4. \A m \in Blocks : wrote'[m] = 0
      <4>1. CASE pc # "idle" /\ UNCHANGED <<op, lo, hi>> /\ \E v : Returns(v)
        <5>1. op = "init"
          BY <1>0, <3>1, <4>1 DEF Voltage
        <5>2. wrote' = [m \in Blocks |-> wrote[m]]
          BY <4>1, <5>1 DEF Returns, Recorded, Affected, Writes
        <5> QED
          BY <1>0, <3>1, <5>2 DEF Voltage
      <4>2. CASE wrote' = wrote
        BY <1>0, <3>1, <4>2 DEF Voltage
      <4> QED
        BY <1>3, <4>1, <4>2, ProgramHistory DEF CallInit
    <3> QED
      BY <1>0, <3>1, <3>2, <3>3, <3>4 DEF Voltage
  <2> QED
    BY <2>2, <2>3, <2>4, <2>5 DEF Voltage
<1> QED
  BY <1>1, <1>2, <1>3 DEF Next, Hardware, OtherHardware

\* Addresses change only with the call, or with the kind of card on record.
LEMMA AddressKeeps ==
  ASSUME UNCHANGED <<op, lo, hi>>, SD'.version = SD.version
  PROVE  /\ \A c : ArgumentOf(c)' = ArgumentOf(c)
         /\ \A c, m : Argument(c, m)' = Argument(c, m)
         /\ DataCommand' = DataCommand /\ Extent' = Extent /\ EraseExtent' = EraseExtent
<1>1. \A c, m : Argument(c, m)' = Argument(c, m)
  BY DEF Argument, Scaled
<1>2. \A c : ArgumentOf(c)' = ArgumentOf(c)
  BY <1>1 DEF ArgumentOf
<1>3. DataCommand' = DataCommand
  BY DEF DataCommand
<1>4. ArgumentOf(DataCommand)' = ArgumentOf(DataCommand)
  BY <1>3 DEF ArgumentOf, Argument, Scaled
<1>5. Extent' = Extent
  BY <1>4 DEF Extent
<1>6. EraseExtent' = EraseExtent
  BY DEF EraseExtent, Argument, Scaled
<1> QED
  BY <1>1, <1>2, <1>3, <1>5, <1>6

\* Where the data phase, the programming of an erase, and the end of a call come from.
LEMMA TransferFlow ==
  ASSUME IInv, Calls \/ Step
  PROVE  /\ pc' = "data" =>
              /\ OnTransfer /\ resp.r = "ok" /\ pc = DataCommand
              /\ UNCHANGED <<op, lo, hi, buffer, sta, card, mem, kind, faults>>
              /\ SD'.version = SD.version
              /\ dpsm' = IF op = "read1" THEN "recv" ELSE dpsm
         /\ pc' = "dma" =>
              /\ EndData /\ pc = "data" /\ op = "writeDma" /\ sta \cap EndFlags # {}
              /\ UNCHANGED <<op, lo, hi, buffer, sta, card, mem, kind, faults, dpsm, SD>>
         /\ pc' = "erase" =>
              /\ OnErase /\ pc = "eraseEnd" /\ resp.r = "ok"
              /\ UNCHANGED <<op, lo, hi, buffer, sta, card, mem, kind, faults, dpsm>>
              /\ SD'.version = SD.version
<1> USE DEF Sends, Returns, WaitsReady, SendsApp, On, callKeeps
<1>0. TypeOK /\ CallInPhase /\ Heard.version = SD.version
  BY TypeParts, HeardType DEF IInv, PeerType, ProgramType
<1>1. CASE Calls
  BY <1>1 DEF Calls, CallInit, CallOne, CallTwo, CallErase, DataCommands
<1>2. CASE OnIfCond \/ OnOpCond
  BY <1>2 DEF OnIfCond, OnOpCond, NextTrial, GivesUp
<1>3. CASE OnCid \/ OnRca \/ OnCsd \/ OnSelect \/ OnWidth
  BY <1>3 DEF OnCid, OnRca, OnCsd, OnSelect, OnWidth, GivesUp
<1>4. CASE OnAppCmd
  BY <1>0, <1>4 DEF OnAppCmd, CallInPhase
<1>5. CASE OnTransfer
  BY <1>0, <1>5 DEF OnTransfer, cardKeeps, Ok, CallInPhase
<1>6. CASE EndData
  BY <1>0, <1>6 DEF EndData, cardKeeps, StopsOrConcludes, Concludes
<1>7. CASE EndDma \/ OnStop \/ OnStatus
  BY <1>7 DEF EndDma, OnStop, OnStatus, StopsOrConcludes, Concludes, Ready, NotReady
<1>8. CASE OnErase
  BY <1>0, <1>8 DEF OnErase, NextErase, cardKeeps, Ok
<1> QED
  BY <1>1, <1>2, <1>3, <1>4, <1>5, <1>6, <1>7, <1>8 DEF Step

\* InRange: a card that has said "ok" has accepted the address.
LEMMA InRangeStep == ASSUME IInv, [Next]_vars PROVE InRange'
<1>0. TypeOK /\ CallInPhase /\ InRange /\ NoResp.r = "none"
  BY NoRespType DEF IInv
<1>1. CASE UNCHANGED vars
  BY <1>0, <1>1 DEF vars, InRange, ArgumentOf, Argument, Scaled, DataCommand
<1>2. CASE Answer
  <2>1. AnswerKeeps /\ cmd = pc
    BY <1>0, <1>2, AnswerCases DEF CallInPhase, Answer
  <2>2. resp'.r = "ok" => ~OutOfRange(pc)
    BY <1>0, <1>2, <2>1, AnswerOk
  <2>3. ArgumentOf(pc) \in Nat /\ Capacity \in Nat
    BY <1>0, AddressType, BlocksAssumption
  <2>4. resp'.r = "ok" /\ pc \in DataCommands \cup {"eraseStart", "eraseEnd"} => ArgumentOf(pc) < Capacity
    BY <2>2, <2>3 DEF OutOfRange
  <2>5. /\ pc' = pc /\ DataCommand' = DataCommand
        /\ \A c : ArgumentOf(c)' = ArgumentOf(c)
    BY <2>1, AddressKeeps DEF AnswerKeeps
  <2>6. pc \notin {"data", "dma"} /\ pc # "none"
    BY <1>0, <2>1 DEF AnswerKeeps, Commands, CallInPhase, DataCommands
  <2>7. ArgumentOf(pc)' = ArgumentOf(pc) /\ ArgumentOf("eraseEnd")' = ArgumentOf("eraseEnd")
    BY <2>1 DEF AnswerKeeps, ArgumentOf, Argument, Scaled
  <2> QED
    BY <1>0, <2>4, <2>5, <2>6, <2>7 DEF InRange
<1>3. CASE OtherHardware
  <2>1. UNCHANGED <<pc, op, lo, hi, SD, resp>>
    BY <1>0, <1>3, OtherHardwareCard
  <2> QED
    BY <1>0, <2>1 DEF InRange, ArgumentOf, Argument, Scaled, DataCommand
<1>4. CASE Calls \/ Step
  <2>1. resp'.r # "ok"
    BY <1>0, <1>4, ProgramResp
  <2>2. ASSUME pc' \in {"data", "dma"} PROVE ArgumentOf(DataCommand)' < Capacity
    <3>1. ArgumentOf(DataCommand)' = ArgumentOf(DataCommand)
      BY <1>4, <2>2, TransferFlow DEF ArgumentOf, Argument, Scaled, DataCommand
    <3>2. ArgumentOf(DataCommand) < Capacity
      <4>1. CASE pc' = "data"
        <5>1. pc = DataCommand /\ resp.r = "ok" /\ pc \in DataCommands
          BY <1>4, <4>1, TransferFlow DEF OnTransfer
        <5> QED
          BY <1>0, <5>1 DEF InRange
      <4>2. CASE pc' = "dma"
        BY <1>0, <1>4, <4>2, TransferFlow DEF InRange
      <4> QED
        BY <2>2, <4>1, <4>2
    <3> QED
      BY <3>1, <3>2
  <2>3. ASSUME pc' = "erase" PROVE ArgumentOf("eraseEnd")' < Capacity
    <3>1. ArgumentOf("eraseEnd")' = ArgumentOf("eraseEnd")
      BY <1>4, <2>3, TransferFlow DEF ArgumentOf, Argument, Scaled
    <3>2. pc = "eraseEnd" /\ resp.r = "ok"
      BY <1>4, <2>3, TransferFlow
    <3> QED
      BY <1>0, <3>1, <3>2 DEF InRange
  <2> QED
    BY <2>1, <2>2, <2>3 DEF InRange
<1> QED
  BY <1>1, <1>2, <1>3, <1>4 DEF Next, Hardware, OtherHardware

\* The closing wait for the card, and a success that is not that of the
\* initialisation, come after the data or the erase, or from that wait.
LEMMA ClosingFlow ==
  ASSUME IInv, Calls \/ Step,
         (Closing \/ Succeeded(Reads \cup Writes \cup {"erase"}))'
  PROVE  /\ UNCHANGED <<op, lo, hi, buffer, dpsm, card, mem, kind, faults>>
         /\ SD'.version = SD.version /\ pc # "idle"
         /\ \/ /\ Closing /\ sta' = sta
               /\ pc' = "idle" => resp.r = "ok" /\ resp.state = "tran" /\ SD'.state = "tran"
            \/ /\ ClearDataFlags /\ sta \cap ErrorFlags = {} /\ op \in Reads \cup Writes
               /\ \/ /\ pc = "data" /\ op # "writeDma" /\ sta \cap EndFlags # {}
                     /\ op \in {"readN", "writeN"} => "DATAEND" \notin sta
                  \/ pc = "dma" /\ op = "writeDma" /\ "TCIF" \in sta /\ "DATAEND" \notin sta
                  \/ Stopping
               /\ pc' = "idle" => op = "writeDma"
            \/ ClearDataFlags /\ pc = "erase" /\ resp.r = "ok" /\ op = "erase" /\ pc' = "status"
<1> USE DEF Closing, Succeeded, Sends, Returns, WaitsReady, SendsApp, On, callKeeps, loopKeeps
<1>0. TypeOK /\ CallInPhase /\ Heard.version = SD.version
      /\ (resp.r = "ok" => Heard.state = resp.state)
  BY TypeParts, HeardType DEF IInv, PeerType, ProgramType
<1>1. CASE Calls
  BY <1>1 DEF Calls, CallInit, CallOne, CallTwo, CallErase, DataCommands
<1>2. CASE OnIfCond \/ OnOpCond
  BY <1>2 DEF OnIfCond, OnOpCond, NextTrial, GivesUp
<1>3. CASE OnCid \/ OnRca \/ OnCsd \/ OnSelect \/ OnWidth
  BY <1>0, <1>3 DEF OnCid, OnRca, OnCsd, OnSelect, OnWidth, GivesUp, CallInPhase, Reads, Writes
<1>4. CASE OnAppCmd \/ OnTransfer
  BY <1>0, <1>4 DEF OnAppCmd, OnTransfer, CallInPhase
<1>5. CASE EndData
  <2>1. UNCHANGED <<op, lo, hi, buffer, dpsm, card, mem, kind, faults, SD>>
    BY <1>5 DEF EndData, cardKeeps
  <2>2. op # "writeDma" /\ StopsOrConcludes
    BY <1>5 DEF EndData
  <2>3. Concludes /\ (op \in {"readN", "writeN"} => "DATAEND" \notin sta)
    BY <2>2 DEF StopsOrConcludes
  <2> QED
    BY <1>0, <1>5, <2>1, <2>2, <2>3 DEF EndData, Concludes, CallInPhase
<1>6. CASE EndDma
  <2>1. UNCHANGED <<op, lo, hi, buffer, dpsm, card, mem, kind, faults, SD>> /\ op = "writeDma"
    BY <1>0, <1>6 DEF EndDma, cardKeeps, CallInPhase
  <2>2. Concludes /\ "DATAEND" \notin sta
    BY <1>6, <2>1 DEF EndDma, StopsOrConcludes
  <2> QED
    BY <1>0, <1>6, <2>1, <2>2 DEF EndDma, Concludes, Writes
<1>7. CASE OnStop
  <2>1. UNCHANGED <<op, lo, hi, buffer, dpsm, card, mem, kind, faults>> /\ SD'.version = SD.version
    BY <1>0, <1>7 DEF OnStop, cardKeeps
  <2>2. Concludes /\ pc = "stop" /\ op \in Reads \cup Writes
    BY <1>0, <1>7 DEF OnStop, CallInPhase, Two, Reads, Writes
  <2> QED
    BY <2>1, <2>2 DEF Concludes, Stopping
<1>8. CASE OnErase
  BY <1>0, <1>8 DEF OnErase, cardKeeps, NextErase, CallInPhase, Ok
<1>9. CASE OnStatus
  <2>1. UNCHANGED <<op, lo, hi, buffer, dpsm, card, mem, kind, faults>> /\ SD' = Heard
        /\ SD'.version = SD.version /\ pc = "status"
    BY <1>0, <1>9 DEF OnStatus, cardKeeps
  <2>2. CASE resp.r = "ok" /\ resp.state = "tran" /\ Ready
    <3>1. CASE Concludes /\ then = "stopped"
      <4>1. op \in Reads \cup Writes
        BY <1>0, <2>1, <3>1 DEF CallInPhase, Two, Reads, Writes
      <4> QED
        BY <2>1, <3>1, <4>1 DEF Concludes, Stopping
    <3>2. CASE Returns("ok") /\ then = "return" /\ sta' = sta
      BY <1>0, <2>1, <2>2, <3>2
    <3> QED
      BY <2>2, <3>1, <3>2 DEF Ready
  <2>3. CASE Sends("status") /\ UNCHANGED <<then, sta>>
    BY <2>1, <2>3
  <2> QED
    BY <1>9, <2>2, <2>3 DEF OnStatus, NotReady, Ok
<1> QED
  BY <1>1, <1>2, <1>3, <1>4, <1>5, <1>6, <1>7, <1>8, <1>9 DEF Step

\* The data path: it stops when the data have gone through, and the call has
\* done what it was to do; or with an error; or late, when no call listens.
LEMMA HardwareData ==
  ASSUME IInv, OtherHardware
  PROVE  \/ Progress /\ UNCHANGED <<dpsm, sta, buffer, mem, faults>>
         \/ /\ StreamEnds /\ pc \in {"data", "dma"} /\ op = "writeDma"
            /\ dpsm = "send" /\ dpsm' = "drain" /\ sta' = sta \cup {"TCIF"}
            /\ UNCHANGED <<buffer, card, faults>>
            /\ \A l \in Lbas \ Extent : mem'[l] = mem[l]
         \/ /\ Drain /\ dpsm = "drain" /\ dpsm' = "off" /\ UNCHANGED <<buffer, mem>>
            /\ card'.state = card.state
            /\ sta' = sta \cup EndOfData \/ sta' = sta \cup {"DCRCFAIL"}
         \/ /\ dpsm' = "off" /\ dpsm \in {"recv", "send"}
            /\ \/ /\ Receive /\ pc = "data" /\ sta' = sta \cup EndOfData /\ op \in Reads
                  /\ dpsm = "recv"
                  /\ buffer' = [l \in Extent |-> mem[l]] /\ mem' = mem
               \/ /\ Receive /\ pc = "data" /\ op \in Reads /\ dpsm = "recv"
                  /\ \E f \in {"DTIMEOUT", "DCRCFAIL", "RXOVERR", "STBITERR"} : sta' = sta \cup {f}
                  /\ mem' = mem
               \/ /\ LateReceive /\ pc # "readN" /\ dpsm = "recv"
                  /\ \E f \in {"RXOVERR", "DTIMEOUT"} : sta' = sta \cup {f}
                  /\ UNCHANGED <<buffer, mem>>
               \/ /\ Transmit /\ pc = "data" /\ op \in Writes \ {"writeDma"} /\ dpsm = "send"
                  /\ sta' = sta \cup EndOfData
                  /\ \A l \in Extent \cap Lbas : mem'[l] = 1
                  /\ \A l \in Lbas \ Extent : mem'[l] = mem[l]
               \/ /\ Transmit /\ pc \in {"data", "dma"} /\ op \in Writes /\ dpsm = "send"
                  /\ \E f \in {"DTIMEOUT", "DCRCFAIL", "TXUNDERR"}, m \in SUBSET {"TCIF"} :
                       sta' = sta \cup {f} \cup m
                  /\ faults' > 0
                  /\ \A l \in Lbas \ Extent : mem'[l] = mem[l]
<1>0. TypeOK /\ CallInPhase /\ DataPath /\ faults \in Nat /\ card \in CardType
  BY TypeParts, BoundsAssumption DEF IInv, TypeOK, PeerType
<1>00. \A ones \in SUBSET Extent : \A l \in Lbas \ Extent : Stored(ones)[l] = mem[l]
  BY DEF Stored
<1>1. CASE Progress
  BY <1>1 DEF Progress, driverVars
<1>2. CASE Receive
  <2>1. op \in Reads /\ pc = "data" /\ dpsm = "recv" /\ mem' = mem
    BY <1>0, <1>2 DEF Receive, CallInPhase, DataPath
  <2>2. \/ buffer' = [l \in Extent |-> mem[l]] /\ Stops(EndOfData, Ending("tran"))
        \/ \E f \in {"DTIMEOUT", "DCRCFAIL", "RXOVERR", "STBITERR"} : Stops({f}, Ending("tran"))
    BY <1>2 DEF Receive
  <2> QED
    BY <1>2, <2>1, <2>2 DEF Stops
<1>3. CASE LateReceive
  BY <1>3 DEF LateReceive, Stops
<1>4. CASE Transmit
  <2>1. op \in Writes /\ pc \in {"data", "dma"} /\ dpsm = "send"
    BY <1>0, <1>4 DEF Transmit, CallInPhase, DataPath, Writes
  <2>2. CASE op # "writeDma" /\ mem' = Stored(Extent) /\ Stops(EndOfData, Ending("prg"))
    <3>1. pc = "data"
      BY <1>0, <2>1, <2>2 DEF CallInPhase
    <3>2. \A l \in Extent \cap Lbas : mem'[l] = 1
      BY <2>2 DEF Stored
    <3>3. \A l \in Lbas \ Extent : mem'[l] = mem[l]
      BY <1>00, <2>2
    <3>4. dpsm' = "off" /\ sta' = sta \cup EndOfData
      BY <2>2 DEF Stops
    <3> QED
      BY <1>4, <2>1, <2>2, <3>1, <3>2, <3>3, <3>4
  <2>3. CASE /\ \E f \in {"DTIMEOUT", "DCRCFAIL", "TXUNDERR"},
                   moved \in IF op = "writeDma" THEN {{}, {"TCIF"}} ELSE {{}} :
                  Stops({f} \cup moved, IF f = "TXUNDERR" THEN card.state ELSE Ending("prg"))
             /\ \E ones \in SUBSET Extent : mem' = Stored(ones)
             /\ Fault
    <3>1. \E f \in {"DTIMEOUT", "DCRCFAIL", "TXUNDERR"}, m \in SUBSET {"TCIF"} :
            sta' = sta \cup {f} \cup m
      BY <2>3 DEF Stops
    <3>2. faults' > 0
      BY <1>0, <2>3 DEF Fault
    <3>3. \A l \in Lbas \ Extent : mem'[l] = mem[l]
      BY <1>00, <2>3
    <3>4. dpsm' = "off"
      BY <2>3 DEF Stops
    <3> QED
      BY <1>4, <2>1, <3>1, <3>2, <3>3, <3>4
  <2> QED
    BY <1>4, <2>2, <2>3 DEF Transmit
<1>5. CASE StreamEnds
  <2>1. \A l \in Lbas \ Extent : mem'[l] = mem[l]
    BY <1>00, <1>5 DEF StreamEnds
  <2> QED
    BY <1>5, <2>1 DEF StreamEnds
<1>6. CASE Drain
  <2>1. PICK f \in {EndOfData, {"DCRCFAIL"}} : Stops(f, card.state)
    BY <1>6 DEF Drain
  <2>2. card'.state = card.state
    BY <1>0, <2>1 DEF Stops, CardType
  <2> QED
    BY <1>6, <2>1, <2>2 DEF Drain, Stops
<1> QED
  BY <1>1, <1>2, <1>3, <1>4, <1>5, <1>6 DEF OtherHardware

\* DataPath, in a step of the hardware.
LEMMA DataPathHardware == ASSUME IInv, Answer \/ OtherHardware PROVE DataPath'
<1>0. TypeOK /\ CallInPhase /\ DataPath /\ faults \in Nat
  BY BoundsAssumption DEF IInv, TypeOK
<1> USE DEF DataPath, Moving, Closing, Stopping, Succeeded, Reads, Writes, Waiting, EndFlags,
            ErrorFlags, EndOfData
<1>1. CASE Answer
  <2>1. AnswerKeeps
    BY <1>0, <1>1, AnswerCases
  <2>2. faults' \in Nat /\ faults' >= faults
    BY <1>0, <2>1, BoundsAssumption DEF AnswerKeeps
  <2>3. pc' = pc /\ pc \notin {"idle", "data", "dma"}
    BY <1>0, <1>1, <2>1 DEF AnswerKeeps, CallInPhase, Answer
  <2> QED
    BY <1>0, <2>1, <2>2, <2>3 DEF AnswerKeeps
<1>2. CASE OtherHardware
  <2>1. /\ UNCHANGED <<pc, op, lo, hi, SD, left, trial, then, ret, inited, cmd, resp>>
        /\ faults' \in Nat /\ faults' >= faults
    BY <1>0, <1>2, OtherHardwareCard
  <2>2. CASE UNCHANGED <<dpsm, sta>>
    BY <1>0, <2>1, <2>2
  <2>3. ASSUME dpsm' = "off", dpsm = "recv", pc = "data", op \in Reads,
               \/ sta' = sta \cup EndOfData
               \/ \E f \in {"DTIMEOUT", "DCRCFAIL", "RXOVERR", "STBITERR"} : sta' = sta \cup {f}
        PROVE  DataPath'
    BY <1>0, <2>1, <2>3
  <2>4. ASSUME dpsm' = "off", dpsm = "recv", pc # "readN",
               \E f \in {"RXOVERR", "DTIMEOUT"} : sta' = sta \cup {f}
        PROVE  DataPath'
    BY <1>0, <2>1, <2>4 DEF CallInPhase
  <2>5. ASSUME dpsm' = "off", dpsm = "send", pc \in {"data", "dma"}, op \in Writes,
               \/ sta' = sta \cup EndOfData /\ op # "writeDma"
               \/ /\ faults' > 0
                  /\ \E f \in {"DTIMEOUT", "DCRCFAIL", "TXUNDERR"}, m \in SUBSET {"TCIF"} :
                       sta' = sta \cup {f} \cup m
        PROVE  DataPath'
    BY <1>0, <2>1, <2>5
  <2>6. ASSUME dpsm' = "drain", dpsm = "send", pc \in {"data", "dma"}, op = "writeDma",
               sta' = sta \cup {"TCIF"}
        PROVE  DataPath'
    BY <1>0, <2>1, <2>6
  <2>7. ASSUME dpsm' = "off", dpsm = "drain",
               sta' = sta \cup EndOfData \/ sta' = sta \cup {"DCRCFAIL"}
        PROVE  DataPath'
    BY <1>0, <2>1, <2>7 DEF CallInPhase, Two
  <2> QED
    BY <1>2, <2>2, <2>3, <2>4, <2>5, <2>6, <2>7, HardwareData
<1> QED
  BY <1>1, <1>2

\* DataPath, in a step of the program.
LEMMA DataPathProgram == ASSUME IInv, Calls \/ Step PROVE DataPath'
<1>0. TypeOK /\ CallInPhase /\ DataPath
  BY DEF IInv
<1>00. ASSUME OnTransfer, resp.r = "ok"
       PROVE  sta \cap EndOfData = {} /\ dpsm # "drain"
  <2>1. pc \in DataCommands /\ ~Moving /\ op # "init" /\ pc \notin {"data", "dma", "idle"}
    BY <1>0, <1>00 DEF OnTransfer, DataCommands, Moving, Stopping, CallInPhase, DataCommand
  <2>2. ~Abandoned
    BY <1>00, <2>1 DEF IInv, Marooned
  <2> QED
    BY <1>0, <2>1, <2>2 DEF Abandoned
<1> USE DEF Sends, Returns, WaitsReady, SendsApp, On, callKeeps, loopKeeps
<1>1. ASSUME (Closing \/ Succeeded(Reads \cup Writes \cup {"erase"}))'
      PROVE  /\ sta' \subseteq {"STBITERR"} /\ dpsm' # "recv"
             /\ pc' = "idle" /\ op' = "writeDma" /\ "STBITERR" \notin sta' => dpsm' = "off"
  <2>1. UNCHANGED <<op, dpsm>>
    BY <1>0, <1>1, ProgramCard, ClosingFlow
  <2>2. CASE Closing /\ sta' = sta
    BY <1>0, <2>1, <2>2 DEF DataPath, Closing, CallInPhase, Two
  <2>3. CASE ClearDataFlags /\ pc = "erase" /\ op = "erase"
    BY <1>0, <2>1, <2>3, FlagsType DEF DataPath, TypeOK
  <2>4. CASE /\ ClearDataFlags /\ sta \cap ErrorFlags = {} /\ op \in Reads \cup Writes
             /\ \/ pc = "data" /\ op # "writeDma" /\ sta \cap EndFlags # {}
                \/ pc = "dma" /\ op = "writeDma" /\ "DATAEND" \notin sta
                \/ Stopping
             /\ pc' = "idle" => op = "writeDma"
    <3>1. sta' \subseteq {"STBITERR"} /\ ("STBITERR" \in sta => "STBITERR" \in sta')
      BY <1>0, <2>4, FlagsType DEF TypeOK, ClearDataFlags, ClearedMask
    <3>2. CASE op \in Reads
      <4>1. sta \cap EndOfData # {} /\ Moving
        BY <1>0, <2>4, <3>2 DEF DataPath, EndFlags, ErrorFlags, EndOfData, Reads, Moving
      <4>2. dpsm = "off"
        BY <1>0, <4>1 DEF DataPath
      <4> QED
        BY <2>1, <3>1, <4>2
    <3>3. CASE op \in Writes
      <4>1. dpsm' # "recv"
        BY <1>0, <2>1, <3>3 DEF DataPath
      <4>2. CASE Stopping
        <5>1. sta \cap EndOfData # {} /\ Moving
          BY <1>0, <4>2 DEF DataPath, EndOfData, Moving
        <5> QED
          BY <1>0, <2>1, <3>1, <4>1, <5>1 DEF DataPath
      <4>3. CASE pc = "data" /\ op # "writeDma"
        BY <2>1, <3>1, <4>1, <4>3
      <4>4. CASE pc = "dma" /\ op = "writeDma" /\ "DATAEND" \notin sta
        <5>1. "STBITERR" \in sta
          BY <1>0, <2>4, <4>4 DEF DataPath, EndFlags, ErrorFlags, Reads
        <5> QED
          BY <3>1, <4>1, <5>1
      <4> QED
        BY <2>4, <4>2, <4>3, <4>4
    <3> QED
      BY <2>4, <3>2, <3>3
  <2> QED
    BY <1>1, <2>2, <2>3, <2>4, ClosingFlow
<1>2. /\ pc' \in {"data", "dma"} /\ dpsm' = "off" => "DATAEND" \in sta' \/ sta' \cap ErrorFlags' # {}
      /\ pc' \in {"data", "dma"} /\ op' = "writeDma" /\ dpsm' = "off" /\ "TCIF" \notin sta' => faults' > 0
  <2>1. CASE pc' = "data"
    <3>1. OnTransfer /\ pc = DataCommand /\ pc \in DataCommands /\ op' = op
          /\ dpsm' = IF op = "read1" THEN "recv" ELSE dpsm
      BY <2>1, TransferFlow DEF OnTransfer
    <3>2. dpsm' # "off"
      BY <1>0, <3>1 DEF DataPath, DataCommands, DataCommand
    <3> QED
      BY <2>1, <3>2
  <2>2. CASE pc' = "dma"
    <3>1. pc = "data" /\ op = "writeDma" /\ UNCHANGED <<op, sta, dpsm, faults>>
      BY <2>2, TransferFlow
    <3> QED
      BY <1>0, <3>1 DEF DataPath, ErrorFlags
  <2> QED
    BY <2>1, <2>2
<1> DEFINE Rest == /\ op \in Writes => dpsm # "recv"
                   /\ op = "erase" => dpsm = "off"
                   /\ op \in Reads => dpsm # "send"
                   /\ pc \in {"write1", "writeN"} => dpsm = "send"
                   /\ pc = "readN" => dpsm = "recv"
                   /\ sta \cap EndOfData # {} => EndOfData \subseteq sta
                   /\ sta \cap EndOfData # {} /\ Moving => dpsm = "off"
                   /\ Stopping => "DATAEND" \in sta
<1>3. Rest'
  <2> USE DEF Moving, Stopping, Reads, Writes
  <2>0. Rest
    BY <1>0 DEF DataPath
  <2>1. ASSUME ClearDataFlags PROVE sta' \cap EndOfData = {}
    BY <1>0, <2>1, FlagsType DEF TypeOK, EndOfData
  <2>2. CASE CallInit
    BY <2>0, <2>2 DEF CallInit, ResetSd
  <2>3. CASE Calls /\ ~CallInit
    <3>1. CASE \E o \in {"read1", "write1"}, m \in Blocks : CallOne(o, m)
      BY <2>0, <3>1 DEF CallOne, Call
    <3>2. CASE \E o \in {"readN", "writeN", "writeDma"}, m \in Blocks \ {NBlocks - 1} : CallTwo(o, m)
      BY <2>0, <3>2 DEF CallTwo, Call
    <3>3. CASE \E a, b \in Blocks : CallErase(a, b)
      BY <2>0, <3>3 DEF CallErase, Call
    <3> QED
      BY <2>3, <3>1, <3>2, <3>3 DEF Calls
  <2>4. CASE OnIfCond \/ OnAppCmd \/ OnOpCond \/ OnCid \/ OnRca \/ OnCsd \/ OnSelect \/ OnWidth
    <3>1. op = "init" /\ op' = op /\ UNCHANGED <<dpsm, sta>> /\ ~Stopping /\ pc \notin {"data", "dma"}
      BY <1>0, <2>4 DEF OnIfCond, OnAppCmd, OnOpCond, OnCid, OnRca, OnCsd, OnSelect, OnWidth,
         CallInPhase, GivesUp, sdioKeeps
    <3>2. CallInPhase'
      BY PhaseStep, <2>4 DEF Next, Step
    <3> QED
      BY <2>0, <3>1, <3>2 DEF CallInPhase, Two, DataCommands, DataCommand
  <2>5. CASE OnTransfer
    <3>1. op' = op /\ sta' = sta /\ pc' \in {"data", "idle"} /\ pc \in DataCommands
          /\ dpsm' \in {dpsm, "recv"} /\ (dpsm' = dpsm \/ op = "read1")
          /\ (pc' = "data" => resp.r = "ok")
      BY <2>5 DEF OnTransfer, Ok
    <3>2. pc' = "data" => sta' \cap EndOfData = {}
      BY <1>00, <2>5, <3>1
    <3> QED
      BY <2>0, <3>1, <3>2 DEF DataCommands
  <2>6. ASSUME Concludes, UNCHANGED <<op, dpsm>> PROVE Rest'
    BY <2>0, <2>1, <2>6 DEF Concludes
  <2>7. CASE EndData \/ EndDma
    <3>1. UNCHANGED <<op, dpsm>> /\ pc \in {"data", "dma"}
      BY <2>7 DEF EndData, EndDma
    <3>2. CASE pc' = "dma" /\ sta' = sta
      BY <2>0, <3>1, <3>2
    <3>3. CASE Sends("stop") /\ sta' = sta /\ "DATAEND" \in sta
      BY <2>0, <3>1, <3>3
    <3> QED
      BY <2>6, <2>7, <3>1, <3>2, <3>3 DEF EndData, EndDma, StopsOrConcludes
  <2>8. CASE OnStop
    <3>1. UNCHANGED <<op, dpsm>>
      BY <2>8 DEF OnStop
    <3>2. CASE WaitsReady("stopped") /\ sta' = sta
      BY <2>0, <2>8, <3>1, <3>2 DEF OnStop
    <3>3. CASE ClearDataFlags /\ Returns("error")
      BY <2>0, <2>1, <3>1, <3>3
    <3> QED
      BY <2>6, <2>8, <3>1, <3>2, <3>3 DEF OnStop
  <2>9. CASE OnErase
    <3>1. UNCHANGED <<op, dpsm>> /\ pc \in {"eraseStart", "eraseEnd", "erase"}
      BY <2>9 DEF OnErase
    <3>2. CASE pc # "erase" /\ Sends(NextErase[pc]) /\ sta' = sta
      BY <2>0, <3>1, <3>2 DEF NextErase
    <3>3. CASE ClearDataFlags /\ (WaitsReady("return") \/ Returns("error"))
      BY <2>0, <2>1, <3>1, <3>3
    <3> QED
      BY <2>9, <3>2, <3>3 DEF OnErase
  <2>10. CASE OnStatus
    <3>1. UNCHANGED <<op, dpsm>> /\ pc = "status"
      BY <2>10 DEF OnStatus
    <3>2. CASE Ready
      <4>1. CASE then = "return"
        BY <2>0, <3>1, <3>2, <4>1 DEF Ready
      <4>2. CASE then = "selected"
        BY <2>0, <3>1, <3>2, <4>2 DEF Ready
      <4>3. CASE then = "stopped"
        BY <2>6, <3>1, <3>2, <4>3 DEF Ready
      <4>4. CASE then = "eraseStart"
        BY <2>0, <3>1, <3>2, <4>4 DEF Ready
      <4> QED
        BY <1>0, <3>1, <4>1, <4>2, <4>3, <4>4 DEF CallInPhase
    <3>3. CASE NotReady
      <4>1. CASE then = "stopped"
        BY <2>0, <2>1, <3>1, <3>3, <4>1 DEF NotReady
      <4>2. CASE then # "stopped"
        BY <2>0, <3>1, <3>3, <4>2 DEF NotReady
      <4> QED
        BY <4>1, <4>2
    <3>4. CASE Sends("status") /\ UNCHANGED <<then, sta>>
      BY <2>0, <3>1, <3>4
    <3> QED
      BY <2>10, <3>2, <3>3, <3>4 DEF OnStatus
  <2> QED
    BY <2>2, <2>3, <2>4, <2>5, <2>7, <2>8, <2>9, <2>10 DEF Step
<1>4. /\ dpsm' = "drain" => op' = "init" \/ (op' = "writeDma" /\ pc' \in {"data", "dma", "idle"})
      /\ pc' \in {"data", "dma"} /\ dpsm' = "drain" => "TCIF" \in sta'
  <2>1. CASE CallInit
    BY <2>1 DEF CallInit
  <2>2. CASE Calls /\ ~CallInit
    <3>1. dpsm' # "drain"
      BY <2>2 DEF Calls, CallOne, CallTwo, CallErase, Call
    <3> QED
      BY <3>1
  <2>3. ASSUME Step, dpsm' = "drain"
        PROVE  /\ op' = "init" \/ (op' = "writeDma" /\ pc' \in {"data", "dma", "idle"})
               /\ pc' \in {"data", "dma"} => "TCIF" \in sta'
    <3>1. op' = op /\ pc # "idle"
      BY <1>0, <2>3, ProgramHistory DEF Step, OnIfCond, OnAppCmd, OnOpCond, OnCid, OnRca, OnCsd,
         OnSelect, OnWidth, OnTransfer, EndData, EndDma, OnStop, OnErase, OnStatus, GivesUp,
         DataCommands
    <3>2. dpsm = "drain"
      BY <2>3 DEF Step, OnIfCond, OnAppCmd, OnOpCond, OnCid, OnRca, OnCsd, OnSelect, OnWidth,
         OnTransfer, EndData, EndDma, OnStop, OnErase, OnStatus, GivesUp, sdioKeeps
    <3>3. CASE op = "init"
      <4>1. pc' \notin {"data", "dma"}
        <5>1. CallInPhase'
          BY <2>3, PhaseStep DEF Next
        <5> QED
          BY <3>1, <3>3, <5>1 DEF CallInPhase, Reads, Writes
      <4> QED
        BY <3>1, <3>3, <4>1
    <3>4. CASE op = "writeDma" /\ pc \in {"data", "dma"}
      <4>1. EndData \/ EndDma
        BY <2>3, <3>4 DEF Step, OnIfCond, OnAppCmd, OnOpCond, OnCid, OnRca, OnCsd, OnSelect,
           OnWidth, OnTransfer, OnStop, OnErase, OnStatus, DataCommands
      <4>2. "DATAEND" \notin sta /\ "TCIF" \in sta
        BY <1>0, <3>2, <3>4 DEF DataPath, Moving, EndOfData
      <4>3. CASE pc' = "dma" /\ sta' = sta
        BY <3>1, <3>4, <4>2, <4>3
      <4>4. CASE Concludes
        BY <3>1, <3>4, <4>4 DEF Concludes
      <4> QED
        BY <3>4, <4>1, <4>2, <4>3, <4>4 DEF EndData, EndDma, StopsOrConcludes
    <3> QED
      BY <1>0, <3>1, <3>2, <3>3, <3>4 DEF DataPath
  <2> QED
    BY <2>1, <2>2, <2>3
<1>5. pc' = "dma" => sta' \cap EndFlags' # {}
  BY TransferFlow DEF EndFlags
<1>6. Succeeded(Waiting)' \/ Succeeded({"writeDma"})' =>
        pc' = "idle" /\ Succeeded(Reads \cup Writes \cup {"erase"})'
  BY DEF Succeeded, Waiting, Reads, Writes
<1>7. Succeeded({"writeDma"})' => pc' = "idle" /\ op' = "writeDma"
  BY DEF Succeeded
<1>8. "STBITERR" \notin sta' /\ sta' \subseteq {"STBITERR"} => sta' = {}
  OBVIOUS
<1> QED
  BY <1>1, <1>2, <1>3, <1>4, <1>5, <1>6, <1>7, <1>8 DEF DataPath

\* CardWaits: a card that is written to is in the state rcv until its data come,
\* and a card that is in the state tran stays there.
LEMMA CardWaitsStep == ASSUME IInv, [Next]_vars PROVE CardWaits'
<1>0. TypeOK /\ CallInPhase /\ DataPath /\ CardWaits /\ card \in CardType /\ NoResp.r = "none"
  BY NoRespType, TypeParts DEF IInv, PeerType
<1>1. CASE UNCHANGED vars
  BY <1>0, <1>1 DEF vars, CardWaits, Closing, Succeeded, Waiting
<1>2. CASE Answer
  <2>1. AnswerKeeps /\ cmd = pc /\ pc \in Commands /\ pc \notin {"idle", "data", "dma"}
    BY <1>0, <1>2, AnswerCases DEF CallInPhase, Answer, AnswerKeeps, Commands, DataCommands
  <2>2. pc \in {"write1", "writeN"} /\ resp'.r = "ok" => card'.state = "rcv"
    BY <1>0, <1>2, <2>1, AnswerOk DEF StateAfter
  <2>3. ASSUME pc = "status" PROVE card'.state = card.state /\ (resp'.r = "ok" => resp'.state = card.state)
    <3>1. CASE Silent
      BY <1>0, <3>1, SilenceType DEF Silent, CardType
    <3>2. ASSUME NEW up \in BOOLEAN, Obeyed(up)
          PROVE  card'.state = card.state /\ (resp'.r = "ok" => resp'.state = card.state)
      <4>1. card'.state = card.state
        BY <2>1, <2>3, <3>2 DEF Obeyed, StateAfter
      <4>2. resp'.r = "ok" => resp'.state = card.state
        BY <1>0, <2>1, <3>2, AnsweredType, SilenceType DEF Obeyed
      <4> QED
        BY <4>1, <4>2
    <3> QED
      BY <1>0, <1>2, <3>1, <3>2, AnswerCases
  <2> QED
    BY <1>0, <2>1, <2>2, <2>3 DEF CardWaits, AnswerKeeps, Closing, Succeeded, Waiting
<1>3. CASE OtherHardware
  <2>1. \/ dpsm' \in {dpsm, "off"}
        \/ dpsm = "send" /\ dpsm' = "drain" /\ pc \in {"data", "dma"}
    BY <1>3, HardwareData
  <2> QED
    BY <1>0, <1>3, <2>1, OtherHardwareCard DEF CardWaits, Closing, Succeeded, Waiting, DataCommands
<1>4. CASE Calls \/ Step
  <2>1. resp'.r # "ok"
    BY <1>0, <1>4, ProgramResp
  <2>2. ASSUME dpsm' \in {"send", "drain"}, pc' \in {"data", "dma"} PROVE card'.state = "rcv"
    <3>1. CASE pc' = "data"
      <4>1. /\ OnTransfer /\ resp.r = "ok" /\ pc = DataCommand /\ card' = card
            /\ dpsm' = IF op = "read1" THEN "recv" ELSE dpsm
        BY <1>4, <3>1, TransferFlow
      <4>2. pc \in {"write1", "writeN"}
        BY <1>0, <2>2, <4>1 DEF OnTransfer, DataCommands, DataPath, DataCommand, CallInPhase
      <4> QED
        BY <1>0, <4>1, <4>2 DEF CardWaits
    <3>2. CASE pc' = "dma"
      BY <1>0, <1>4, <2>2, <3>2, TransferFlow DEF CardWaits
    <3> QED
      BY <2>2, <3>1, <3>2
  <2>3. ASSUME (Closing \/ Succeeded(Reads \cup Writes \cup {"erase"}))'
        PROVE  /\ dpsm' = "send" /\ Closing' /\ op' \in Writes => card'.state = "rcv"
               /\ pc' = "idle" /\ op' # "writeDma" =>
                    card'.state = "tran" /\ SD'.state = "tran" /\ dpsm' = "off"
    <3>1. UNCHANGED <<op, dpsm, card>>
      BY <1>4, <2>3, ClosingFlow
    <3>2. CASE /\ Closing
               /\ pc' = "idle" => resp.r = "ok" /\ resp.state = "tran" /\ SD'.state = "tran"
      <4>1. op \in Reads \cup Writes \cup {"erase"} /\ op # "writeDma" /\ op # "init"
        BY <1>0, <3>2 DEF CallInPhase, Closing, Two, Reads, Writes
      <4>2. dpsm \in {"off", "send"} /\ (dpsm = "send" => op \in Writes)
        BY <1>0, <3>2, <4>1 DEF DataPath, TypeOK
      <4>3. pc' = "idle" => card.state = "tran"
        BY <1>0, <3>2 DEF CardWaits, Closing
      <4>4. dpsm = "send" => card.state = "rcv"
        BY <1>0, <3>2, <4>2 DEF CardWaits
      <4> QED
        BY <3>1, <3>2, <4>2, <4>3, <4>4
    <3>3. CASE pc \in {"data", "dma"} /\ (pc' = "idle" => op = "writeDma")
      BY <1>0, <3>1, <3>3 DEF CardWaits
    <3>4. CASE Stopping /\ (pc' = "idle" => op = "writeDma")
      BY <1>0, <3>1, <3>4 DEF DataPath, EndOfData, Moving
    <3>5. CASE op = "erase" /\ pc' = "status"
      BY <3>1, <3>5 DEF Writes
    <3> QED
      BY <1>4, <2>3, <3>2, <3>3, <3>4, <3>5, ClosingFlow
  <2>4. Succeeded(Waiting)' =>
          /\ Succeeded(Reads \cup Writes \cup {"erase"})'
          /\ pc' = "idle" /\ op' # "writeDma"
    BY DEF Succeeded, Waiting, Reads, Writes
  <2> QED
    BY <2>1, <2>2, <2>3, <2>4 DEF CardWaits
<1> QED
  BY <1>1, <1>2, <1>3, <1>4 DEF Next, Hardware, OtherHardware

\* What a call is about stays until it returns, and its flags are only cleared.
LEMMA ProgramKeeps ==
  ASSUME IInv, Calls \/ Step
  PROVE  /\ sta' \subseteq sta /\ mem' = mem
         /\ pc # "idle" => /\ UNCHANGED <<op, lo, hi, buffer>>
                           /\ op # "init" => SD'.version = SD.version
         /\ pc = "idle" => pc' # "idle"
<1>1. sta' \subseteq sta
  <2>1. CASE Calls
    BY <2>1 DEF Calls, CallInit, CallOne, CallTwo, CallErase, Call
  <2>2. CASE OnIfCond \/ OnAppCmd \/ OnOpCond \/ OnCid \/ OnRca \/ OnCsd \/ OnSelect \/ OnWidth
    BY <2>2 DEF OnIfCond, OnAppCmd, OnOpCond, OnCid, OnRca, OnCsd, OnSelect, OnWidth, GivesUp,
       sdioKeeps
  <2>3. CASE OnTransfer \/ OnStop \/ OnErase \/ OnStatus
    BY <2>3 DEF OnTransfer, OnStop, OnErase, OnStatus, Concludes, Ready, NotReady, ClearDataFlags
  <2>4. CASE EndData \/ EndDma
    BY <2>4 DEF EndData, EndDma, StopsOrConcludes, Concludes, ClearDataFlags
  <2> QED
    BY <2>1, <2>2, <2>3, <2>4 DEF Step
<1>2. mem' = mem
  BY ProgramCard
<1>3. ASSUME pc # "idle" PROVE UNCHANGED <<op, lo, hi, buffer>>
  <2>1. Step
    BY <1>3 DEF Calls, CallInit, CallOne, CallTwo, CallErase, Call
  <2>2. buffer' = buffer
    BY <2>1 DEF Step, OnIfCond, OnAppCmd, OnOpCond, OnCid, OnRca, OnCsd, OnSelect, OnWidth,
       OnTransfer, EndData, EndDma, OnStop, OnErase, OnStatus, GivesUp
  <2> QED
    BY <1>3, <2>2, ProgramHistory DEF CallInit
<1>4. pc # "idle" /\ op # "init" => SD'.version = SD.version
  BY <1>3, ProgramRecord
<1>5. pc = "idle" => pc' # "idle"
  BY ProgramHistory DEF CallInit
<1> QED
  BY <1>1, <1>2, <1>3, <1>4, <1>5

\* What has been done stays done while the call, its buffer and the blocks stay.
LEMMA DoneKeeps ==
  ASSUME UNCHANGED <<op, lo, hi, buffer, mem>>, SD'.version = SD.version
  PROVE  Done' <=> Done
<1>1. Extent' = Extent /\ EraseExtent' = EraseExtent
  BY AddressKeeps
<1> QED
  BY <1>1 DEF Done

\* Effect: the data end when they have been moved, and an erase is confirmed
\* when it has been made.
LEMMA EffectHardware == ASSUME IInv, Answer \/ OtherHardware PROVE Effect'
<1>0. TypeOK /\ CallInPhase /\ DataPath /\ Effect /\ InRange
  BY DEF IInv
<1> USE DEF Moving, Stopping, Closing, Succeeded
<1>1. CASE Answer
  <2>1. AnswerKeeps /\ cmd = pc /\ pc \in Commands /\ pc \notin {"idle", "data", "dma"}
        /\ resp.r = "none"
    BY <1>0, <1>1, AnswerCases, NoRespType DEF CallInPhase, Answer, AnswerKeeps, Commands, DataCommands
  <2>2. CASE pc # "erase"
    <3>1. mem' = mem
      BY <1>1, <2>2, HardwareMem
    <3>2. Done' <=> Done
      BY <2>1, <3>1, DoneKeeps DEF AnswerKeeps
    <3> QED
      BY <1>0, <2>1, <2>2, <3>2 DEF Effect, AnswerKeeps
  <2>3. CASE pc = "erase"
    <3>1. ASSUME resp'.r = "ok" PROVE Done'
      <4>1. PICK up \in BOOLEAN : Obeyed(up)
        BY <1>0, <1>1, <3>1, AnswerOk
      <4>2. mem' = [l \in Lbas |-> IF l \in EraseExtent THEN 0 ELSE mem[l]]
        BY <2>1, <2>3, <4>1 DEF Obeyed
      <4>3. EraseExtent \subseteq Lbas /\ op = "erase"
        BY <1>0, <2>3, ExtentType DEF InRange, CallInPhase
      <4>4. EraseExtent' = EraseExtent /\ op' = op
        BY <2>1, AddressKeeps DEF AnswerKeeps
      <4>5. \A l \in EraseExtent : mem'[l] = 0
        BY <4>2, <4>3
      <4> QED
        BY <4>3, <4>4, <4>5 DEF Done, Reads
    <3> QED
      BY <2>1, <2>3, <3>1 DEF Effect, AnswerKeeps
  <2> QED
    BY <2>2, <2>3
<1>2. CASE OtherHardware
  <2>1. UNCHANGED <<pc, op, lo, hi, SD, then, ret, resp>>
    BY <1>0, <1>2, OtherHardwareCard
  <2>2. Extent' = Extent
    BY <2>1, AddressKeeps
  <2>3. CASE ~Moving
    <3>1. UNCHANGED <<buffer, mem>>
      BY <1>2, <2>3, HardwareData DEF Receive
    <3>2. Done' <=> Done
      BY <2>1, <3>1, DoneKeeps
    <3>3. dpsm = "send" => dpsm' = "send"
      BY <1>2, <2>3, HardwareData
    <3> QED
      BY <1>0, <2>1, <2>3, <3>2, <3>3 DEF Effect
  <2>4. CASE Moving
    <3>1. ASSUME UNCHANGED <<buffer, mem>>, sta' \cap {"DATAEND"} = sta \cap {"DATAEND"} PROVE Effect'
      <4>1. Done' <=> Done
        BY <2>1, <3>1, DoneKeeps
      <4> QED
        BY <1>0, <2>1, <2>4, <3>1, <4>1 DEF Effect, CallInPhase
    <3>2. ASSUME "DATAEND" \in sta' => Done' PROVE Effect'
      BY <1>0, <2>1, <2>4, <3>2 DEF Effect, CallInPhase
    <3>3. CASE dpsm # "off"
      <4>1. "DATAEND" \notin sta
        BY <1>0, <2>4, <3>3 DEF DataPath, EndOfData
      <4>2. CASE op = "writeDma"
        <5>1. Done'
          BY <2>1, <4>2 DEF Done, Reads
        <5> QED
          BY <3>2, <5>1
      <4>3. CASE buffer' = [l \in Extent |-> mem[l]] /\ mem' = mem /\ op \in Reads
        <5>1. Done'
          BY <2>1, <2>2, <4>3 DEF Done, Reads
        <5> QED
          BY <3>2, <5>1
      <4>4. CASE /\ pc = "data" /\ op \in Writes \ {"writeDma"}
                 /\ \A l \in Extent \cap Lbas : mem'[l] = 1
        <5>1. Extent \subseteq Lbas
          BY <1>0, <4>4, ExtentType DEF InRange
        <5>2. Done'
          BY <2>1, <2>2, <4>4, <5>1 DEF Done, Reads, Writes
        <5> QED
          BY <3>2, <5>2
      <4>5. CASE "DATAEND" \notin sta'
        BY <3>2, <4>5
      <4>6. dpsm = "drain" => op = "writeDma"
        BY <1>0, <2>4 DEF DataPath, CallInPhase, Two, Reads, Writes
      <4>7. Progress => sta' = sta
        BY DEF Progress
      <4> QED
        BY <1>2, <3>3, <4>1, <4>2, <4>3, <4>4, <4>5, <4>6, <4>7, HardwareData
    <3>4. CASE dpsm = "off"
      BY <1>2, <3>1, <3>4, HardwareData
    <3> QED
      BY <3>3, <3>4
  <2> QED
    BY <2>3, <2>4
<1> QED
  BY <1>1, <1>2

\* The call begins to look at the flags of its data when the card has taken its
\* command; the card does not take it while the end of earlier data is about.
LEMMA MovingFlow ==
  ASSUME IInv, Calls \/ Step, Moving', ~Moving
  PROVE  sta' \cap EndOfData = {} /\ dpsm' # "drain"
<1> USE DEF Sends, Returns, WaitsReady, SendsApp, On, Moving, Stopping, loopKeeps
<1>0. TypeOK /\ CallInPhase /\ DataPath
  BY DEF IInv
<1>1. CASE pc' = "data"
  <2>1. /\ OnTransfer /\ resp.r = "ok" /\ pc = DataCommand /\ sta' = sta
        /\ dpsm' = IF op = "read1" THEN "recv" ELSE dpsm
    BY <1>1, TransferFlow
  <2>2. pc \in DataCommands /\ op # "init" /\ pc \notin {"data", "dma", "idle"}
    BY <1>0, <2>1 DEF OnTransfer, DataCommands, DataCommand, CallInPhase
  <2>3. ~Abandoned
    BY <2>1, <2>2 DEF IInv, Marooned
  <2> QED
    BY <1>0, <2>1, <2>2, <2>3 DEF Abandoned
<1>2. pc' # "dma"
  BY TransferFlow
<1>3. ~Stopping'
  <2>1. CASE Calls
    BY <2>1 DEF Calls, CallInit, CallOne, CallTwo, CallErase, DataCommands
  <2>2. CASE OnIfCond \/ OnOpCond
    BY <2>2 DEF OnIfCond, OnOpCond, NextTrial, GivesUp
  <2>3. CASE OnCid \/ OnRca \/ OnCsd \/ OnSelect \/ OnWidth
    BY <2>3 DEF OnCid, OnRca, OnCsd, OnSelect, OnWidth, GivesUp
  <2>4. CASE OnAppCmd \/ OnTransfer
    BY <1>0, <2>4 DEF OnAppCmd, OnTransfer, CallInPhase
  <2>5. CASE EndData \/ EndDma \/ OnStop
    BY <2>5 DEF EndData, EndDma, OnStop
  <2>6. CASE OnErase
    BY <1>0, <2>6 DEF OnErase, NextErase
  <2>7. CASE OnStatus
    BY <2>7 DEF OnStatus, Ready, NotReady, Concludes
  <2> QED
    BY <2>1, <2>2, <2>3, <2>4, <2>5, <2>6, <2>7 DEF Step
<1> QED
  BY <1>1, <1>2, <1>3

\* Effect: a call that comes to its end has done what it was to do, or is a write
\* whose data path still waits, which the card's state will tell.
LEMMA EffectProgram == ASSUME IInv, Calls \/ Step PROVE Effect'
<1>0. TypeOK /\ CallInPhase /\ DataPath /\ CardWaits /\ Effect /\ NoResp.r = "none"
  BY NoRespType DEF IInv
<1>1. resp'.r # "ok"
  BY <1>0, ProgramResp
<1>2. ASSUME Moving', "DATAEND" \in sta' PROVE Done'
  <2>1. "DATAEND" \in sta /\ Moving
    BY <1>2, ProgramKeeps, MovingFlow DEF EndOfData
  <2>2. pc # "idle" /\ op # "init"
    BY <1>0, <2>1 DEF Moving, Stopping, CallInPhase, Two, Reads, Writes
  <2>3. Done' <=> Done
    BY <2>2, ProgramKeeps, DoneKeeps
  <2> QED
    BY <1>0, <2>1, <2>3 DEF Effect
<1>3. ASSUME (Closing \/ Succeeded(Reads \cup Writes \cup {"erase"}))'
      PROVE  /\ Closing' => Done' \/ (dpsm' = "send" /\ op' \in Writes)
             /\ pc' = "idle" => Done'
  <2>1. UNCHANGED <<op, lo, hi, buffer, dpsm, card, mem>> /\ SD'.version = SD.version
    BY <1>3, ClosingFlow
  <2>2. Done' <=> Done
    BY <2>1, DoneKeeps
  <2>3. CASE Closing /\ (pc' = "idle" => resp.r = "ok" /\ resp.state = "tran" /\ SD'.state = "tran")
    BY <1>0, <2>1, <2>2, <2>3 DEF Effect, CardWaits, Closing
  <2>4. CASE op = "writeDma"
    BY <2>2, <2>4 DEF Done, Reads
  <2>5. CASE Stopping
    BY <1>0, <2>2, <2>5 DEF DataPath, Effect, Moving
  <2>6. CASE /\ sta \cap ErrorFlags = {} /\ op \in Reads \cup Writes
             /\ pc = "data" /\ op # "writeDma" /\ sta \cap EndFlags # {}
             /\ (pc' = "idle" => op = "writeDma")
    <3>1. CASE op \in Reads
      <4>1. sta \cap EndOfData # {}
        BY <2>6, <3>1 DEF EndFlags, ErrorFlags, EndOfData, Reads
      <4>2. "DATAEND" \in sta
        BY <1>0, <4>1 DEF DataPath, EndOfData
      <4> QED
        BY <1>0, <2>2, <2>6, <4>2 DEF Effect, Moving
    <3>2. CASE op \in Writes /\ dpsm = "off"
      BY <1>0, <2>2, <2>6, <3>2 DEF DataPath, Effect, Moving
    <3>3. CASE op \in Writes /\ dpsm # "off"
      <4>1. dpsm \in {"recv", "send", "drain"} /\ op # "init"
        BY <1>0, <3>3 DEF TypeOK, Writes
      <4>2. dpsm = "send"
        BY <1>0, <2>6, <3>3, <4>1 DEF DataPath
      <4> QED
        BY <2>1, <2>6, <3>3, <4>2
    <3> QED
      BY <2>6, <3>1, <3>2, <3>3
  <2>7. CASE pc = "erase" /\ resp.r = "ok"
    BY <1>0, <2>2, <2>7 DEF Effect
  <2> QED
    BY <1>3, <2>3, <2>4, <2>5, <2>6, <2>7, ClosingFlow
<1>4. Succeeded(Reads \cup Writes \cup {"erase"})' => pc' = "idle"
  BY DEF Succeeded
<1> QED
  BY <1>1, <1>2, <1>3, <1>4 DEF Effect

\* A call leaves its data path sending only when write_blocks_dma has ended its
\* loop on the end of the DMA's stream: the card still waits for data.
LEMMA AbandonedFlow ==
  ASSUME IInv, Calls \/ Step, Abandoned'
  PROVE  \/ Abandoned
         \/ EndDma /\ pc' = "idle" /\ SD.voltage /\ card.state = "rcv" /\ UNCHANGED <<SD, card>>
<1> USE DEF Sends, Returns, WaitsReady, SendsApp, On, Moving, Stopping, loopKeeps
<1>0. TypeOK /\ CallInPhase /\ DataPath /\ CardWaits /\ Voltage
  BY DEF IInv
<1>1. dpsm' = "drain" => dpsm = "drain"
  BY DEF Calls, CallInit, CallOne, CallTwo, CallErase, Call, Step, OnIfCond, OnAppCmd, OnOpCond,
     OnCid, OnRca, OnCsd, OnSelect, OnWidth, OnTransfer, EndData, EndDma, OnStop, OnErase,
     OnStatus, GivesUp, sdioKeeps
<1>2. CASE ~Moving
  <2>1. sta' \subseteq sta
    BY ProgramKeeps
  <2> QED
    BY <1>1, <1>2, <2>1 DEF Abandoned
<1>3. CASE Moving
  <2>1. EndData \/ EndDma \/ OnStop \/ (OnStatus /\ then = "stopped")
    BY <1>3 DEF Calls, CallInit, CallOne, CallTwo, CallErase, Call, Step, OnIfCond, OnAppCmd,
       OnOpCond, OnCid, OnRca, OnCsd, OnSelect, OnWidth, OnTransfer, OnErase, OnStatus, DataCommands
  <2>2. ClearDataFlags
    <3>1. CASE EndData \/ EndDma
      BY <3>1 DEF EndData, EndDma, StopsOrConcludes, Concludes, Abandoned
    <3>2. CASE OnStop
      BY <3>2 DEF OnStop, Concludes, Abandoned
    <3>3. CASE OnStatus /\ then = "stopped"
      BY <3>3 DEF OnStatus, Ready, NotReady, Concludes, Abandoned
    <3> QED
      BY <2>1, <3>1, <3>2, <3>3
  <2>3. sta' \cap EndOfData = {}
    BY <1>0, <2>2, FlagsType DEF TypeOK, EndOfData
  <2>4. dpsm = "drain"
    BY <1>1, <2>3 DEF Abandoned
  <2>5. op = "writeDma" /\ pc \in {"data", "dma"}
    BY <1>0, <1>3, <2>4 DEF DataPath, CallInPhase, Two, Reads, Writes
  <2>6. EndDma
    BY <2>1, <2>5 DEF EndData, OnStop, OnStatus, Abandoned
  <2>7. pc' = "idle"
    BY <2>5, <2>6 DEF EndDma, StopsOrConcludes, Concludes, Abandoned
  <2>8. SD.voltage /\ card.state = "rcv"
    BY <1>0, <2>4, <2>5 DEF Voltage, CardWaits
  <2> QED
    BY <2>6, <2>7, <2>8 DEF EndDma, cardKeeps
<1> QED
  BY <1>2, <1>3

\* Marooned: the card that is left waiting for data, or has been reset and not
\* powered up again, obeys no command of the calls that follow.
LEMMA MaroonedStep == ASSUME IInv, [Next]_vars PROVE Marooned'
<1>0. TypeOK /\ CallInPhase /\ Marooned /\ CardWaits /\ card \in CardType /\ SD \in SdType
      /\ resp \in RespType /\ NoResp.r = "none"
  BY NoRespType, TypeParts DEF IInv, PeerType, ProgramType
<1>1. CASE UNCHANGED vars
  BY <1>0, <1>1 DEF vars, Marooned, Abandoned, Moving, Stopping
<1>2. CASE Answer
  <2>1. AnswerKeeps /\ cmd = pc /\ pc # "idle" /\ cmd \in Commands
    BY <1>0, <1>2, AnswerCases DEF CallInPhase, Answer, AnswerKeeps
  <2>2. SUFFICES ASSUME Abandoned PROVE Marooned'
    BY <2>1 DEF AnswerKeeps, Marooned, Abandoned, Moving, Stopping
  <2>3. card.state \in {"rcv", "idle", "ina"}
        /\ (pc \in {"ifCond", "cid", "status"} \/ pc \in DataCommands)
    BY <1>0, <2>1, <2>2 DEF Marooned
  <2>4. pc \in {"cid"} \cup DataCommands => ~Obeys(cmd)
    BY <2>1, <2>3 DEF Obeys, LegalIn, DataCommands
  <2>5. CASE Silent
    BY <1>0, <2>1, <2>2, <2>5, SilenceType DEF Silent, CardType, AnswerKeeps, Marooned
  <2>6. ASSUME NEW up \in BOOLEAN, Obeyed(up) PROVE Marooned'
    <3>1. pc \in {"ifCond", "status"} /\ pc \notin DataCommands
      BY <2>3, <2>4, <2>6 DEF Obeyed, DataCommands
    <3>2. card'.state = card.state
      BY <2>1, <2>6, <3>1 DEF Obeyed, StateAfter
    <3> QED
      BY <1>0, <2>1, <2>2, <3>1, <3>2 DEF AnswerKeeps, Marooned
  <2> QED
    BY <1>0, <1>2, <2>5, <2>6, AnswerCases
<1>3. CASE OtherHardware
  <2>1. UNCHANGED <<pc, then, SD, resp>>
    BY <1>0, <1>3, OtherHardwareCard
  <2>2. SUFFICES ASSUME Abandoned' PROVE Marooned'
    BY DEF Marooned
  <2>3. ~Moving
    BY <2>1, <2>2 DEF Abandoned, Moving, Stopping
  <2>4. Abandoned
    BY <1>3, <2>2, <2>3, HardwareData DEF Abandoned, Moving, EndOfData
  <2>5. card'.state = card.state
    BY <1>0, <1>3, <2>3, <2>4, OtherHardwareCard DEF Marooned, Moving
  <2> QED
    BY <1>0, <2>1, <2>4, <2>5 DEF Marooned
<1>4. CASE Calls \/ Step
  <2> USE DEF Sends, Returns, WaitsReady, SendsApp, On, loopKeeps
  <2>1. SUFFICES ASSUME Abandoned' PROVE Marooned'
    BY DEF Marooned
  <2>2. CASE EndDma /\ pc' = "idle" /\ SD.voltage /\ card.state = "rcv" /\ UNCHANGED <<SD, card>>
    BY <2>2 DEF Marooned, DataCommands
  <2>3. CASE Abandoned
    <3>1. SD.voltage /\ card.state \in {"rcv", "idle", "ina"}
      BY <1>0, <2>3 DEF Marooned
    <3>2. SD'.voltage
      BY <1>4, <3>1, ProgramRecord
    <3>3. resp'.r # "ok" /\ resp' = NoResp
      BY <1>0, <1>4, ProgramResp
    <3>4. ASSUME card' = card \/ card'.state \in {"idle", "ina"},
                 \/ pc' \in {"idle", "ifCond", "cid"} \cup DataCommands
                 \/ pc' = "status" /\ then' = "eraseStart"
          PROVE  Marooned'
      BY <1>0, <3>1, <3>2, <3>3, <3>4 DEF Marooned
    <3>5. CASE Calls
      <4>1. CASE CallInit
        <5>1. card' \in {card, FreshCard} /\ pc' = "ifCond"
          BY <1>0, <4>1, ResetCard DEF CallInit
        <5> QED
          BY <3>4, <5>1 DEF FreshCard
      <4>2. CASE ~CallInit
        BY <3>4, <3>5, <4>2 DEF Calls, CallOne, CallTwo, CallErase, Call, cardKeeps, DataCommands
      <4> QED
        BY <4>1, <4>2
    <3>6. CASE OnIfCond
      <4>1. card' \in {card, FreshCard}
        BY <1>0, <3>6, ResetCard DEF OnIfCond, cardKeeps
      <4>2. pc' \in {"cid", "idle"}
        BY <3>1, <3>6 DEF OnIfCond, NextTrial
      <4> QED
        BY <3>4, <4>1, <4>2 DEF FreshCard
    <3>7. CASE OnCid
      <4>1. GivesUp
        BY <1>0, <2>3, <3>7 DEF OnCid, Ok, Marooned
      <4>2. card' \in {card, AfterCmd15(card), FreshCard} /\ pc' = "idle"
        BY <1>0, <4>1, GivesUpCard
      <4>3. card' = card \/ card'.state \in {"idle", "ina"}
        BY <1>0, <4>2 DEF AfterCmd15, FreshCard, CardType
      <4> QED
        BY <3>4, <4>2, <4>3
    <3>8. CASE OnTransfer
      <4>1. card' = card /\ pc' = "idle"
        BY <1>0, <2>3, <3>8 DEF OnTransfer, Ok, Marooned, cardKeeps
      <4> QED
        BY <3>4, <4>1
    <3>9. CASE OnStatus /\ then = "eraseStart"
      <4>1. ~(resp.r = "ok" /\ resp.state = "tran")
        BY <1>0, <3>1, <3>9 DEF CardWaits, OnStatus
      <4>2. card' = card /\ (pc' = "idle" \/ (pc' = "status" /\ then' = then))
        BY <3>9, <4>1 DEF OnStatus, Ok, NotReady, cardKeeps
      <4> QED
        BY <3>4, <3>9, <4>2
    <3>10. Step => OnIfCond \/ OnCid \/ OnTransfer \/ (OnStatus /\ then = "eraseStart")
      <4>1. \/ pc \in {"idle", "ifCond", "cid"} \cup DataCommands
            \/ pc = "status" /\ then = "eraseStart"
        BY <1>0, <2>3 DEF Marooned
      <4> QED
        BY <4>1 DEF Step, OnAppCmd, OnOpCond, OnRca, OnCsd, OnSelect, OnWidth, OnTransfer,
           EndData, EndDma, OnStop, OnErase, OnStatus, DataCommands
    <3> QED
      BY <1>4, <3>5, <3>6, <3>7, <3>8, <3>9, <3>10
  <2> QED
    BY <1>4, <2>1, <2>2, <2>3, AbandonedFlow
<1> QED
  BY <1>1, <1>2, <1>3, <1>4 DEF Next, Hardware, OtherHardware

\* On a card that is addressed by blocks the extent of a call is its blocks.
LEMMA ExtentByBlock ==
  ASSUME TypeOK, CallInPhase, SD.version = "SDXC"
  PROVE  /\ op \in Reads \cup Writes => Extent = lo .. hi /\ ArgumentOf(DataCommand) = lo
         /\ EraseExtent = lo .. hi
         /\ Blocks \subseteq Lbas
<1>1. lo \in Nat /\ hi \in Nat /\ NBlocks \in Nat /\ Capacity \in Nat /\ NBlocks < Capacity
  BY BlocksAssumption DEF TypeOK, Blocks
<1>2. \A m : Scaled(m) = m
  BY DEF Scaled
<1>3. EraseExtent = lo .. hi
  BY <1>2 DEF EraseExtent, Argument
<1>4. ASSUME op \in Reads \cup Writes PROVE Extent = lo .. hi /\ ArgumentOf(DataCommand) = lo
  <2>1. DataCommand # "eraseEnd"
    BY <1>4 DEF DataCommand, Reads, Writes
  <2>2. ArgumentOf(DataCommand) = lo
    BY <1>2, <2>1 DEF ArgumentOf, Argument
  <2>3. CASE op \in {"read1", "write1"}
    <3>1. hi = lo
      BY <2>3 DEF CallInPhase
    <3>2. Extent = {lo}
      BY <2>2, <2>3 DEF Extent
    <3> QED
      BY <1>1, <2>2, <3>1, <3>2
  <2>4. CASE op \in Two
    <3>1. hi = lo + 1
      BY <2>4 DEF CallInPhase
    <3>2. Extent = {lo, lo + 1}
      BY <2>2, <2>4 DEF Extent, Two
    <3> QED
      BY <1>1, <2>2, <3>1, <3>2
  <2> QED
    BY <1>4, <2>3, <2>4 DEF Reads, Writes, Two
<1>5. Blocks \subseteq Lbas
  BY <1>1 DEF Blocks, Lbas
<1> QED
  BY <1>3, <1>4, <1>5

\* Known: the blocks of the card change only where the call is about.
LEMMA KnownHardware == ASSUME IInv, Answer \/ OtherHardware PROVE Known'
<1>0. TypeOK /\ CallInPhase /\ Known /\ InRange
  BY DEF IInv
<1>1. UNCHANGED <<pc, op, lo, hi, SD, wrote>> /\ Affected' = Affected
  BY <1>0, AnswerCases, OtherHardwareCard DEF AnswerKeeps, Affected
<1>2. CASE mem' = mem
  BY <1>0, <1>1, <1>2 DEF Known
<1>3. ASSUME mem' # mem, SD.version = "SDXC"
      PROVE  pc # "idle" /\ \A m \in Blocks : m \in Affected \/ mem'[m] = mem[m]
  <2>1. CASE Answer
    <3>1. pc = "erase" /\ cmd = "erase" /\ op = "erase"
      BY <1>0, <1>3, <2>1, HardwareMem DEF CallInPhase
    <3>2. mem' = [l \in Lbas |-> IF l \in EraseExtent THEN 0 ELSE mem[l]]
      BY <1>0, <1>3, <2>1, <3>1, AnswerCases DEF Silent, Obeyed
    <3>3. Affected = EraseExtent /\ Blocks \subseteq Lbas
      BY <1>0, <1>3, <3>1, ExtentByBlock DEF Affected
    <3> QED
      BY <3>1, <3>2, <3>3
  <2>2. CASE OtherHardware
    <3>1. pc \in {"data", "dma"} /\ op \in Writes
      BY <1>3, <2>2, HardwareMem, HardwareData DEF Writes
    <3>2. \A l \in Lbas \ Extent : mem'[l] = mem[l]
      BY <1>3, <2>2, HardwareData
    <3>3. Affected = Extent /\ Blocks \subseteq Lbas
      BY <1>0, <1>3, <3>1, ExtentByBlock DEF Affected
    <3> QED
      BY <3>1, <3>2, <3>3
  <2> QED
    BY <2>1, <2>2
<1> QED
  BY <1>0, <1>1, <1>2, <1>3 DEF Known

\* Known: what the application knows after a call is what the call has done, or
\* nothing if it has failed.
LEMMA KnownProgram == ASSUME IInv, Calls \/ Step, TypeOK', CallInPhase', Effect' PROVE Known'
<1>0. TypeOK /\ CallInPhase /\ Known /\ Voltage
  BY DEF IInv
<1>1. mem' = mem
  BY ProgramKeeps
<1>2. CASE SD'.version = "SDXC" /\ SD.version # "SDXC"
  <2>1. pc = "opCond" /\ op = "init" /\ NextTrial(trial + 1, TRUE) /\ UNCHANGED <<op, lo, hi>>
    BY <1>2, ProgramRecord
  <2>2. ~SD.voltage
    BY <1>0, <2>1 DEF Voltage, Powering
  <2>3. \A m \in Blocks : wrote[m] = 0 /\ mem'[m] = 0
    <3>1. Blocks \subseteq Lbas
      BY BlocksAssumption DEF Blocks, Lbas
    <3> QED
      BY <1>0, <1>1, <2>2, <3>1 DEF Voltage
  <2>4. wrote' = wrote \/ wrote' = [m \in Blocks |-> wrote[m]]
    BY <2>1 DEF NextTrial, Sends, SendsApp, Returns, Recorded, Affected, Writes
  <2> QED
    BY <2>3, <2>4 DEF Known
<1>3. CASE SD'.version = "SDXC" /\ SD.version = "SDXC"
  <2>1. CASE wrote' = wrote /\ pc' # "idle" /\ (pc # "idle" => UNCHANGED <<op, lo, hi>>)
    <3>1. pc # "idle" => Affected' = Affected
      BY <2>1 DEF Affected
    <3> QED
      BY <1>0, <1>1, <1>3, <2>1, <3>1 DEF Known
  <2>2. CASE CallInit
    BY <1>0, <1>3, <2>2, ResetCard DEF CallInit
  <2>3. ASSUME pc # "idle", UNCHANGED <<op, lo, hi>>, Returns("error") \/ Returns("ok"),
               NEW m \in Blocks
        PROVE  wrote'[m] \in {Unknown, mem'[m]}
    <3>1. PICK v \in {"ok", "error"} : Returns(v)
      BY <2>3
    <3>2. wrote'[m] = IF m \notin Affected THEN wrote[m]
                      ELSE IF v = "error" \/ op = "writeDma" THEN Unknown
                      ELSE IF op = "erase" THEN 0 ELSE 1
      BY <3>1 DEF Returns, Recorded
    <3>3. CASE m \notin Affected
      BY <1>0, <1>1, <1>3, <3>2, <3>3 DEF Known
    <3>4. CASE v = "error" \/ op = "writeDma"
      BY <1>0, <1>1, <1>3, <3>2, <3>3, <3>4
    <3>5. CASE m \in Affected /\ v = "ok" /\ op # "writeDma"
      <4>1. op \in Writes \cup {"erase"} /\ m \in lo .. hi
        BY <3>5 DEF Affected
      <4>2. Done'
        BY <2>3, <3>1, <3>5, <4>1 DEF Effect, Succeeded, Returns, Writes
      <4>3. CASE op = "erase"
        <5>1. EraseExtent' = lo .. hi
          BY <1>3, <2>3, ExtentByBlock DEF EraseExtent, Argument, Scaled
        <5>2. mem'[m] = 0
          BY <2>3, <4>1, <4>2, <4>3, <5>1 DEF Done
        <5> QED
          BY <3>2, <3>5, <4>3, <5>2
      <4>4. CASE op \in {"write1", "writeN"}
        <5>1. Extent = lo .. hi
          BY <1>0, <1>3, <4>4, ExtentByBlock DEF Writes
        <5>2. Extent' = Extent
          BY <1>3, <2>3, AddressKeeps
        <5>3. mem'[m] = 1
          BY <2>3, <4>1, <4>2, <4>4, <5>1, <5>2 DEF Done
        <5> QED
          BY <3>2, <3>5, <4>4, <5>3
      <4> QED
        BY <3>5, <4>1, <4>3, <4>4 DEF Writes
    <3> QED
      BY <3>3, <3>4, <3>5
  <2> QED
    BY <2>1, <2>2, <2>3, ProgramHistory DEF Known
<1> QED
  BY <1>2, <1>3 DEF Known

\* Clean: on a line without faults every command of the initialisation finds the
\* card in its state, so that it is answered with success.
LEMMA CleanHardware == ASSUME IInv, Answer \/ OtherHardware PROVE Clean'
<1>0. TypeOK /\ CallInPhase /\ Addressed /\ Clean /\ card \in CardType /\ faults \in Nat
      /\ SD \in SdType /\ NoResp.r = "none"
  BY TypeParts, BoundsAssumption, NoRespType DEF IInv, PeerType
<1>1. CASE Answer
  <2>1. AnswerKeeps /\ cmd = pc /\ pc \in Commands /\ resp.r = "none"
    BY <1>0, <1>1, AnswerCases DEF CallInPhase, Answer, AnswerKeeps
  <2>2. SUFFICES ASSUME faults' = 0 PROVE Clean'
    BY DEF Clean
  <2>3. faults = 0
    BY <1>0, <2>1, <2>2, BoundsAssumption DEF AnswerKeeps
  <2> DEFINE Phase == \/ pc \in {"ifCond", "cid", "rca", "csd", "select", "width"}
                      \/ Powering \/ Addressing
  <2>4. CASE ~Phase
    <3>1. card'.state # "ina"
      <4>1. CASE Silent
        BY <1>0, <2>3, <4>1 DEF Silent, Clean, CardType
      <4>2. ASSUME NEW up \in BOOLEAN, Obeyed(up) PROVE card'.state # "ina"
        BY <1>0, <2>3, <4>2 DEF Obeyed, Clean, StateAfter
      <4> QED
        BY <1>0, <1>1, <4>1, <4>2, AnswerCases
    <3> QED
      BY <2>1, <2>4, <3>1 DEF Clean, Powering, Addressing, AnswerKeeps
  <2>5. CASE Phase
    <3>1. ~OutOfRange(cmd) /\ pc \notin {"erase", "readN", "writeN"}
      BY <2>1, <2>5 DEF OutOfRange, DataCommands, Powering, Addressing
    <3>2. CASE pc \in {"ifCond", "cid"} \/ Powering
      <4>1. card.rca = 0 /\ card.state # "ina"
        BY <1>0, <2>3, <3>2 DEF Clean
      <4>2. pc \in {"ifCond", "cid", "appCmd", "opCond"} /\ ~Addressing
        BY <3>2 DEF Powering, Addressing
      <4>3. CASE Silent
        <5>1. card'.rca = 0 /\ card'.state # "ina" /\ resp'.r # "ok"
          BY <1>0, <4>1, <4>3, SilenceType DEF Silent, CardType
        <5> QED
          BY <2>1, <4>2, <5>1 DEF Clean, AnswerKeeps, Powering, Addressing
      <4>4. ASSUME NEW up \in BOOLEAN, Obeyed(up) PROVE Clean'
        <5>1. card'.rca = 0 /\ card'.state # "ina" /\ card'.illegal = FALSE
          BY <2>1, <4>1, <4>2, <4>4 DEF Obeyed, StateAfter
        <5>2. pc = "cid" => card'.state = "ident"
          BY <2>1, <3>1, <4>4 DEF Obeyed, StateAfter
        <5> QED
          BY <2>1, <4>2, <5>1, <5>2 DEF Clean, AnswerKeeps, Powering, Addressing
      <4> QED
        BY <1>0, <1>1, <4>3, <4>4, AnswerCases
    <3>3. CASE pc = "rca" \/ Addressing
      <4>1. pc \in {"rca", "csd", "select", "width", "appCmd"} /\ (pc = "appCmd" => then = "width")
            /\ ~Powering
        BY <1>0, <2>3, <3>3 DEF Clean, Addressing, Powering
      <4>2. /\ card.illegal = FALSE
            /\ pc = "rca" => card.state = "ident"
            /\ pc \in {"csd", "select"} => card.state = "stby"
            /\ pc \in {"appCmd", "width"} => card.state = "tran"
            /\ pc = "width" => card.app
        BY <1>0, <2>1, <2>3, <4>1 DEF Clean, CardType, Addressing
      <4>3. pc # "rca" => SD.RCA = card.rca
        BY <1>0, <4>1, <4>2 DEF Addressed, Addressing, Selected
      <4>4. Obeys(cmd)
        BY <2>1, <4>1, <4>2, <4>3 DEF Obeys, LegalIn, Selected
      <4>5. PICK up \in BOOLEAN : Obeyed(up)
        BY <1>0, <1>1, <2>2, <4>4, AnswerCases DEF Silent
      <4>6. resp' = Answered(cmd, up)
        BY <2>2, <4>5 DEF Obeyed
      <4>7. resp'.r = "ok"
        BY <1>0, <2>1, <3>1, <4>1, <4>2, <4>6, AnsweredType
      <4>8. /\ card'.illegal = FALSE
            /\ card'.state = StateAfter(cmd, up)
            /\ pc = "appCmd" => card'.app
        BY <2>1, <3>1, <4>5 DEF Obeyed
      <4>9. /\ pc = "rca" => card'.state = "stby"
            /\ pc = "csd" => card'.state = "stby"
            /\ pc \in {"select", "appCmd", "width"} => card'.state = "tran"
        BY <2>1, <4>2, <4>8 DEF StateAfter
      <4> QED
        BY <2>1, <4>1, <4>7, <4>8, <4>9 DEF Clean, AnswerKeeps, Powering, Addressing
    <3> QED
      BY <2>5, <3>2, <3>3 DEF Addressing
  <2> QED
    BY <2>4, <2>5
<1>2. CASE OtherHardware
  BY <1>0, <1>2, OtherHardwareCard DEF Clean, Powering, Addressing
<1> QED
  BY <1>1, <1>2

\* Clean: the program goes on with the next command of the initialisation.
LEMMA CleanProgram == ASSUME IInv, Calls \/ Step, CallInPhase' PROVE Clean'
<1>0. TypeOK /\ CallInPhase /\ Clean /\ card \in CardType /\ faults \in Nat /\ NoResp.r = "none"
  BY TypeParts, BoundsAssumption, NoRespType DEF IInv, PeerType
<1>1. SUFFICES ASSUME faults' = 0 PROVE Clean'
  BY DEF Clean
<1>2. faults = 0 /\ card.state # "ina"
  <2>1. faults' \in Nat /\ faults' >= faults
    BY <1>0, ProgramCard
  <2> QED
    BY <1>0, <1>1, <2>1 DEF Clean
<1>3. resp'.r # "ok"
  BY <1>0, ProgramResp
<1> USE DEF Sends, Returns, WaitsReady, SendsApp, On, callKeeps, loopKeeps, Powering, Addressing
<1>4. CASE op' # "init"
  <2>1. card' = card
    BY <1>4, ProgramCard
  <2>2. pc' \notin {"ifCond", "appCmd", "opCond", "cid", "rca", "csd", "select", "width"}
        /\ ~(pc' = "status" /\ then' = "selected")
    BY <1>4 DEF CallInPhase
  <2> QED
    BY <1>2, <2>1, <2>2 DEF Clean
<1>5. CASE CallInit
  <2>1. card' = FreshCard
    BY <1>0, <1>1, <1>2, <1>5, ResetCard DEF CallInit
  <2> QED
    BY <1>5, <2>1 DEF CallInit, Clean, FreshCard
<1>6. CASE OnIfCond
  <2>1. card.rca = 0
    BY <1>0, <1>2, <1>6 DEF Clean, OnIfCond
  <2>2. card' \in {card, FreshCard}
    BY <1>0, <1>1, <1>2, <1>6, ResetCard DEF OnIfCond, cardKeeps
  <2>3. card'.rca = 0 /\ card'.state # "ina"
    BY <1>2, <2>1, <2>2 DEF FreshCard
  <2>4. pc' \in {"cid", "idle"} \/ (pc' = "appCmd" /\ then' = "opCond")
    BY <1>6 DEF OnIfCond, NextTrial
  <2> QED
    BY <1>3, <2>3, <2>4 DEF Clean
<1>7. ASSUME GivesUp, card.rca = 0 PROVE Clean'
  <2>1. card' = FreshCard /\ pc' = "idle"
    BY <1>0, <1>1, <1>2, <1>7, GivesUpCard
  <2> QED
    BY <2>1 DEF Clean, FreshCard
<1>8. CASE OnOpCond \/ OnCid
  <2>1. card.rca = 0
    BY <1>0, <1>2, <1>8 DEF Clean, OnOpCond, OnCid
  <2>2. CASE GivesUp
    BY <1>7, <2>1, <2>2
  <2>3. CASE OnOpCond /\ ~GivesUp
    <3>1. pc' \in {"cid", "idle"} \/ (pc' = "appCmd" /\ then' = "opCond")
      BY <2>3 DEF OnOpCond, NextTrial
    <3>2. card' = card
      BY <2>3 DEF OnOpCond, cardKeeps
    <3> QED
      BY <1>2, <1>3, <2>1, <3>1, <3>2 DEF Clean
  <2>4. CASE OnCid /\ ~GivesUp
    <3>1. resp.r = "ok" /\ pc = "cid" /\ pc' = "rca" /\ cmd' = "rca" /\ card' = card
      BY <2>4 DEF OnCid, Ok, cardKeeps
    <3> QED
      BY <1>0, <1>2, <3>1 DEF Clean
  <2> QED
    BY <1>8, <2>2, <2>3, <2>4
<1>9. CASE OnRca \/ OnCsd \/ OnSelect \/ OnWidth
  <2>1. pc \in {"rca", "csd", "select", "width"} /\ resp # NoResp
    BY <1>9 DEF OnRca, OnCsd, OnSelect, OnWidth
  <2>2. cmd = "none"
    BY <1>0, <2>1 DEF CallInPhase
  <2>3. resp.r = "ok" /\ ~card.illegal
    BY <1>0, <1>2, <2>1, <2>2 DEF Clean
  <2>4. card' = card
    BY <1>9, <2>3 DEF OnRca, OnCsd, OnSelect, OnWidth, Ok, cardKeeps
  <2>5. \/ pc = "rca" /\ pc' = "csd" /\ cmd' = "csd"
        \/ pc = "csd" /\ pc' = "select" /\ cmd' = "select"
        \/ pc = "select" /\ pc' = "appCmd" /\ cmd' = "appCmd" /\ then' = "width"
        \/ pc = "width" /\ pc' = "idle"
    BY <1>9, <2>3 DEF OnRca, OnCsd, OnSelect, OnWidth, Ok
  <2> QED
    BY <1>0, <1>2, <2>2, <2>3, <2>4, <2>5 DEF Clean
<1>10. CASE OnAppCmd
  <2>1. pc = "appCmd" /\ resp # NoResp /\ card' = card
    BY <1>10 DEF OnAppCmd, cardKeeps
  <2>2. cmd = "none" /\ then \in {"opCond", "width"}
    BY <1>0, <2>1 DEF CallInPhase
  <2>3. CASE then = "opCond"
    <3>1. card.rca = 0
      BY <1>0, <1>2, <2>1, <2>3 DEF Clean
    <3>2. pc' \in {"opCond", "idle"} \/ (pc' = "appCmd" /\ then' = "opCond")
      BY <1>10, <2>3 DEF OnAppCmd
    <3> QED
      BY <1>2, <1>3, <2>1, <3>1, <3>2 DEF Clean
  <2>4. CASE then = "width"
    <3>1. resp.r = "ok" /\ card.state = "tran" /\ card.app /\ ~card.illegal
      BY <1>0, <1>2, <2>1, <2>2, <2>4 DEF Clean
    <3>2. pc' = "width" /\ cmd' = "width"
      BY <1>10, <2>4, <3>1 DEF OnAppCmd, Ok
    <3> QED
      BY <1>2, <2>1, <3>1, <3>2 DEF Clean
  <2> QED
    BY <2>2, <2>3, <2>4
<1>11. CASE \/ (Calls /\ ~CallInit) \/ OnTransfer \/ EndData \/ EndDma \/ OnStop \/ OnErase
            \/ OnStatus
  <2>1. CASE op' = "init"
    <3>1. OnStatus /\ then = "selected"
      BY <1>0, <1>11, <2>1 DEF Calls, CallOne, CallTwo, CallErase, Call, OnTransfer, EndData,
         EndDma, OnStop, OnErase, OnStatus, CallInPhase, DataCommands, DataCommand, Reads, Writes, Two
    <3> QED
      BY <1>0, <1>2, <3>1 DEF Clean, OnStatus
  <2> QED
    BY <1>4, <2>1
<1> QED
  BY <1>5, <1>6, <1>8, <1>9, <1>10, <1>11 DEF Step

\* InitMeansReady: the answer to ACMD6 is that of the card in the state tran, under
\* the address that both have since CMD3, and nothing moves it afterwards.
LEMMA InitMeansReadyStep == ASSUME IInv, [Next]_vars PROVE InitMeansReady'
<1>0. TypeOK /\ CallInPhase /\ Addressed /\ InitMeansReady /\ card \in CardType
      /\ SD \in SdType /\ resp \in RespType
  BY TypeParts DEF IInv, PeerType, ProgramType
<1> USE DEF InitMeansReady, Succeeded
<1>1. CASE UNCHANGED vars
  BY <1>0, <1>1 DEF vars
<1>2. CASE Answer
  <2>1. AnswerKeeps /\ pc # "idle"
    BY <1>0, <1>2, AnswerCases DEF CallInPhase, Answer
  <2> QED
    BY <2>1 DEF AnswerKeeps
<1>3. CASE OtherHardware
  BY <1>0, <1>3, OtherHardwareCard
<1>4. CASE Calls \/ Step
  <2>1. CASE pc' = "idle" /\ op' = "init" /\ ret' = "ok"
    <3>1. pc # "idle" /\ op = "init" /\ pc = "width"
      BY <1>4, <2>1, ProgramHistory DEF CallInit, Returns
    <3>2. OnWidth
      BY <1>4, <3>1 DEF Calls, CallInit, CallOne, CallTwo, CallErase, Call, Step, On, OnIfCond,
         OnAppCmd, OnOpCond, OnCid, OnRca, OnCsd, OnSelect, OnTransfer, EndData, EndDma,
         OnStop, OnErase, OnStatus, DataCommands
    <3>3. resp.r = "ok" /\ SD' = Heard /\ wide' = TRUE /\ card' = card
      BY <2>1, <3>2 DEF OnWidth, GivesUp, Returns, Ok, cardKeeps
    <3>4. card.state = "tran" /\ card.wide /\ SD.RCA = 1 /\ card.rca = 1
      BY <1>0, <3>1, <3>3 DEF Addressed, Addressing, Selected
    <3>5. SD'.RCA = 1
      BY <1>0, <3>3, <3>4, HeardType
    <3>6. card.wide = TRUE
      BY <1>0, <3>4 DEF CardType
    <3> QED
      BY <3>3, <3>4, <3>5, <3>6
  <2> QED
    BY <2>1
<1> QED
  BY <1>1, <1>2, <1>3, <1>4 DEF Next, Hardware, OtherHardware

-----------------------------------------------------------------------------
(* The theorems.                                                           *)

\* At power-up the invariant holds.
LEMMA InitIInv == Init => IInv
<1> SUFFICES ASSUME Init PROVE IInv
  OBVIOUS
<1>1. NBlocks \in Nat \ {0, 1} /\ Capacity \in Nat /\ MaxFaults \in Nat /\ MaxTrial \in Nat
      /\ MaxApp \in Nat /\ MaxWait \in Nat /\ NoResp.r = "none"
  BY BlocksAssumption, BoundsAssumption, NoRespType
<1>2. ProgramType
  <2>1. inited \in BOOLEAN
    BY DEF Init
  <2>2. 0 \in 0 .. (IF MaxApp > MaxWait THEN MaxApp ELSE MaxWait) /\ 0 \in 0 .. MaxTrial
    BY <1>1
  <2>3. wrote \in [Blocks -> {0, 1, Unknown}]
    BY DEF Init
  <2> QED
    BY <2>1, <2>2, <2>3, NoRespType DEF Init, ProgramType
<1>3. DataType
  <2>1. DOMAIN buffer \subseteq Lbas
    BY DEF Init, NoData
  <2>2. wide \in BOOLEAN
    BY DEF Init
  <2> QED
    BY <1>1, <2>1, <2>2 DEF Init, DataType, Blocks
<1>4. PeerType
  BY <1>1 DEF Init, PeerType, SdType, CardType, FreshCard, CardStates
<1>5. CallInPhase /\ Addressed /\ Voltage /\ InRange
  BY <1>1 DEF Init, CallInPhase, Addressed, Voltage, InRange, Powering, Addressing, FreshCard,
     Selected, DataCommands, Two
<1>6. DataPath /\ Marooned /\ CardWaits /\ Effect /\ Known /\ Clean /\ InitMeansReady
  BY <1>1 DEF Init, DataPath, Marooned, Abandoned, CardWaits, Effect, Known, Clean,
     InitMeansReady, Powering, Addressing, Moving, Stopping, Closing, Succeeded, Waiting,
     FreshCard, Reads, Writes, EndOfData
<1> QED
  BY <1>2, <1>3, <1>4, <1>5, <1>6, TypeParts DEF IInv

\* Every step keeps the invariant.
LEMMA StepIInv == IInv /\ [Next]_vars => IInv'
<1> SUFFICES ASSUME IInv, [Next]_vars PROVE IInv'
  OBVIOUS
<1>1. TypeOK' /\ CallInPhase' /\ Addressed' /\ Voltage' /\ InRange' /\ Marooned' /\ CardWaits'
      /\ InitMeansReady'
  BY TypeStep, PhaseStep, AddressedStep, VoltageStep, InRangeStep, MaroonedStep, CardWaitsStep,
     InitMeansReadyStep
<1>2. CASE UNCHANGED vars
  <2>1. DataPath' /\ Known' /\ Clean'
    BY <1>2 DEF IInv, vars, DataPath, Known, Clean, Closing, Stopping, Moving, Succeeded,
       Waiting, EndFlags, ErrorFlags, Affected, Powering, Addressing
  <2>2. Effect'
    <3>1. Done' <=> Done
      BY <1>2, DoneKeeps DEF vars
    <3> QED
      BY <1>2, <3>1 DEF IInv, vars, Effect, Moving, Stopping, Closing, Succeeded
  <2> QED
    BY <1>1, <2>1, <2>2 DEF IInv
<1>3. CASE Answer \/ OtherHardware
  BY <1>1, <1>3, DataPathHardware, EffectHardware, KnownHardware, CleanHardware DEF IInv
<1>4. CASE Calls \/ Step
  BY <1>1, <1>4, DataPathProgram, EffectProgram, KnownProgram, CleanProgram DEF IInv
<1> QED
  BY <1>2, <1>3, <1>4 DEF Next, Hardware, OtherHardware

\* The invariant holds always.
THEOREM Invariance == Spec => []IInv
BY InitIInv, StepIInv, PTL DEF Spec

\* Every variable of the driver, the peripheral and the card keeps its type: no
\* block outside the card is read or written, no loop counts beyond its bound.
THEOREM TypeCorrect == Spec => []TypeOK
<1>1. IInv => TypeOK
  BY DEF IInv
<1> QED
  BY <1>1, Invariance, PTL

\* When sd_card_init returns 0, whatever the line has lost, the card is selected
\* under the driver's address and both ends of the bus are as wide.
THEOREM InitLeavesCardReady == Spec => []InitMeansReady
<1>1. IInv => InitMeansReady
  BY DEF IInv
<1> QED
  BY <1>1, Invariance, PTL

\* When a call that waits for the card returns 0, the card is ready, the data path
\* is off and no flag of data is left or still to come (STBITERR apart, which the
\* driver never clears).  When write_blocks_dma returns 0 no flag is left or still
\* to come either, unless STBITERR has ended its loop before the data were sent.
THEOREM SuccessLeavesCardReady == Spec => []ReadyAfterSuccess
<1>1. IInv => ReadyAfterSuccess
  BY DEF IInv, CardWaits, DataPath, ReadyAfterSuccess, Waiting
<1> QED
  BY <1>1, Invariance, PTL

\* A call that returns 0 has done what it told the card, whatever the calls before
\* it and the faults of the line have left behind.
THEOREM SuccessIsDone == Spec => []SuccessMeansDone
<1>1. IInv => SuccessMeansDone
  BY DEF IInv, Effect, Done, SuccessMeansDone, Succeeded, Reads, Writes
<1> QED
  BY <1>1, Invariance, PTL

\* A read returns what was last written, on a card addressed by blocks.
THEOREM BlocksReadBack == Spec => []ReadsBackByBlock
<1>1. ASSUME IInv, SD.version = "SDXC", Succeeded(Reads), NEW m \in lo .. hi
      PROVE  LET lba == ArgumentOf(DataCommand) + m - lo
             IN wrote[m] = Unknown \/ (lba \in DOMAIN buffer /\ wrote[m] = buffer[lba])
  <2>1. op \in Reads /\ pc = "idle" /\ lo \in Nat /\ hi \in Nat /\ m \in Nat
    BY <1>1, BlocksAssumption DEF IInv, TypeOK, Blocks, Succeeded
  <2>2. Extent = lo .. hi /\ ArgumentOf(DataCommand) = lo
    BY <1>1, <2>1, ExtentByBlock DEF IInv
  <2>3. ArgumentOf(DataCommand) + m - lo = m
    BY <2>1, <2>2
  <2>4. buffer = [l \in lo .. hi |-> mem[l]]
    BY <1>1, <2>1, <2>2 DEF IInv, Effect, Done, Succeeded
  <2>5. m \in Blocks
    BY <1>1, <2>1, BlocksAssumption DEF IInv, TypeOK, Blocks
  <2>6. wrote[m] \in {Unknown, mem[m]}
    BY <1>1, <2>1, <2>5 DEF IInv, Known
  <2> QED
    BY <1>1, <2>3, <2>4, <2>6
<1>2. IInv => ReadsBackByBlock
  BY <1>1 DEF ReadsBackByBlock, ReadsBack
<1> QED
  BY <1>2, Invariance, PTL

\* The waits without a bound need a fault of the line to hang: no sequence of
\* calls alone stops the program.
THEOREM HangNeedsFault == Spec => []StuckNeedsFault
<1>1. ASSUME IInv, Stuck PROVE faults > 0
  <2>0. TypeOK /\ CallInPhase /\ DataPath /\ Clean /\ faults \in Nat
    BY <1>1, BoundsAssumption DEF IInv, TypeOK
  <2>1. CASE pc = "width" /\ cmd = "none" /\ resp = NoResp
    BY <2>0, <2>1, NoRespType DEF Clean
  <2>2. CASE pc = "dma" /\ dpsm = "off" /\ "TCIF" \notin sta
    BY <2>0, <2>2 DEF DataPath, CallInPhase
  <2>3. CASE pc = "data" /\ dpsm = "off" /\ sta \cap EndFlags = {}
    <3>1. "DATAEND" \in sta \/ sta \cap ErrorFlags # {}
      BY <2>0, <2>3 DEF DataPath
    <3>2. CASE sta \cap ErrorFlags # {}
      BY <2>3, <3>2 DEF EndFlags, ErrorFlags, Reads
    <3>3. CASE "DATAEND" \in sta
      <4>1. "DBCKEND" \in sta
        BY <2>0, <3>3 DEF DataPath, EndOfData
      <4> QED
        BY <2>3, <3>3, <4>1 DEF EndFlags
    <3> QED
      BY <3>1, <3>2, <3>3
  <2> QED
    BY <1>1, <2>1, <2>2, <2>3 DEF Stuck, Hung
<1>2. IInv => StuckNeedsFault
  BY <1>1 DEF StuckNeedsFault
<1> QED
  BY <1>2, Invariance, PTL
=============================================================================
