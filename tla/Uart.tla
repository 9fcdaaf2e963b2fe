-------------------------------- MODULE Uart --------------------------------
(***************************************************************************)
(* The path of a log line: stm_log (log.c) formats it in a buffer on the   *)
(* stack, usart_adapter and send_data_usart (main.c, usart.c) send it,     *)
(* byte by byte with UART_MODE_POLLING or with a DMA stream (dma.c) with   *)
(* UART_MODE_DMA.                                                          *)
(*                                                                         *)
(* Three actors: the program, the transmitter of the USART, and the DMA    *)
(* stream, which reads the buffer while the program goes on.               *)
(*                                                                         *)
(* The text of the n-th call is its bytes <<n, 1>>, <<n, 2>>, ...  A cell  *)
(* of the buffer holds n if it holds the byte of line n that belongs       *)
(* there, and 0 for anything else.                                         *)
(***************************************************************************)
EXTENDS Naturals, Sequences

CONSTANTS
  Modes,        \* values of tx_mode: a subset of {"polling", "dma"}
  BufSize,      \* sizeof(buff) of stm_log (4096)
  Word,         \* values of a uint16_t (65536)
  CurrentLevel, \* current_level
  Lines,        \* arguments of stm_log: its level, the length of the prefix
                \*   and the length of the formatted message
  MaxCalls      \* bound on the calls, for model checking

ASSUME ModesAssumption == Modes \subseteq {"polling", "dma"}
ASSUME SizesAssumption == BufSize \in Nat \ {0} /\ Word \in Nat /\ BufSize < Word
ASSUME LevelAssumption == CurrentLevel \in 0 .. 3
ASSUME LinesAssumption == Lines \subseteq [level : 0 .. 3, prefix : Nat, body : Nat]
ASSUME CallsAssumption == MaxCalls \in Nat

Cell == 1 .. BufSize

VARIABLES
  \* The program.
  pc,      \* its next statement, "idle" between calls of stm_log
  mode,    \* huart.tx_mode
  line,    \* the arguments of the running call
  n,       \* its number
  buff,    \* the buffer; between calls, the stack where it was
  length,  \* uint16_t length
  i,       \* send_data_usart: bytes sent
  busy,    \* dma_channels_busy[1][CHANNEL_4]
  \* USART1.
  dr,      \* the byte in DR, empty if TXE
  shift,   \* the byte that is being sent
  \* DMA2, stream 7.
  en,      \* CCR.EN
  tcif,    \* HISR.TCIF7
  ndtr,    \* bytes of the transfer
  moved,   \* bytes of it that are in DR or beyond
  \* History.
  wire,    \* what has been sent
  due,     \* the texts that were handed to the transmitter
  reused   \* a call or a statement has written to the buffer of a transfer

program == <<pc, mode, line, n, buff, length, i, busy>>
usart   == <<dr, shift>>
stream  == <<en, tcif, ndtr, moved>>
history == <<wire, due, reused>>
vars    == <<pc, mode, line, n, buff, length, i, busy, dr, shift,
             en, tcif, ndtr, moved, wire, due, reused>>

PcValues == {"setup", "initLog", "idle", "body", "byte", "tc",
             "busy", "stop", "flags", "start"}

NoLine  == [level |-> 0, prefix |-> 0, body |-> 0]
Junk    == <<0, 0>>
AtMost(a, b) == IF a < b THEN a ELSE b

Init ==
  /\ pc = "setup" /\ mode \in Modes /\ line = NoLine /\ n = 0
  /\ buff = [c \in Cell |-> 0] /\ length = 0 /\ i = 0 /\ busy = FALSE
  /\ dr = <<>> /\ shift = <<>>
  /\ en = FALSE /\ tcif = FALSE /\ ndtr = 0 /\ moved = 0
  /\ wire = <<>> /\ due = <<>> /\ reused = FALSE

\* The byte at offset k - 1 of the buffer, or beyond its end.
ByteAt(k) == IF k \in Cell /\ buff[k] # 0 THEN <<buff[k], k>> ELSE Junk

-----------------------------------------------------------------------------
(* The hardware.                                                           *)

\* DR goes to the shift register: TXE.
Load ==
  /\ dr # <<>> /\ shift = <<>>
  /\ shift' = dr /\ dr' = <<>>
  /\ UNCHANGED <<program, stream, history>>

\* The stop bit of a byte; with DR empty, TC.
ShiftOut ==
  /\ shift # <<>>
  /\ wire' = Append(wire, shift)
  /\ shift' = <<>>
  /\ UNCHANGED <<program, dr, stream, due, reused>>

\* The stream answers a request of the transmitter.  The last byte ends the
\* transfer and sets TCIF7; no interrupt is enabled for it.
DmaMove ==
  /\ en /\ dr = <<>>
  /\ dr' = ByteAt(moved + 1)
  /\ moved' = moved + 1
  /\ en' = (moved + 1 < ndtr)
  /\ tcif' = (tcif \/ moved + 1 >= ndtr)
  /\ UNCHANGED <<program, shift, ndtr, history>>

Hardware == Load \/ ShiftOut \/ DmaMove

-----------------------------------------------------------------------------
(* init_uart and stm_init_log.                                             *)

\* setup_uart: the USART is off while it is configured; dma_init turns the
\* stream off.
SetupUart ==
  /\ pc = "setup" /\ pc' = "initLog"
  /\ en' = FALSE /\ ndtr' = 0
  /\ UNCHANGED <<mode, line, n, buff, length, i, busy, usart, tcif, moved, history>>

\* transfer_func = usart_adapter
StmInitLog ==
  /\ pc = "initLog" /\ pc' = "idle"
  /\ UNCHANGED <<mode, line, n, buff, length, i, busy, usart, stream, history>>

-----------------------------------------------------------------------------
(* stm_log.                                                                *)

\* A message below current_level is dropped.
LogFiltered(l) ==
  /\ pc = "idle" /\ n < MaxCalls /\ l.level < CurrentLevel
  /\ n' = n + 1
  /\ UNCHANGED <<pc, mode, line, buff, length, i, busy, usart, stream, history>>

\* The cells from a to b get the text of line k, as far as they are in the
\* buffer and not its last, which is for the terminating zero.
Written(a, b, k) ==
  [c \in Cell |-> IF a <= c /\ c <= AtMost(b, BufSize - 1) THEN k ELSE buff[c]]

\* offset = snprintf(buff, sizeof(buff), "[%s:%d] ", ...): a prefix that does
\* not fit ends the call.
LogPrefix(l) ==
  /\ pc = "idle" /\ n < MaxCalls /\ l.level >= CurrentLevel
  /\ n' = n + 1
  /\ buff' = Written(1, l.prefix, n + 1)
  /\ reused' = (reused \/ en)
  /\ IF l.prefix >= BufSize THEN pc' = "idle" /\ line' = NoLine
                            ELSE pc' = "body" /\ line' = l
  /\ UNCHANGED <<mode, length, i, busy, usart, stream, wire, due>>

\* The bytes of the text that reach the buffer.
Stored == AtMost(line.prefix + line.body, BufSize - 1)

\* size = vsnprintf(...), the length that the message would have had;
\* size += offset.
Size == ((line.body % Word) + line.prefix) % Word

\* What the call is to send, its length as a uint16_t: the text, then, for a
\* line that does not fit, whatever follows on the stack.
Text == [k \in 1 .. (line.prefix + line.body) % Word |->
           IF k <= Stored THEN <<n, k>> ELSE Junk]

\* Mutated LogBody: the length is not tested before the first byte.
LogBodyFirst ==
  /\ pc = "body"
  /\ buff' = Written(line.prefix + 1, line.prefix + line.body, n)
  /\ length' = Size
  /\ i' = 0
  /\ pc' = IF mode = "dma" THEN "busy" ELSE "byte"
  /\ due' = IF mode = "dma" THEN due ELSE due \o Text
  /\ UNCHANGED <<mode, line, n, busy, usart, stream, wire, reused>>

\* The message, and the call of transfer_func.
LogBody ==
  /\ pc = "body"
  /\ buff' = Written(line.prefix + 1, line.prefix + line.body, n)
  /\ length' = Size
  /\ i' = 0
  /\ pc' = CASE mode = "dma"             -> "busy"
             [] mode # "dma" /\ Size = 0 -> "idle"
             [] OTHER                    -> "byte"
  /\ due' = IF mode = "dma" THEN due ELSE due \o Text
  /\ UNCHANGED <<mode, line, n, busy, usart, stream, wire, reused>>

-----------------------------------------------------------------------------
(* UART_MODE_POLLING: send_byte_usart for each byte.                       *)

\* while (!TXE); DR = byte
SendByte ==
  /\ pc = "byte" /\ dr = <<>>
  /\ dr' = ByteAt(i + 1)
  /\ pc' = "tc"
  /\ UNCHANGED <<mode, line, n, buff, length, i, busy, shift, stream, history>>

\* The loop of send_data_usart: the next byte, or return.
ByteSent ==
  /\ i' = i + 1
  /\ pc' = IF i + 1 < length THEN "byte" ELSE "idle"
  /\ UNCHANGED <<mode, line, n, buff, length, busy, usart, stream, history>>

\* Mutated WaitTc: TXE instead of TC.
WaitTxe == pc = "tc" /\ dr = <<>> /\ ByteSent

\* while (!TC)
WaitTc == pc = "tc" /\ dr = <<>> /\ shift = <<>> /\ ByteSent

-----------------------------------------------------------------------------
(* UART_MODE_DMA: dma_send.                                                *)

\* while (is_dma_channel_busy(1, CHANNEL_4)): nothing ever sets the entry.
DmaWait ==
  /\ pc = "busy" /\ ~busy /\ pc' = "stop"
  /\ UNCHANGED <<mode, line, n, buff, length, i, busy, usart, stream, history>>

\* CCR &= ~EN; while (CCR & EN): a transfer that is running ends here, which
\* sets TCIF7 as its end does.
DmaStop ==
  /\ pc = "stop" /\ pc' = "flags"
  /\ en' = FALSE
  /\ tcif' = (tcif \/ en)
  /\ UNCHANGED <<mode, line, n, buff, length, i, busy, usart, ndtr, moved, history>>

\* reset_flags_dma(DMA2, STREAM_7): the flags are at 1 << 54 and up, beyond an
\* int: the write clears the flag or, as the shift of the processor gives 0,
\* nothing.
DmaFlags ==
  /\ pc = "flags" /\ pc' = "start"
  /\ tcif' \in {tcif, FALSE}
  /\ UNCHANGED <<mode, line, n, buff, length, i, busy, usart, en, ndtr, moved, history>>

\* Mutated DmaStart: the channel is marked as busy, which the handler of the
\* stream, whose interrupt is not enabled, was to undo.
DmaStartBusy ==
  /\ pc = "start" /\ pc' = "idle"
  /\ ndtr' = length /\ moved' = 0
  /\ en' = (length > 0 /\ ~tcif)
  /\ busy' = TRUE
  /\ due' = IF en' THEN due \o Text ELSE due
  /\ UNCHANGED <<mode, line, n, buff, length, i, usart, tcif, wire, reused>>

\* CMAR0 = buffer; CNDTR = length; CCR |= EN, which the stream ignores while one
\* of its flags is set: the line is lost.  stm_log returns.
DmaStart ==
  /\ pc = "start" /\ pc' = "idle"
  /\ ndtr' = length /\ moved' = 0
  /\ en' = (length > 0 /\ ~tcif)
  /\ due' = IF en' THEN due \o Text ELSE due
  /\ UNCHANGED <<mode, line, n, buff, length, i, busy, usart, tcif, wire, reused>>

\* The buffer was on the stack of stm_log: between calls the program writes
\* there whatever it likes.
StackReused ==
  /\ pc = "idle" /\ en
  /\ \E written \in SUBSET {c \in Cell : buff[c] # 0} :
       /\ written # {}
       /\ buff' = [c \in Cell |-> IF c \in written THEN 0 ELSE buff[c]]
  /\ reused' = TRUE
  /\ UNCHANGED <<pc, mode, line, n, length, i, busy, usart, stream, wire, due>>

-----------------------------------------------------------------------------
Call == \E l \in Lines : LogFiltered(l) \/ LogPrefix(l)

Step ==
  \/ SetupUart \/ StmInitLog
  \/ LogBody
  \/ SendByte \/ WaitTc
  \/ DmaWait \/ DmaStop \/ DmaFlags \/ DmaStart

Next == Call \/ Step \/ StackReused \/ Hardware

Spec == Init /\ [][Next]_vars

\* The processor executes and the baud rate generator runs; nobody has to log.
Fairness == WF_vars(Step) /\ WF_vars(Load) /\ WF_vars(ShiftOut) /\ WF_vars(DmaMove)

FairSpec == Spec /\ Fairness

-----------------------------------------------------------------------------
(* Properties.                                                             *)

Byte == (0 .. MaxCalls) \X (0 .. BufSize)

TypeOK ==
  /\ pc \in PcValues /\ mode \in Modes /\ line \in Lines \cup {NoLine}
  /\ n \in 0 .. MaxCalls /\ buff \in [Cell -> 0 .. MaxCalls]
  /\ length \in 0 .. Word - 1 /\ i \in 0 .. length /\ busy \in BOOLEAN
  /\ dr \in Byte \cup {<<>>} /\ shift \in Byte \cup {<<>>}
  /\ en \in BOOLEAN /\ tcif \in BOOLEAN /\ ndtr \in 0 .. Word - 1
  /\ moved \in 0 .. ndtr /\ reused \in BOOLEAN
  /\ wire \in Seq(Byte) /\ due \in Seq(Byte)

InFlight == (IF shift = <<>> THEN <<>> ELSE <<shift>>) \o (IF dr = <<>> THEN <<>> ELSE <<dr>>)

Transmitted == wire \o InFlight

IsPrefixOf(s, t) == Len(s) <= Len(t) /\ s = SubSeq(t, 1, Len(s))

\* What send_data_usart sends is what stm_log formatted, byte for byte and in the
\* order of the calls, and nothing is lost in DR.  As main.c configures it, a line
\* is on the wire to its last bit when stm_log returns.  With a DMA stream the
\* same holds for the lines whose transfer starts, for as long as nobody writes
\* to the stack of stm_log while the stream reads it.
WireIsLog ==
  ~reused =>
    /\ IsPrefixOf(Transmitted, due)
    /\ pc = "idle" /\ ~en => Transmitted = due
    /\ pc = "idle" /\ mode = "polling" => wire = due

\* Every call of stm_log returns: no loop of send_byte_usart or dma_send waits
\* for a flag that nobody sets.
LogReturns == pc # "idle" ~> pc = "idle"
=============================================================================
