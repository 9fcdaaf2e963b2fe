------------------------------ MODULE UartProofs ------------------------------
(***************************************************************************)
(* Proofs about Uart, for every size of the buffer and of the length, any  *)
(* number of calls and lines of any length.                                *)
(*                                                                         *)
(* The inductive invariant IInv says how the program, the transmitter and  *)
(* the stream are in step (Phase), what the buffer holds (Buffer) and that *)
(* what has been sent and what is still to be read from the buffer make up *)
(* the texts that were handed over (Log).                                  *)
(***************************************************************************)
EXTENDS Uart, DivModLemmas, SequenceTheorems, TLAPS

DmaCall == {"busy", "stop", "flags", "start"}

\* Where the program is, and what the transmitter and the stream do meanwhile.
Phase ==
  /\ pc \in {"byte", "tc"} => mode = "polling" /\ i < length
  /\ pc \in DmaCall => mode = "dma"
  /\ mode = "polling" => ~en /\ (pc # "tc" => dr = <<>> /\ shift = <<>>)
  /\ pc \in {"setup", "initLog"} => ~en
  /\ pc = "setup" => moved = 0
  /\ en => moved < ndtr
  /\ en /\ pc # "idle" => reused

\* The buffer: its last cell is never part of a text, and the running call has
\* written its text so far.
Buffer ==
  /\ buff[BufSize] = 0
  /\ pc = "body" => n # 0 /\ line.prefix < BufSize
  /\ pc = "body" => \A c \in 1 .. line.prefix : buff[c] = n
  /\ pc \in DmaCall => n # 0 /\ length = (line.prefix + line.body) % Word
  /\ pc \in DmaCall => \A c \in 1 .. Stored : buff[c] = n

\* How many bytes are still to be put in DR, and the first of them.
Rest  == IF en THEN ndtr - moved
         ELSE IF pc = "byte" THEN length - i
         ELSE IF pc = "tc" THEN length - (i + 1) ELSE 0

First == IF en THEN moved + 1 ELSE IF pc = "byte" THEN i + 1 ELSE i + 2

\* What has been sent and what the buffer still holds of the line make up the
\* texts that were handed over.
Log ==
  ~reused =>
    /\ Len(Transmitted) + Rest = Len(due)
    /\ \A m \in 1 .. Len(Transmitted) : Transmitted[m] = due[m]
    /\ \A m \in 1 .. Rest :
         ByteAt(First + (m - 1)) = due[Len(Transmitted) + m]

IInv == TypeOK /\ Phase /\ Buffer /\ Log

-----------------------------------------------------------------------------
(* Types of the parts.                                                     *)

\* The sizes are positive.
LEMMA SizesType == BufSize \in Nat \ {0} /\ Word \in Nat \ {0}
BY SizesAssumption

\* The lengths of a line are natural numbers.
LEMMA LineType ==
  /\ \A l \in Lines \cup {NoLine} : l.prefix \in Nat /\ l.body \in Nat
  /\ TypeOK => line.prefix \in Nat /\ line.body \in Nat
<1>1. \A l \in Lines \cup {NoLine} : l.prefix \in Nat /\ l.body \in Nat
  BY LinesAssumption DEF NoLine
<1> QED
  BY <1>1 DEF TypeOK

\* A byte is not the empty register.
LEMMA ByteNotEmpty == \A b \in Byte : b # <<>>
BY DEF Byte

\* What is read at an offset is a byte.
LEMMA ByteAtType ==
  ASSUME TypeOK, NEW k \in Nat
  PROVE  ByteAt(k) \in Byte
BY SizesType, CallsAssumption DEF TypeOK, ByteAt, Byte, Junk, Cell

\* What reaches the buffer leaves room for the terminating zero.
LEMMA StoredType ==
  ASSUME TypeOK
  PROVE  /\ Stored \in 0 .. BufSize - 1 /\ Stored <= line.prefix + line.body
         /\ Stored < line.prefix + line.body => Stored = BufSize - 1
BY SizesType, LineType DEF Stored, AtMost

\* The text of a call is a sequence of bytes.
LEMMA TextType ==
  ASSUME TypeOK
  PROVE  /\ (line.prefix + line.body) % Word \in 0 .. Word - 1
         /\ Text \in Seq(Byte) /\ Len(Text) = (line.prefix + line.body) % Word
         /\ \A k \in 1 .. Len(Text) : Text[k] = IF k <= Stored THEN <<n, k>> ELSE Junk
<1> DEFINE N == (line.prefix + line.body) % Word
<1>1. line.prefix + line.body \in Nat
  BY LineType
<1>2. N \in 0 .. Word - 1 /\ N \in Nat
  BY <1>1, SizesType, DivMod
<1>3. \A k \in 1 .. N : (IF k <= Stored THEN <<n, k>> ELSE Junk) \in Byte
  <2> TAKE k \in 1 .. N
  <2>1. CASE k <= Stored
    BY <2>1, StoredType, SizesType DEF TypeOK, Byte
  <2>2. CASE ~(k <= Stored)
    BY <2>2, SizesType, CallsAssumption DEF Junk, Byte
  <2> QED
    BY <2>1, <2>2
<1> HIDE DEF N
<1>4. Text = [k \in 1 .. N |-> IF k <= Stored THEN <<n, k>> ELSE Junk]
  BY DEF Text, N
<1>5. Text \in Seq(Byte) /\ Len(Text) = N
  BY <1>2, <1>3, <1>4
<1> QED
  BY <1>2, <1>4, <1>5 DEF N

\* The length that stm_log computes modulo Word is the length of the text.
LEMMA SizeIsLength ==
  ASSUME TypeOK
  PROVE  Size = (line.prefix + line.body) % Word
<1> DEFINE p == line.prefix
           b == line.body
<1>1. p \in Nat /\ b \in Nat
  BY LineType
<1> HIDE DEF p, b
<1>2. PICK q \in Nat, r \in 0 .. Word - 1 : b = q * Word + r
  BY <1>1, SizesType, DivMod
<1>3. r \in Nat /\ r + p \in Nat
  BY <1>1, SizesType
<1>4. PICK u \in Nat, v \in 0 .. Word - 1 : r + p = u * Word + v
  BY <1>3, SizesType, DivMod
<1>5. b % Word = r
  BY <1>2, SizesType, DivUnique
<1>6. (r + p) % Word = v
  BY <1>4, SizesType, DivUnique
<1>7. q + u \in Nat /\ v \in Nat /\ q * Word \in Nat /\ u * Word \in Nat
  BY SizesType
<1>8. p + b = (q + u) * Word + v
  BY <1>1, <1>2, <1>3, <1>4, <1>7, SizesType
<1>9. \A k \in Nat : (k * Word + v) % Word = v
  BY SizesType, DivUnique
<1>10. (p + b) % Word = v
  BY <1>7, <1>8, <1>9
<1>11. ((b % Word) + p) % Word = (p + b) % Word
  BY <1>5, <1>6, <1>10
<1> QED
  BY <1>11 DEF Size, p, b

\* What has left the program is a sequence of bytes.
LEMMA TransmittedType ==
  ASSUME TypeOK
  PROVE  InFlight \in Seq(Byte) /\ Transmitted \in Seq(Byte)
<1>1. /\ (IF shift = <<>> THEN <<>> ELSE <<shift>>) \in Seq(Byte)
      /\ (IF dr = <<>> THEN <<>> ELSE <<dr>>) \in Seq(Byte)
  BY DEF TypeOK
<1>2. InFlight \in Seq(Byte)
  BY <1>1, ConcatProperties DEF InFlight
<1>3. wire \in Seq(Byte)
  BY DEF TypeOK
<1> QED
  BY <1>2, <1>3, ConcatProperties DEF Transmitted

-----------------------------------------------------------------------------
(* The transmitter passes on what it gets.                                 *)

\* A byte that goes from DR to the shift register stays where it was in the
\* order of the bytes.
LEMMA LoadKeeps ==
  ASSUME TypeOK, Load
  PROVE  Transmitted' = Transmitted
<1>1. dr \in Byte /\ dr # <<>> /\ shift = <<>> /\ shift' = dr /\ dr' = <<>> /\ wire' = wire
  BY DEF TypeOK, Load, history
<1>2. <<dr>> \in Seq(Byte)
  BY <1>1
<1>3. <<dr>> \o <<>> = <<dr>> /\ <<>> \o <<dr>> = <<dr>>
  BY <1>2, ConcatEmptySeq
<1>4. InFlight = <<>> \o <<dr>> /\ InFlight' = <<dr>> \o <<>>
  BY <1>1 DEF InFlight
<1> QED
  BY <1>1, <1>3, <1>4 DEF Transmitted

\* So does a byte that goes on the wire.
LEMMA ShiftOutKeeps ==
  ASSUME TypeOK, ShiftOut
  PROVE  Transmitted' = Transmitted
<1> DEFINE D == IF dr = <<>> THEN <<>> ELSE <<dr>>
<1>1. shift \in Byte /\ shift # <<>> /\ shift' = <<>> /\ dr' = dr /\ wire \in Seq(Byte)
      /\ wire' = Append(wire, shift)
  BY DEF TypeOK, ShiftOut
<1>2. D \in Seq(Byte) /\ <<shift>> \in Seq(Byte)
  BY <1>1 DEF TypeOK
<1>3. InFlight = <<shift>> \o D /\ InFlight' = <<>> \o D
  BY <1>1 DEF InFlight
<1> HIDE DEF D
<1>4. InFlight' = D
  BY <1>2, <1>3, ConcatEmptySeq
<1>5. wire' = wire \o <<shift>>
  BY <1>1
<1>6. (wire \o <<shift>>) \o D = wire \o (<<shift>> \o D)
  BY <1>1, <1>2, ConcatAssociative
<1> QED
  BY <1>3, <1>4, <1>5, <1>6 DEF Transmitted

\* A byte that is written to an empty DR comes last.
LEMMA PutAppends ==
  ASSUME TypeOK, dr = <<>>, dr' \in Byte, shift' = shift, wire' = wire
  PROVE  /\ Transmitted' \in Seq(Byte) /\ Len(Transmitted') = Len(Transmitted) + 1
         /\ \A m \in 1 .. Len(Transmitted) : Transmitted'[m] = Transmitted[m]
         /\ Transmitted'[Len(Transmitted) + 1] = dr'
<1> DEFINE S == IF shift = <<>> THEN <<>> ELSE <<shift>>
<1>1. S \in Seq(Byte) /\ <<dr'>> \in Seq(Byte) /\ wire \in Seq(Byte)
  BY DEF TypeOK
<1>2. InFlight = S \o <<>>
  BY DEF InFlight
<1>3. InFlight' = S \o <<dr'>>
  BY ByteNotEmpty DEF InFlight
<1> HIDE DEF S
<1>4. InFlight = S
  BY <1>1, <1>2, ConcatEmptySeq
<1>5. Transmitted = wire \o S /\ Transmitted' = wire \o (S \o <<dr'>>)
  BY <1>3, <1>4 DEF Transmitted
<1>6. Transmitted' = Transmitted \o <<dr'>>
  BY <1>1, <1>5, ConcatAssociative
<1>7. Transmitted \in Seq(Byte)
  BY TransmittedType
<1>8. Transmitted' = Append(Transmitted, dr')
  BY <1>1, <1>6, <1>7
<1> QED
  BY <1>7, <1>8

-----------------------------------------------------------------------------
(* The invariant holds initially, and every step preserves each part.      *)

\* The initial states satisfy it.
LEMMA InitIInv == Init => IInv
<1> SUFFICES ASSUME Init PROVE IInv
  OBVIOUS
<1> USE DEF Init
<1>1. TypeOK
  <2>1. 0 \in 0 .. MaxCalls /\ 0 \in 0 .. Word - 1 /\ 0 \in 0 .. 0
    BY SizesType, CallsAssumption
  <2>2. buff \in [Cell -> 0 .. MaxCalls]
    BY <2>1
  <2>3. wire \in Seq(Byte) /\ due \in Seq(Byte)
    BY EmptySeq
  <2>4. busy \in BOOLEAN /\ en \in BOOLEAN /\ tcif \in BOOLEAN /\ reused \in BOOLEAN
    BY Zenon
  <2> QED
    BY <2>1, <2>2, <2>3, <2>4 DEF TypeOK, PcValues
<1>2. Phase
  BY DEF Phase, DmaCall
<1>3. Buffer
  BY SizesType DEF Buffer, DmaCall, Cell
<1>4. Transmitted = <<>>
  BY DEF Transmitted, InFlight
<1>5. Log
  BY <1>4 DEF Log, Rest
<1> QED
  BY <1>1, <1>2, <1>3, <1>5 DEF IInv

\* A write to the buffer writes numbers of calls, and never to its last cell.
LEMMA WrittenType ==
  ASSUME TypeOK, NEW a \in Nat, NEW b \in Nat, NEW k \in 0 .. MaxCalls
  PROVE  /\ Written(a, b, k) \in [Cell -> 0 .. MaxCalls]
         /\ \A c \in Cell : a <= c /\ c <= b /\ c < BufSize => Written(a, b, k)[c] = k
         /\ \A c \in Cell : c < a => Written(a, b, k)[c] = buff[c]
         /\ Written(a, b, k)[BufSize] = buff[BufSize]
<1>1. /\ buff \in [Cell -> 0 .. MaxCalls] /\ Cell \subseteq Nat
      /\ BufSize \in Cell /\ BufSize \in Nat
  BY SizesType DEF TypeOK, Cell
<1>2. Written(a, b, k) \in [Cell -> 0 .. MaxCalls]
  BY <1>1 DEF Written
<1>3. \A c \in Cell : Written(a, b, k)[c] =
        IF a <= c /\ c <= AtMost(b, BufSize - 1) THEN k ELSE buff[c]
  BY DEF Written
<1>4. \A c \in Cell : c <= AtMost(b, BufSize - 1) <=> c <= b /\ c < BufSize
  BY <1>1 DEF AtMost
<1> QED
  BY <1>1, <1>2, <1>3, <1>4

\* Types: each action keeps every variable in its set.
LEMMA TypeStep == ASSUME IInv, [Next]_vars PROVE TypeOK'
<1> USE DEF TypeOK, PcValues, program, usart, stream, history
<1>1. ASSUME UNCHANGED vars PROVE TypeOK'
  BY <1>1 DEF IInv, vars
<1>2. ASSUME Load PROVE TypeOK'
  BY <1>2 DEF IInv, Load
<1>3. ASSUME ShiftOut PROVE TypeOK'
  BY <1>3 DEF IInv, ShiftOut
<1>4. ASSUME DmaMove PROVE TypeOK'
  <2>1. ByteAt(moved + 1) \in Byte
    BY ByteAtType DEF IInv
  <2>2. moved < ndtr
    BY <1>4 DEF IInv, Phase, DmaMove
  <2> QED
    BY <1>4, <2>1, <2>2 DEF IInv, DmaMove
<1>5. ASSUME SetupUart PROVE TypeOK'
  <2>1. moved = 0 /\ 0 \in 0 .. 0 /\ 0 \in 0 .. Word - 1
    BY <1>5, SizesType DEF IInv, SetupUart, Phase
  <2>2. en' \in BOOLEAN
    BY <1>5, Zenon DEF SetupUart
  <2> QED
    BY <1>5, <2>1, <2>2 DEF IInv, SetupUart
<1>6. ASSUME StmInitLog PROVE TypeOK'
  BY <1>6 DEF IInv, StmInitLog
<1>7. ASSUME NEW l \in Lines, LogFiltered(l) PROVE TypeOK'
  BY <1>7, CallsAssumption DEF IInv, LogFiltered
<1>8. ASSUME NEW l \in Lines, LogPrefix(l) PROVE TypeOK'
  <2>1. n + 1 \in 0 .. MaxCalls /\ l.prefix \in Nat
    BY <1>8, CallsAssumption, LineType DEF IInv, LogPrefix
  <2>2. buff' \in [Cell -> 0 .. MaxCalls]
    BY <1>8, <2>1, WrittenType DEF IInv, LogPrefix
  <2>3. pc' \in PcValues /\ line' \in Lines \cup {NoLine} /\ reused' \in BOOLEAN
    BY <1>8 DEF IInv, LogPrefix
  <2> QED
    BY <1>8, <2>1, <2>2, <2>3 DEF IInv, LogPrefix
<1>9. ASSUME LogBody PROVE TypeOK'
  <2>1. buff' \in [Cell -> 0 .. MaxCalls]
    <3>1. line.prefix + 1 \in Nat /\ line.prefix + line.body \in Nat /\ n \in 0 .. MaxCalls
      <4>1. line.prefix \in Nat /\ line.body \in Nat
        BY LineType DEF IInv
      <4> QED
        BY <4>1 DEF IInv
    <3>2. Written(line.prefix + 1, line.prefix + line.body, n) \in [Cell -> 0 .. MaxCalls]
      BY <3>1, WrittenType DEF IInv
    <3> QED
      BY <1>9, <3>2 DEF LogBody
  <2>2. Size \in 0 .. Word - 1 /\ 0 \in 0 .. Size
    BY SizeIsLength, TextType, SizesType DEF IInv
  <2>3. due \in Seq(Byte) /\ Text \in Seq(Byte)
    BY TextType DEF IInv
  <2>4. due' \in Seq(Byte)
    BY <1>9, <2>3, ConcatProperties DEF LogBody
  <2>5. pc' \in PcValues
    BY <1>9 DEF LogBody
  <2> QED
    BY <1>9, <2>1, <2>2, <2>4, <2>5 DEF IInv, LogBody
<1>10. ASSUME SendByte PROVE TypeOK'
  <2>1. i \in Nat
    BY SizesType DEF IInv
  <2>2. ByteAt(i + 1) \in Byte
    BY <2>1, ByteAtType DEF IInv
  <2> QED
    BY <1>10, <2>2 DEF IInv, SendByte
<1>11. ASSUME WaitTc PROVE TypeOK'
  <2>1. i < length
    BY <1>11 DEF IInv, Phase, WaitTc
  <2> QED
    BY <1>11, <2>1, SizesType DEF IInv, WaitTc, ByteSent
<1>12. ASSUME DmaWait PROVE TypeOK'
  BY <1>12 DEF IInv, DmaWait
<1>13. ASSUME DmaStop PROVE TypeOK'
  BY <1>13 DEF IInv, DmaStop
<1>14. ASSUME DmaFlags PROVE TypeOK'
  BY <1>14 DEF IInv, DmaFlags
<1>15. ASSUME DmaStart PROVE TypeOK'
  <2>1. due \in Seq(Byte) /\ Text \in Seq(Byte)
    BY TextType DEF IInv
  <2>2. due' \in Seq(Byte)
    BY <1>15, <2>1, ConcatProperties DEF DmaStart
  <2>3. en' \in BOOLEAN /\ 0 \in 0 .. length
    BY <1>15, SizesType DEF IInv, DmaStart
  <2> QED
    BY <1>15, <2>2, <2>3 DEF IInv, DmaStart
<1>16. ASSUME StackReused PROVE TypeOK'
  <2>1. buff' \in [Cell -> 0 .. MaxCalls]
    BY <1>16, CallsAssumption DEF IInv, StackReused
  <2> QED
    BY <1>16, <2>1 DEF IInv, StackReused
<1> QED
  BY <1>1, <1>2, <1>3, <1>4, <1>5, <1>6, <1>7, <1>8, <1>9, <1>10, <1>11, <1>12,
     <1>13, <1>14, <1>15, <1>16 DEF Next, Call, Step, Hardware

\* Phase: the transmitter is empty between the bytes of a polling call, and the
\* stream runs on while the program does only after it was let loose.
LEMMA PhaseStep == ASSUME IInv, [Next]_vars PROVE Phase'
<1> USE DEF Phase, DmaCall, program, usart, stream, history
<1>0. mode \in {"polling", "dma"}
  BY ModesAssumption DEF IInv, TypeOK
<1>1. ASSUME UNCHANGED vars PROVE Phase'
  BY <1>1 DEF IInv, vars
<1>2. ASSUME Load PROVE Phase'
  BY <1>2 DEF IInv, Load
<1>3. ASSUME ShiftOut PROVE Phase'
  BY <1>3 DEF IInv, ShiftOut
<1>4. ASSUME DmaMove PROVE Phase'
  BY <1>4 DEF IInv, DmaMove
<1>5. ASSUME SetupUart PROVE Phase'
  BY <1>5 DEF IInv, SetupUart
<1>6. ASSUME StmInitLog PROVE Phase'
  BY <1>6 DEF IInv, StmInitLog
<1>7. ASSUME NEW l \in Lines, LogFiltered(l) PROVE Phase'
  BY <1>7 DEF IInv, LogFiltered
<1>8. ASSUME NEW l \in Lines, LogPrefix(l) PROVE Phase'
  BY <1>8 DEF IInv, LogPrefix
<1>9. ASSUME LogBody PROVE Phase'
  <2>1. Size \in 0 .. Word - 1
    BY SizeIsLength, TextType DEF IInv
  <2>2. CASE mode = "dma"
    BY <1>9, <2>2 DEF IInv, LogBody
  <2>3. CASE mode = "polling" /\ Size = 0
    BY <1>9, <2>3 DEF IInv, LogBody
  <2>4. CASE mode = "polling" /\ Size # 0
    <3>1. pc' = "byte" /\ i' < length'
      BY <1>9, <2>1, <2>4, SizesType DEF LogBody
    <3> QED
      BY <1>9, <2>4, <3>1 DEF IInv, LogBody
  <2> QED
    BY <1>0, <2>2, <2>3, <2>4
<1>10. ASSUME SendByte PROVE Phase'
  BY <1>10 DEF IInv, SendByte
<1>11. ASSUME WaitTc PROVE Phase'
  BY <1>11 DEF IInv, WaitTc, ByteSent
<1>12. ASSUME DmaWait PROVE Phase'
  BY <1>12 DEF IInv, DmaWait
<1>13. ASSUME DmaStop PROVE Phase'
  BY <1>13 DEF IInv, DmaStop
<1>14. ASSUME DmaFlags PROVE Phase'
  BY <1>14 DEF IInv, DmaFlags
<1>15. ASSUME DmaStart PROVE Phase'
  BY <1>15 DEF IInv, DmaStart
<1>16. ASSUME StackReused PROVE Phase'
  BY <1>16 DEF IInv, StackReused
<1> QED
  BY <1>1, <1>2, <1>3, <1>4, <1>5, <1>6, <1>7, <1>8, <1>9, <1>10, <1>11, <1>12,
     <1>13, <1>14, <1>15, <1>16 DEF Next, Call, Step, Hardware

\* When the message is formatted, the buffer holds the text of the call.
LEMMA BodyStores ==
  ASSUME TypeOK, Buffer, LogBody
  PROVE  n # 0 /\ buff'[BufSize] = 0 /\ \A c \in 1 .. Stored : buff'[c] = n
<1>1. /\ line.prefix + 1 \in Nat /\ line.prefix + line.body \in Nat /\ n \in 0 .. MaxCalls
      /\ line.prefix \in Nat
  <2>1. line.prefix \in Nat /\ line.body \in Nat
    BY LineType
  <2> QED
    BY <2>1 DEF TypeOK
<1>2. /\ \A c \in Cell : line.prefix + 1 <= c /\ c <= line.prefix + line.body /\ c < BufSize
           => buff'[c] = n
      /\ \A c \in Cell : c < line.prefix + 1 => buff'[c] = buff[c]
      /\ buff'[BufSize] = 0
  <2>1. LET W == Written(line.prefix + 1, line.prefix + line.body, n) IN
          /\ \A c \in Cell : line.prefix + 1 <= c /\ c <= line.prefix + line.body
                              /\ c < BufSize => W[c] = n
          /\ \A c \in Cell : c < line.prefix + 1 => W[c] = buff[c]
          /\ W[BufSize] = buff[BufSize]
    BY <1>1, WrittenType
  <2> QED
    BY <2>1 DEF Buffer, LogBody
<1>3. \A c \in 1 .. Stored : buff'[c] = n
  <2> TAKE c \in 1 .. Stored
  <2>1. c \in Cell /\ c < BufSize /\ c <= line.prefix + line.body /\ c \in Nat
    BY StoredType, SizesType, <1>1 DEF Cell
  <2>2. CASE c <= line.prefix
    BY <1>1, <1>2, <2>1, <2>2 DEF Buffer, LogBody
  <2>3. CASE line.prefix + 1 <= c
    BY <1>2, <2>1, <2>3
  <2> QED
    BY <1>1, <2>1, <2>2, <2>3
<1> QED
  BY <1>2, <1>3 DEF Buffer, LogBody

\* Buffer: the last cell is not part of a text, the two writes of a call store its
\* text, and nothing but the call touches the buffer before its transfer starts.
LEMMA BufferStep == ASSUME IInv, [Next]_vars PROVE Buffer'
<1> USE DEF Buffer, DmaCall, program, usart, stream, history
<1>1. ASSUME UNCHANGED <<line, n, buff, length>>, \/ pc' = pc \/ pc' \notin DmaCall \cup {"body"}
                                                  \/ pc \in DmaCall /\ pc' \in DmaCall
      PROVE  Buffer'
  <2>1. Stored' = Stored
    BY <1>1 DEF Stored
  <2> QED
    BY <1>1, <2>1 DEF IInv
<1>2. ASSUME NEW l \in Lines, LogFiltered(l) PROVE Buffer'
  BY <1>2 DEF IInv, LogFiltered
<1>3. ASSUME NEW l \in Lines, LogPrefix(l) PROVE Buffer'
  <2>1. n + 1 \in 0 .. MaxCalls /\ n + 1 # 0 /\ 1 \in Nat /\ l.prefix \in Nat
    BY <1>3, CallsAssumption, LineType DEF IInv, TypeOK, LogPrefix
  <2>2. /\ \A c \in Cell : 1 <= c /\ c <= l.prefix /\ c < BufSize => buff'[c] = n + 1
        /\ buff'[BufSize] = 0
    <3>1. LET W == Written(1, l.prefix, n + 1) IN
            /\ \A c \in Cell : 1 <= c /\ c <= l.prefix /\ c < BufSize => W[c] = n + 1
            /\ W[BufSize] = buff[BufSize]
      BY <2>1, WrittenType DEF IInv
    <3> QED
      BY <1>3, <3>1 DEF IInv, LogPrefix
  <2>3. CASE l.prefix >= BufSize
    BY <1>3, <2>2, <2>3 DEF LogPrefix
  <2>4. CASE ~(l.prefix >= BufSize)
    <3>1. \A c \in 1 .. l.prefix : c \in Cell /\ 1 <= c /\ c <= l.prefix /\ c < BufSize
      BY <2>1, <2>4, SizesType DEF Cell
    <3>2. l.prefix < BufSize
      BY <2>1, <2>4, SizesType
    <3> QED
      BY <1>3, <2>1, <2>2, <2>4, <3>1, <3>2 DEF LogPrefix
  <2> QED
    BY <2>3, <2>4
<1>4. ASSUME LogBody PROVE Buffer'
  <2>1. n # 0 /\ buff'[BufSize] = 0 /\ \A c \in 1 .. Stored : buff'[c] = n
    BY <1>4, BodyStores DEF IInv
  <2>2. Stored' = Stored
    BY <1>4 DEF LogBody, Stored
  <2>3. length' = (line.prefix + line.body) % Word
    BY <1>4, SizeIsLength DEF IInv, LogBody
  <2>4. pc' # "body"
    BY <1>4 DEF LogBody
  <2> QED
    BY <1>4, <2>1, <2>2, <2>3, <2>4 DEF LogBody
<1>5. ASSUME StackReused PROVE Buffer'
  <2>1. buff'[BufSize] = 0
    BY <1>5, SizesType DEF IInv, StackReused, Cell
  <2> QED
    BY <1>5, <2>1 DEF StackReused
<1>6. CASE Hardware \/ UNCHANGED vars
  BY <1>1, <1>6 DEF Hardware, Load, ShiftOut, DmaMove, vars
<1>7. CASE SetupUart \/ StmInitLog \/ SendByte \/ WaitTc
  BY <1>1, <1>7 DEF SetupUart, StmInitLog, SendByte, WaitTc, ByteSent
<1>8. CASE DmaWait \/ DmaStop \/ DmaFlags \/ DmaStart
  BY <1>1, <1>8 DEF DmaWait, DmaStop, DmaFlags, DmaStart
<1> QED
  BY <1>2, <1>3, <1>4, <1>5, <1>6, <1>7, <1>8 DEF Next, Call, Step

\* A step that moves no byte out of the buffer and hands none over.
LEMMA LogKept ==
  ASSUME Log, Transmitted' = Transmitted, due' = due, reused' = reused, Rest' = Rest,
         Rest # 0 => First' = First /\ buff' = buff
  PROVE  Log'
<1> SUFFICES ASSUME ~reused PROVE Log'
  BY DEF Log
<1>1. CASE Rest = 0
  BY <1>1 DEF Log
<1>2. CASE Rest # 0
  BY <1>2 DEF Log, ByteAt
<1> QED
  BY <1>1, <1>2

\* A step that puts the next byte of the buffer in DR.
LEMMA LogPut ==
  ASSUME TypeOK, Log, Rest \in Nat \ {0}, First \in Nat \ {0},
         dr = <<>>, dr' = ByteAt(First), shift' = shift, wire' = wire,
         due' = due, reused' = reused, buff' = buff,
         Rest' = Rest - 1, Rest' # 0 => First' = First + 1
  PROVE  Log'
<1> SUFFICES ASSUME ~reused PROVE Log'
  BY DEF Log
<1> DEFINE T == Len(Transmitted)
<1>1. T \in Nat
  BY TransmittedType
<1>2. dr' \in Byte
  BY ByteAtType
<1>3. /\ Len(Transmitted') = T + 1
      /\ \A m \in 1 .. T : Transmitted'[m] = Transmitted[m]
      /\ Transmitted'[T + 1] = dr'
  BY <1>2, PutAppends
<1>4. /\ T + Rest = Len(due)
      /\ \A m \in 1 .. T : Transmitted[m] = due[m]
      /\ \A m \in 1 .. Rest : ByteAt(First + (m - 1)) = due[T + m]
  BY DEF Log
<1> HIDE DEF T
<1>5. dr' = due[T + 1]
  <2>1. ByteAt(First + (1 - 1)) = due[T + 1]
    BY <1>4
  <2>2. First + (1 - 1) = First
    OBVIOUS
  <2> QED
    BY <2>1, <2>2
<1>6. Len(Transmitted') + Rest' = Len(due')
  BY <1>1, <1>3, <1>4
<1>7. \A m \in 1 .. Len(Transmitted') : Transmitted'[m] = due'[m]
  BY <1>1, <1>3, <1>4, <1>5
<1>8. ASSUME NEW m \in 1 .. Rest'
      PROVE  ByteAt(First + (m - 1))' = due'[Len(Transmitted') + m]
  <2>1. m + 1 \in 1 .. Rest /\ First' = First + 1
    OBVIOUS
  <2>2. ByteAt(First + ((m + 1) - 1)) = due[T + (m + 1)]
    BY <1>4, <2>1
  <2>3. First + ((m + 1) - 1) = First' + (m - 1) /\ T + (m + 1) = Len(Transmitted') + m
    BY <1>1, <1>3, <2>1
  <2>4. ByteAt(First' + (m - 1)) = due[Len(Transmitted') + m]
    BY <2>2, <2>3
  <2> QED
    BY <2>4 DEF ByteAt
<1> QED
  BY <1>6, <1>7, <1>8 DEF Log

\* A step that hands the text of the call over, once the buffer holds it.
LEMMA LogHandOver ==
  ASSUME TypeOK, Log, Rest = 0, Transmitted' = Transmitted, due' = due \o Text,
         reused' = reused, Rest' = Len(Text), Rest' # 0 => First' = 1,
         n # 0, buff'[BufSize] = 0, \A c \in 1 .. Stored : buff'[c] = n
  PROVE  Log'
<1> SUFFICES ASSUME ~reused PROVE Log'
  BY DEF Log
<1> DEFINE T == Len(Transmitted)
           L == Len(Text)
<1>1. /\ due \in Seq(Byte) /\ Text \in Seq(Byte) /\ Transmitted \in Seq(Byte)
      /\ T \in Nat /\ L \in Nat
  BY TextType, TransmittedType DEF TypeOK
<1>2. T = Len(due) /\ \A m \in 1 .. T : Transmitted[m] = due[m]
  BY <1>1 DEF Log
<1>3. /\ Len(due') = T + L
      /\ \A m \in 1 .. T + L : due'[m] = IF m <= T THEN due[m] ELSE Text[m - T]
  BY <1>1, <1>2, ConcatProperties
<1>4. ASSUME NEW m \in 1 .. L
      PROVE  (IF m \in Cell /\ buff'[m] # 0 THEN <<buff'[m], m>> ELSE Junk) = Text[m]
  <2>1. /\ Text[m] = IF m <= Stored THEN <<n, m>> ELSE Junk
        /\ L = (line.prefix + line.body) % Word
    BY TextType
  <2>2. CASE m <= Stored
    BY <2>1, <2>2, StoredType, SizesType DEF Cell
  <2>3. CASE ~(m <= Stored)
    <3>1. line.prefix + line.body \in Nat
      BY LineType
    <3>2. L <= line.prefix + line.body
      <4> DEFINE s == line.prefix + line.body
      <4>1. PICK q \in Nat, r \in Nat : s = q * Word + r /\ s % Word = r
        BY <3>1, SizesType, DivMod
      <4>2. q * Word \in Nat
        BY SizesType
      <4> HIDE DEF s
      <4>3. s % Word <= s
        BY <4>1, <4>2
      <4> QED
        BY <2>1, <4>3 DEF s
    <3>3. Stored = BufSize - 1
      BY <1>1, <2>3, <3>1, <3>2, StoredType
    <3>4. m = BufSize \/ m \notin Cell
      BY <1>1, <2>3, <3>3, SizesType DEF Cell
    <3> QED
      BY <2>1, <2>3, <3>4
  <2> QED
    BY <2>2, <2>3
<1> HIDE DEF T, L
<1>5. Len(Transmitted') + Rest' = Len(due')
  BY <1>1, <1>3 DEF T, L
<1>6. \A m \in 1 .. Len(Transmitted') : Transmitted'[m] = due'[m]
  BY <1>1, <1>2, <1>3 DEF T
<1>7. ASSUME NEW m \in 1 .. Rest'
      PROVE  ByteAt(First + (m - 1))' = due'[Len(Transmitted') + m]
  <2>1. m \in 1 .. L /\ First' + (m - 1) = m
    BY <1>1 DEF L
  <2>2. due'[T + m] = Text[m]
    <3>1. T + m \in 1 .. T + L /\ ~(T + m <= T) /\ (T + m) - T = m
      BY <1>1, <2>1
    <3> QED
      BY <1>3, <3>1
  <2>3. ByteAt(m)' = Text[m]
    BY <1>4, <2>1 DEF ByteAt
  <2> QED
    BY <2>1, <2>2, <2>3 DEF T
<1> QED
  BY <1>5, <1>6, <1>7 DEF Log

\* Log: each action keeps the bytes, puts one in DR or hands a text over.
LEMMA LogStep == ASSUME IInv, [Next]_vars PROVE Log'
<1> USE DEF program, usart, stream, history
<1>0. TypeOK /\ Phase /\ Buffer /\ Log /\ mode \in {"polling", "dma"}
  BY ModesAssumption DEF IInv, TypeOK
<1>1. ASSUME UNCHANGED <<dr, shift, wire>> PROVE Transmitted' = Transmitted
  BY <1>1 DEF Transmitted, InFlight
<1>2. ASSUME reused' PROVE Log'
  BY <1>2 DEF Log
<1>3. ASSUME UNCHANGED vars PROVE Log'
  BY <1>0, <1>1, <1>3, LogKept DEF vars, Rest, First
<1>4. ASSUME Load PROVE Log'
  BY <1>0, <1>4, LoadKeeps, LogKept DEF Load, Rest, First
<1>5. ASSUME ShiftOut PROVE Log'
  BY <1>0, <1>5, ShiftOutKeeps, LogKept DEF ShiftOut, Rest, First
<1>6. ASSUME DmaMove PROVE Log'
  <2>1. SUFFICES ASSUME ~reused PROVE Log'
    BY <1>2, <1>6 DEF DmaMove
  <2>2. en /\ pc = "idle" /\ moved < ndtr
    BY <1>0, <1>6, <2>1 DEF Phase, DmaMove
  <2>3. moved \in Nat /\ ndtr \in Nat
    BY <1>0, SizesType DEF TypeOK
  <2>4. Rest = ndtr - moved /\ First = moved + 1
    BY <2>2 DEF Rest, First
  <2>5. Rest' = ndtr - (moved + 1)
    <3>1. en' <=> moved + 1 < ndtr
      BY <1>6 DEF DmaMove
    <3>2. pc' = "idle" /\ moved' = moved + 1 /\ ndtr' = ndtr
      BY <1>6, <2>2 DEF DmaMove
    <3>3. CASE en'
      BY <3>2, <3>3 DEF Rest
    <3>4. CASE ~en'
      BY <2>2, <2>3, <3>1, <3>2, <3>4 DEF Rest
    <3> QED
      BY <3>3, <3>4
  <2>6. Rest' # 0 => First' = (moved + 1) + 1
    BY <1>6, <2>2, <2>3 DEF DmaMove, Rest, First
  <2>7. Rest \in Nat \ {0} /\ First \in Nat \ {0} /\ Rest' = Rest - 1
    BY <2>2, <2>3, <2>4, <2>5
  <2> QED
    BY <1>0, <1>6, <2>4, <2>6, <2>7, LogPut DEF DmaMove
<1>7. ASSUME SetupUart PROVE Log'
  <2>1. Rest = 0 /\ Rest' = 0
    BY <1>0, <1>7 DEF SetupUart, Rest, Phase
  <2> QED
    BY <1>0, <1>1, <1>7, <2>1, LogKept DEF SetupUart
<1>8. ASSUME StmInitLog PROVE Log'
  <2>1. Rest = 0 /\ Rest' = 0
    BY <1>0, <1>8 DEF StmInitLog, Rest, Phase
  <2> QED
    BY <1>0, <1>1, <1>8, <2>1, LogKept DEF StmInitLog
<1>9. ASSUME NEW l \in Lines, LogFiltered(l) PROVE Log'
  BY <1>0, <1>1, <1>9, LogKept DEF LogFiltered, Rest, First
<1>10. ASSUME NEW l \in Lines, LogPrefix(l) PROVE Log'
  <2>1. CASE en
    BY <1>2, <1>10, <2>1 DEF LogPrefix
  <2>2. CASE ~en
    <3>1. Rest = 0 /\ Rest' = 0 /\ reused' = reused
      BY <1>0, <1>10, <2>2 DEF LogPrefix, Rest, TypeOK
    <3> QED
      BY <1>0, <1>1, <1>10, <3>1, LogKept DEF LogPrefix
  <2> QED
    BY <2>1, <2>2
<1>11. ASSUME LogBody PROVE Log'
  <2>1. SUFFICES ASSUME ~reused PROVE Log'
    BY <1>2, <1>11 DEF LogBody
  <2>2. Rest = 0 /\ ~en /\ ~en'
    BY <1>0, <1>11, <2>1 DEF LogBody, Rest, Phase
  <2>3. CASE mode = "dma"
    <3>1. Rest' = 0
      BY <1>11, <2>2, <2>3 DEF LogBody, Rest
    <3> QED
      BY <1>0, <1>1, <1>11, <2>2, <2>3, <3>1, LogKept DEF LogBody
  <2>4. CASE mode = "polling"
    <3>1. n # 0 /\ buff'[BufSize] = 0 /\ \A c \in 1 .. Stored : buff'[c] = n
      BY <1>0, <1>11, BodyStores
    <3>2. Len(Text) = Size /\ Size \in Nat
      BY <1>0, SizeIsLength, TextType, SizesType
    <3>3. Rest' = Len(Text) /\ (Rest' # 0 => First' = 1)
      <4>1. CASE Size = 0
        BY <1>11, <2>2, <2>4, <3>2, <4>1 DEF LogBody, Rest
      <4>2. CASE Size # 0
        BY <1>11, <2>2, <2>4, <3>2, <4>2 DEF LogBody, Rest, First
      <4> QED
        BY <4>1, <4>2
    <3>4. due' = due \o Text /\ reused' = reused /\ Transmitted' = Transmitted
      BY <1>1, <1>11, <2>4 DEF LogBody
    <3> QED
      BY <1>0, <2>2, <3>1, <3>3, <3>4, LogHandOver
  <2> QED
    BY <1>0, <2>3, <2>4
<1>12. ASSUME SendByte PROVE Log'
  <2>1. ~en /\ ~en' /\ i < length /\ i \in Nat /\ length \in Nat
    BY <1>0, <1>12, SizesType DEF SendByte, Phase, TypeOK
  <2>2. Rest = length - i /\ First = i + 1
    BY <1>12, <2>1 DEF SendByte, Rest, First
  <2>3. Rest' = length - (i + 1) /\ First' = i + 2
    BY <1>12, <2>1 DEF SendByte, Rest, First
  <2>4. Rest \in Nat \ {0} /\ First \in Nat \ {0} /\ Rest' = Rest - 1 /\ First' = First + 1
    BY <2>1, <2>2, <2>3
  <2> QED
    BY <1>0, <1>12, <2>2, <2>4, LogPut DEF SendByte
<1>13. ASSUME WaitTc PROVE Log'
  <2>1. ~en /\ ~en' /\ i < length /\ i \in Nat /\ length \in Nat
    BY <1>0, <1>13, SizesType DEF WaitTc, ByteSent, Phase, TypeOK
  <2>2. Rest = length - (i + 1) /\ First = i + 2
    BY <1>13, <2>1 DEF WaitTc, Rest, First
  <2>3. Rest' = Rest /\ (Rest # 0 => First' = First)
    BY <1>13, <2>1, <2>2 DEF WaitTc, ByteSent, Rest, First
  <2> QED
    BY <1>0, <1>1, <1>13, <2>3, LogKept DEF WaitTc, ByteSent
<1>14. ASSUME DmaWait \/ DmaFlags PROVE Log'
  <2>1. Rest' = Rest /\ First' = First
    <3>1. UNCHANGED <<en, ndtr, moved, length, i>> /\ {pc, pc'} \cap {"byte", "tc"} = {}
      BY <1>14 DEF DmaWait, DmaFlags
    <3> QED
      BY <3>1 DEF Rest, First
  <2> QED
    BY <1>0, <1>1, <1>14, <2>1, LogKept DEF DmaWait, DmaFlags
<1>15. ASSUME DmaStop PROVE Log'
  <2>1. SUFFICES ASSUME ~reused PROVE Log'
    BY <1>2, <1>15 DEF DmaStop
  <2>2. Rest = 0 /\ Rest' = 0
    BY <1>0, <1>15, <2>1 DEF DmaStop, Rest, Phase
  <2> QED
    BY <1>0, <1>1, <1>15, <2>2, LogKept DEF DmaStop
<1>16. ASSUME DmaStart PROVE Log'
  <2>1. SUFFICES ASSUME ~reused PROVE Log'
    BY <1>2, <1>16 DEF DmaStart
  <2>2. Rest = 0 /\ Transmitted' = Transmitted /\ reused' = reused
    BY <1>0, <1>1, <1>16, <2>1 DEF DmaStart, Rest, Phase
  <2>3. CASE ~en'
    <3>1. Rest' = 0 /\ due' = due
      BY <1>16, <2>3 DEF DmaStart, Rest
    <3> QED
      BY <1>0, <2>2, <3>1, LogKept
  <2>4. CASE en'
    <3>1. n # 0 /\ buff'[BufSize] = 0 /\ \A c \in 1 .. Stored : buff'[c] = n
      BY <1>0, <1>16 DEF DmaStart, Buffer, DmaCall
    <3>2. Len(Text) = length /\ length \in Nat
      BY <1>0, <1>16, TextType, SizesType DEF DmaStart, Buffer, DmaCall, TypeOK
    <3>3. Rest' = Len(Text) /\ First' = 1
      BY <1>16, <2>4, <3>2 DEF DmaStart, Rest, First
    <3>4. due' = due \o Text
      BY <1>16, <2>4 DEF DmaStart
    <3> QED
      BY <1>0, <2>2, <3>1, <3>3, <3>4, LogHandOver
  <2> QED
    BY <2>3, <2>4
<1>17. ASSUME StackReused PROVE Log'
  BY <1>2, <1>17 DEF StackReused
<1> QED
  BY <1>3, <1>4, <1>5, <1>6, <1>7, <1>8, <1>9, <1>10, <1>11, <1>12, <1>13, <1>14,
     <1>15, <1>16, <1>17 DEF Next, Call, Step, Hardware

-----------------------------------------------------------------------------
(* Theorems.                                                               *)

\* IInv is an invariant of the path of a log line.
THEOREM Invariance == Spec => []IInv
<1>1. IInv /\ [Next]_vars => IInv'
  BY TypeStep, PhaseStep, BufferStep, LogStep DEF IInv
<1> QED
  BY InitIInv, <1>1, PTL DEF Spec

\* Every variable keeps its type, for any size of the buffer: the index of
\* send_data_usart stays within the length, the stream within its transfer.
THEOREM TypeCorrect == Spec => []TypeOK
<1>1. IInv => TypeOK
  BY DEF IInv
<1> QED
  BY Invariance, <1>1, PTL

\* What holds in an IInv state of the bytes that have been sent.
LEMMA LogIsSent == IInv => WireIsLog
<1> SUFFICES ASSUME IInv, ~reused
             PROVE  /\ IsPrefixOf(Transmitted, due)
                    /\ pc = "idle" /\ ~en => Transmitted = due
                    /\ pc = "idle" /\ mode = "polling" => wire = due
  BY DEF WireIsLog
<1> DEFINE T == Len(Transmitted)
<1>1. /\ TypeOK /\ Phase /\ Transmitted \in Seq(Byte) /\ due \in Seq(Byte)
      /\ T \in Nat /\ Len(due) \in Nat
  BY TransmittedType DEF IInv, TypeOK
<1>2. Rest \in Nat
  BY <1>1, SizesType DEF Rest, Phase, TypeOK
<1>3. T + Rest = Len(due) /\ \A m \in 1 .. T : Transmitted[m] = due[m]
  BY DEF IInv, Log
<1>4. T <= Len(due)
  BY <1>1, <1>2, <1>3
<1>5. Transmitted = SubSeq(due, 1, T)
  <2>1. \A m \in 1 .. T : due[m] \in Byte
    BY <1>1, <1>4
  <2>2. /\ SubSeq(due, 1, T) \in Seq(Byte) /\ Len(SubSeq(due, 1, T)) = T
        /\ \A m \in 1 .. T : SubSeq(due, 1, T)[m] = due[m]
    BY <1>1, <2>1
  <2> QED
    BY <1>1, <1>3, <2>2, SeqEqual
<1>6. ASSUME pc = "idle", ~en PROVE Transmitted = due
  <2>1. Rest = 0
    BY <1>6 DEF Rest
  <2> QED
    BY <1>1, <1>3, <2>1, SeqEqual
<1>7. ASSUME pc = "idle", mode = "polling" PROVE wire = due
  <2>1. ~en /\ dr = <<>> /\ shift = <<>> /\ wire \in Seq(Byte)
    BY <1>1, <1>7 DEF Phase, TypeOK
  <2>2. InFlight = <<>> \o <<>>
    BY <2>1 DEF InFlight
  <2>3. <<>> \in Seq(Byte)
    BY EmptySeq
  <2>4. InFlight = <<>>
    BY <2>2, <2>3, ConcatEmptySeq
  <2>5. Transmitted = wire
    BY <2>1, <2>4, ConcatEmptySeq DEF Transmitted
  <2> QED
    BY <1>6, <1>7, <2>1, <2>5
<1> QED
  BY <1>4, <1>5, <1>6, <1>7 DEF IsPrefixOf

\* Of the texts that stm_log hands over, the transmitter sends every byte, in
\* order; and with UART_MODE_POLLING they are on the wire when stm_log returns.
THEOREM LinesReachTheWire == Spec => []WireIsLog
BY Invariance, LogIsSent, PTL
=============================================================================
