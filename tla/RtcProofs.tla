------------------------------ MODULE RtcProofs ------------------------------
(***************************************************************************)
(* Proofs about Rtc, for every base of the calendar, every set of targets, *)
(* and any number of seconds and resets.                                   *)
(*                                                                         *)
(* The inductive invariant IInv puts the peripheral in step with the       *)
(* driver: Registers says which registers are what at which statement of   *)
(* which call, Reading what get_datetime_rtc has got so far.  One lemma    *)
(* per part: a step from an IInv state establishes it again.               *)
(***************************************************************************)
EXTENDS Rtc, DivModLemmas, TLAPS

\* The registers are writable at these statements.
Open == \/ pc \in {"setInit", "waitInitf", "writeTR", "writeDR", "clearInit", "lock"}
        \/ op = "init" /\ pc \in {"clearRsf", "waitRsf"}

Writing == {"writeTR", "writeDR", "clearInit"}

\* The running call and the waits for RSF it has still to make.
CallInPhase ==
  /\ pc = "idle" <=> op = "none"
  /\ pc \in {"unlock", "setInit", "waitInitf", "clearInit"} =>
       op \in Setters \cup {"init"} /\ syncs = IF op = "init" THEN 2 ELSE 1
  /\ pc \in {"writeTR", "writeDR"} => op \in Setters /\ syncs = 1
  /\ pc = "lock" => op \in Setters \cup {"init"} /\ (op # "init" => syncs = 1)
  /\ pc \in {"clearRsf", "waitRsf"} => syncs >= 1 /\ (op # "init" => syncs = 1)
  /\ pc \in {"read", "log"} => op = "get"
  /\ op = "get" => pc \in {"clearRsf", "waitRsf", "read", "log"}
  /\ pc # "read" => field = 1

\* The peripheral while a call runs, and between the calls of a driver that is
\* initialised.  (After a reset it is as the interrupted call has left it.)
Registers ==
  initialized \/ pc # "idle" =>
    /\ wpr = IF Open THEN "open" ELSE "locked"
    /\ init <=> pc \in Writing \cup {"waitInitf"}
    /\ pc \in Writing => initf
    /\ initf => /\ op \notin {"none", "get"} /\ pc \notin {"unlock", "setInit"}
                /\ ~(op = "init" /\ pc = "lock")
    /\ op \in {"none", "init", "get"} => ~stale
    /\ drLocked <=> pc = "read" /\ field \in 2 .. 4

\* What holds in every state, those after a reset included.
Always ==
  /\ cal = ideal
  /\ rsf => ~initf /\ ~stale
  /\ drLocked => ~stale
  /\ ~stale => copied <= cal

\* get_datetime_rtc has read the first n fields.
Past(n) == pc = "log" \/ (pc = "read" /\ field > n)

Square == Base * Base

\* What get_datetime_rtc has got so far: the date is of the instant of the hour,
\* and the time read so far, in units of its last field, is not ahead of TR.
Reading ==
  /\ initialized \/ pc # "idle" =>
       (~drLocked /\ ~Past(4) => dr = DatePart(copied))
  /\ Past(1) /\ ~Past(4) => dr = DatePart(hourAt)
  /\ Past(4) => result["day"] = DatePart(hourAt) % Base
  /\ Past(1) => hourAt <= copied /\ result["hour"] = TimePart(hourAt) \div Square
  /\ Past(2) => (hourAt \div Square) * Base + result["minute"] <= copied \div Base
  /\ Past(3) => ((hourAt \div Square) * Base + result["minute"]) * Base
                  + result["seconds"] <= copied

IInv == TypeOK /\ CallInPhase /\ Registers /\ Always /\ Reading

-----------------------------------------------------------------------------
(* Arithmetic of the calendar.                                             *)

\* TR holds Base^3 values.
LEMMA SpanType ==
  /\ Base \in Nat \ {0} /\ Square \in Nat \ {0} /\ TimeSpan \in Nat \ {0}
  /\ TimeSpan = Square * Base /\ TimeSpan = Base * Square
BY BaseAssumption DEF Square, TimeSpan

\* TR and DR hold the two halves of a calendar value.
LEMMA PartType ==
  ASSUME NEW n \in 0 .. MaxCal
  PROVE  TimePart(n) \in 0 .. TimeSpan - 1 /\ DatePart(n) \in 0 .. TimeSpan - 1
<1>1. n \in Nat /\ n \in 0 .. TimeSpan * TimeSpan - 1
  BY SpanType DEF MaxCal
<1>2. n % TimeSpan \in 0 .. TimeSpan - 1
  BY <1>1, SpanType, DivMod
<1>3. n \div TimeSpan \in 0 .. TimeSpan - 1
  BY <1>1, SpanType, DivBound
<1> QED
  BY <1>2, <1>3 DEF TimePart, DatePart

\* The two halves make a calendar value.
LEMMA JoinType ==
  ASSUME NEW d \in 0 .. TimeSpan - 1, NEW t \in 0 .. TimeSpan - 1
  PROVE  d * TimeSpan + t \in 0 .. MaxCal
BY SpanType, Compose DEF MaxCal

\* The calendar after a reset of the backup domain.
LEMMA ZeroType == 0 \in 0 .. MaxCal /\ 0 \in 0 .. TimeSpan - 1 /\ DatePart(0) = 0
BY SpanType DEF MaxCal, DatePart

\* Every field of TR and DR is a digit.
LEMMA FieldType ==
  ASSUME NEW f, NEW t \in 0 .. TimeSpan - 1, NEW d \in 0 .. TimeSpan - 1
  PROVE  FieldOf(f, t, d) \in 0 .. Base - 1
<1>1. \A n \in 0 .. TimeSpan - 1 : n \div Square \in 0 .. Base - 1
  BY SpanType, DivBound
<1>2. \A n \in Nat : n % Base \in 0 .. Base - 1 /\ n \div Base \in Nat
  BY SpanType, DivMod
<1>3. t \in Nat /\ d \in Nat
  BY SpanType
<1> QED
  BY <1>1, <1>2, <1>3 DEF FieldOf, Square

-----------------------------------------------------------------------------
(* The invariant holds initially, and every step preserves each part.      *)

\* The fields of TR in terms of the calendar.
LEMMA TimeFieldsOf ==
  ASSUME NEW n \in 0 .. MaxCal, NEW d
  PROVE  /\ FieldOf("hour", TimePart(n), d) = TimePart(n) \div Square
         /\ FieldOf("minute", TimePart(n), d) = (n \div Base) % Base
         /\ FieldOf("seconds", TimePart(n), d) = n % Base
<1>0. n \in Nat
  OBVIOUS
<1>1. n \div Base \in Nat
  BY <1>0, SpanType, DivMod
<1>2. /\ (n % (Base * Square)) % Base = n % Base
      /\ (n % (Base * Square)) \div Base = (n \div Base) % Square
  BY <1>0, SpanType, LowDigits, Zenon
<1>3. ((n \div Base) % Square) % Base = (n \div Base) % Base
  BY <1>1, SpanType, LowDigits, Zenon DEF Square
<1>4. TimePart(n) % Base = n % Base /\ (TimePart(n) \div Base) % Base = (n \div Base) % Base
  BY <1>2, <1>3, SpanType DEF TimePart
<1> QED
  BY <1>4 DEF FieldOf, Square

\* One read of get_datetime_rtc: TR for the first three fields, DR for the rest.
LEMMA OneRead ==
  ASSUME field \in 1 .. 7, ReadField
  PROVE  /\ ReadOrder[field] \in Fields
         /\ result' = [result EXCEPT ![ReadOrder[field]] =
                         FieldOf(ReadOrder[field], TimePart(copied), dr)]
         /\ drLocked' \in BOOLEAN /\ (drLocked' <=> field \in 1 .. 3)
         /\ hourAt' = IF field = 1 THEN copied ELSE hourAt
         /\ IF field = 7 THEN pc' = "log" /\ field' = 1
                        ELSE pc' = "read" /\ field' = field + 1
<1>1. ReadOrder[field] \in TimeFields <=> field \in 1 .. 3
  BY DEF ReadOrder, TimeFields
<1>2. ReadOrder[field] = "hour" <=> field = 1
  BY DEF ReadOrder
<1>3. drLocked' = (ReadOrder[field] \in TimeFields)
  BY Zenon DEF ReadField
<1>4. drLocked' \in BOOLEAN
  BY <1>3
<1>5. drLocked' <=> field \in 1 .. 3
  BY <1>1, <1>3
<1> QED
  BY <1>2, <1>4, <1>5 DEF ReadField, Fields

\* The invariant holds after a reset of the backup domain.
LEMMA InitIInv == Init => IInv
<1> SUFFICES ASSUME Init PROVE IInv
  OBVIOUS
<1>1. TypeOK
  <2>1. Nothing \in [Fields -> 0 .. Base - 1]
    BY BaseAssumption DEF Nothing
  <2>2. initialized \in BOOLEAN /\ is_sync \in BOOLEAN /\ init \in BOOLEAN /\
        initf \in BOOLEAN /\ rsf \in BOOLEAN /\ drLocked \in BOOLEAN /\ stale \in BOOLEAN
    BY Zenon DEF Init
  <2> QED
    BY <2>1, <2>2, ZeroType, MaxTicksAssumption, MaxResetsAssumption
       DEF Init, TypeOK, PcValues, Setters
<1>2. CallInPhase /\ Registers /\ Always
  BY DEF Init, CallInPhase, Registers, Always, Setters, Open, Writing
<1>3. Reading
  BY ZeroType DEF Init, Reading, Past
<1> QED
  BY <1>1, <1>2, <1>3 DEF IInv

\* Type correctness of a step.
LEMMA StepTypeOK == IInv /\ [Next]_vars => TypeOK'
<1> SUFFICES ASSUME IInv, [Next]_vars PROVE TypeOK'
  OBVIOUS
<1> USE DEF IInv, TypeOK, At, driverVars, hwVars, history, PcValues
<1>1. ASSUME NEW s \in Setters, NEW n \in Targets, CallSet(s, n) PROVE TypeOK'
  BY <1>1, TargetsAssumption DEF CallSet
<1>2. CASE CallInit
  <2>1. init' \in BOOLEAN /\ initf' \in BOOLEAN /\ rsf' \in BOOLEAN /\
        drLocked' \in BOOLEAN /\ stale' \in BOOLEAN
    BY <1>2, Zenon DEF CallInit
  <2> QED
    BY <1>2, <2>1, ZeroType DEF CallInit
<1>3. CASE CallGet
  BY <1>3 DEF CallGet
<1>4. CASE Unlock
  BY <1>4 DEF Unlock
<1>5. CASE SetInit
  BY <1>5 DEF SetInit
<1>6. CASE WaitInitf
  BY <1>6 DEF WaitInitf
<1>7. CASE WriteTR
  BY <1>7, PartType, JoinType DEF WriteTR, WriteCalendar
<1>8. CASE WriteDR
  BY <1>8, PartType, JoinType DEF WriteDR, WriteCalendar
<1>9. CASE ClearInit
  BY <1>9 DEF ClearInit
<1>10. CASE Lock
  BY <1>10 DEF Lock
<1>11. CASE ClearRsf
  BY <1>11 DEF ClearRsf
<1>12. CASE WaitRsf
  BY <1>12 DEF WaitRsf, AfterSync, CallInPhase
<1>13. CASE ReadField
  <2>1. \A f : FieldOf(f, TimePart(copied), dr) \in 0 .. Base - 1
    BY FieldType, PartType
  <2>2. result' \in [Fields -> 0 .. Base - 1]
    BY <1>13, <2>1 DEF ReadField
  <2>3. drLocked' \in BOOLEAN
    BY <1>13, OneRead
  <2> QED
    BY <1>13, <2>2, <2>3 DEF ReadField
<1>14. CASE Log
  BY <1>14, ZeroType, BaseAssumption DEF Log, Nothing
<1>15. CASE Tick
  <2>1. MaxCal \in Nat
    BY SpanType DEF MaxCal
  <2>2. cal + 1 \in 0 .. MaxCal /\ ideal + 1 \in 0 .. MaxCal /\ ticks + 1 \in 0 .. MaxTicks
    BY <1>15, <2>1, MaxTicksAssumption DEF Tick, Always
  <2> QED
    BY <1>15, <2>2 DEF Tick
<1>16. CASE EnterInitMode
  <2>1. initf' \in BOOLEAN /\ rsf' \in BOOLEAN
    BY <1>16, Zenon DEF EnterInitMode
  <2> QED
    BY <1>16, <2>1 DEF EnterInitMode
<1>17. CASE LeaveInitMode
  <2>1. initf' \in BOOLEAN
    BY <1>17, Zenon DEF LeaveInitMode
  <2> QED
    BY <1>17, <2>1 DEF LeaveInitMode
<1>18. CASE Copy
  BY <1>18, PartType DEF Copy
<1>19. CASE Reset
  <2>1. initialized' \in BOOLEAN /\ is_sync' \in BOOLEAN
    BY <1>19, Zenon DEF Reset
  <2> QED
    BY <1>19, <2>1, ZeroType, BaseAssumption, MaxResetsAssumption DEF Reset, Nothing
<1>20. CASE UNCHANGED vars
  BY <1>20 DEF vars
<1> QED
  BY <1>1, <1>2, <1>3, <1>4, <1>5, <1>6, <1>7, <1>8, <1>9, <1>10, <1>11,
     <1>12, <1>13, <1>14, <1>15, <1>16, <1>17, <1>18, <1>19, <1>20
     DEF Next, Call, Step, Hardware

\* The calls keep to their statements.
LEMMA StepCallInPhase == IInv /\ [Next]_vars => CallInPhase'
<1> SUFFICES ASSUME IInv, [Next]_vars PROVE CallInPhase'
  OBVIOUS
<1> USE DEF IInv, TypeOK, CallInPhase, Setters, At, driverVars, hwVars, history
<1>1. ASSUME NEW s \in Setters, NEW n \in Targets, CallSet(s, n) PROVE CallInPhase'
  BY <1>1 DEF CallSet
<1>2. CASE CallInit
  BY <1>2 DEF CallInit
<1>3. CASE CallGet
  BY <1>3 DEF CallGet
<1>4. CASE Unlock
  BY <1>4 DEF Unlock
<1>5. CASE SetInit
  BY <1>5 DEF SetInit
<1>6. CASE WaitInitf
  BY <1>6 DEF WaitInitf
<1>7. CASE WriteTR
  BY <1>7 DEF WriteTR, WriteCalendar
<1>8. CASE WriteDR
  BY <1>8 DEF WriteDR, WriteCalendar
<1>9. CASE ClearInit
  BY <1>9 DEF ClearInit
<1>10. CASE Lock
  BY <1>10 DEF Lock
<1>11. CASE ClearRsf
  BY <1>11 DEF ClearRsf
<1>12. CASE WaitRsf
  BY <1>12 DEF WaitRsf, AfterSync
<1>13. CASE ReadField
  BY <1>13 DEF ReadField
<1>14. CASE Log
  BY <1>14 DEF Log
<1>15. CASE Tick
  BY <1>15 DEF Tick
<1>16. CASE EnterInitMode
  BY <1>16 DEF EnterInitMode
<1>17. CASE LeaveInitMode
  BY <1>17 DEF LeaveInitMode
<1>18. CASE Copy
  BY <1>18 DEF Copy
<1>19. CASE Reset
  BY <1>19 DEF Reset
<1>20. CASE UNCHANGED vars
  BY <1>20 DEF vars
<1> QED
  BY <1>1, <1>2, <1>3, <1>4, <1>5, <1>6, <1>7, <1>8, <1>9, <1>10, <1>11,
     <1>12, <1>13, <1>14, <1>15, <1>16, <1>17, <1>18, <1>19, <1>20
     DEF Next, Call, Step, Hardware

\* The peripheral stays in step with the driver.
LEMMA StepRegisters == IInv /\ [Next]_vars => Registers'
<1> SUFFICES ASSUME IInv, [Next]_vars PROVE Registers'
  OBVIOUS
<1> USE DEF IInv, TypeOK, CallInPhase, Registers, Always, Open, Writing, Setters, At, driverVars, hwVars, history
<1>1. ASSUME NEW s \in Setters, NEW n \in Targets, CallSet(s, n) PROVE Registers'
  BY <1>1 DEF CallSet
<1>2. CASE CallInit
  BY <1>2 DEF CallInit
<1>3. CASE CallGet
  BY <1>3 DEF CallGet
<1>4. CASE Unlock
  BY <1>4 DEF Unlock
<1>5. CASE SetInit
  BY <1>5 DEF SetInit
<1>6. CASE WaitInitf
  BY <1>6 DEF WaitInitf
<1>7. CASE WriteTR
  BY <1>7 DEF WriteTR, WriteCalendar
<1>8. CASE WriteDR
  BY <1>8 DEF WriteDR, WriteCalendar
<1>9. CASE ClearInit
  BY <1>9 DEF ClearInit
<1>10. CASE Lock
  BY <1>10 DEF Lock
<1>11. CASE ClearRsf
  BY <1>11 DEF ClearRsf
<1>12. CASE WaitRsf
  BY <1>12 DEF WaitRsf, AfterSync
<1>13. CASE ReadField
  BY <1>13, OneRead DEF ReadField
<1>14. CASE Log
  BY <1>14 DEF Log
<1>15. CASE Tick
  BY <1>15 DEF Tick
<1>16. CASE EnterInitMode
  BY <1>16 DEF EnterInitMode
<1>17. CASE LeaveInitMode
  BY <1>17 DEF LeaveInitMode
<1>18. CASE Copy
  BY <1>18 DEF Copy
<1>19. CASE Reset
  BY <1>19 DEF Reset
<1>20. CASE UNCHANGED vars
  BY <1>20 DEF vars
<1> QED
  BY <1>1, <1>2, <1>3, <1>4, <1>5, <1>6, <1>7, <1>8, <1>9, <1>10, <1>11,
     <1>12, <1>13, <1>14, <1>15, <1>16, <1>17, <1>18, <1>19, <1>20
     DEF Next, Call, Step, Hardware

\* The calendar obeys, and RSF and the lock tell that the copy is new.
LEMMA StepAlways == IInv /\ [Next]_vars => Always'
<1> SUFFICES ASSUME IInv, [Next]_vars PROVE Always'
  OBVIOUS
<1> USE DEF IInv, TypeOK, Always, At, driverVars, hwVars, history
<1>1. ASSUME NEW s \in Setters, NEW n \in Targets, CallSet(s, n) PROVE Always'
  BY <1>1 DEF CallSet
<1>2. CASE CallInit
  BY <1>2 DEF CallInit
<1>3. CASE CallGet
  BY <1>3 DEF CallGet
<1>4. CASE Unlock
  BY <1>4 DEF Unlock
<1>5. CASE SetInit
  BY <1>5 DEF SetInit
<1>6. CASE WaitInitf
  BY <1>6 DEF WaitInitf
<1>7. CASE WriteTR
  BY <1>7 DEF WriteTR, WriteCalendar, Registers, CallInPhase, Open, Writing
<1>8. CASE WriteDR
  BY <1>8 DEF WriteDR, WriteCalendar, Registers, CallInPhase, Open, Writing
<1>9. CASE ClearInit
  BY <1>9 DEF ClearInit
<1>10. CASE Lock
  BY <1>10 DEF Lock
<1>11. CASE ClearRsf
  BY <1>11 DEF ClearRsf
<1>12. CASE WaitRsf
  BY <1>12 DEF WaitRsf, AfterSync
<1>13. CASE ReadField
  BY <1>13 DEF ReadField, CallInPhase, Registers
<1>14. CASE Log
  BY <1>14 DEF Log
<1>15. CASE Tick
  BY <1>15 DEF Tick
<1>16. CASE EnterInitMode
  BY <1>16 DEF EnterInitMode
<1>17. CASE LeaveInitMode
  BY <1>17 DEF LeaveInitMode
<1>18. CASE Copy
  BY <1>18 DEF Copy
<1>19. CASE Reset
  BY <1>19 DEF Reset
<1>20. CASE UNCHANGED vars
  BY <1>20 DEF vars
<1> QED
  BY <1>1, <1>2, <1>3, <1>4, <1>5, <1>6, <1>7, <1>8, <1>9, <1>10, <1>11,
     <1>12, <1>13, <1>14, <1>15, <1>16, <1>17, <1>18, <1>19, <1>20
     DEF Next, Call, Step, Hardware

\* A minute read after the hour, and a second after the minute, are not ahead.
LEMMA HourIsSlow ==
  ASSUME NEW h \in 0 .. MaxCal, NEW n \in 0 .. MaxCal, h <= n
  PROVE  (h \div Square) * Base + ((n \div Base) % Base) <= n \div Base
<1>0. h \in Nat /\ n \in Nat
  OBVIOUS
<1>1. h \div Square \in Nat /\ h \div Square <= n \div Square /\ n \div Base \in Nat
  BY <1>0, SpanType, DivMod, DivMonotonic
<1>2. (n \div Base) \div Base = n \div Square
  BY <1>0, SpanType, DivDiv, Zenon DEF Square
<1> QED
  BY <1>1, <1>2, SpanType, SlowFirst

\* Hour and minute read earlier, with the seconds of now, are not ahead.
LEMMA MinuteIsSlow ==
  ASSUME NEW m \in 0 .. Base - 1, NEW h \in 0 .. MaxCal, NEW n \in 0 .. MaxCal,
         (h \div Square) * Base + m <= n \div Base
  PROVE  ((h \div Square) * Base + m) * Base + (n % Base) <= n
<1>0. h \in Nat /\ n \in Nat
  OBVIOUS
<1>1. h \div Square \in Nat
  BY <1>0, SpanType, DivMod
<1>2. (h \div Square) * Base + m \in Nat
  BY <1>1, SpanType
<1> QED
  BY <1>0, <1>2, SpanType, SlowFirst

\* get_datetime_rtc reads the slower field first.
LEMMA ReadStep ==
  ASSUME IInv, ReadField
  PROVE  Reading'
<1> DEFINE H == hourAt \div Square
           f == ReadOrder[field]
<1>a. /\ field \in 1 .. 7 /\ pc = "read" /\ op = "get" /\ copied \in 0 .. MaxCal
      /\ result \in [Fields -> 0 .. Base - 1] /\ hourAt \in 0 .. MaxCal
  BY DEF ReadField, At, CallInPhase, IInv, TypeOK
<1>b. /\ copied' = copied /\ dr' = dr
      /\ result' = [result EXCEPT ![f] = FieldOf(f, TimePart(copied), dr)]
      /\ hourAt' = IF field = 1 THEN copied ELSE hourAt
      /\ f \in Fields /\ (drLocked' <=> field \in 1 .. 3)
      /\ IF field = 7 THEN pc' = "log" /\ field' = 1 ELSE pc' = "read" /\ field' = field + 1
  BY <1>a, OneRead DEF ReadField
<1>c. drLocked <=> field \in 2 .. 4
  BY <1>a DEF Registers, IInv
<1>d. \A n \in 0 .. 4 : Past(n)' <=> field >= n
  BY <1>a, <1>b DEF Past
<1>e. \A n \in 0 .. 4 : Past(n) <=> field > n
  BY <1>a DEF Past
<1>f. Fields = {"hour", "minute", "seconds", "day", "month", "week", "year"}
  BY DEF Fields, ReadOrder
<1>1. CASE field = 1
  <2>1. result'["hour"] = TimePart(copied) \div Square
    BY <1>a, <1>b, <1>1, TimeFieldsOf DEF ReadOrder
  <2>2. dr = DatePart(copied)
    BY <1>1, <1>a, <1>c, <1>e DEF Reading, IInv
  <2> QED
    BY <2>1, <2>2, <1>1, <1>a, <1>b, <1>d DEF Reading
<1>2. CASE field = 2
  <2>1. result'["minute"] = (copied \div Base) % Base /\ result'["hour"] = result["hour"]
    BY <1>a, <1>b, <1>f, <1>2, TimeFieldsOf DEF ReadOrder
  <2>2. hourAt <= copied /\ dr = DatePart(hourAt) /\ result["hour"] = TimePart(hourAt) \div Square
    BY <1>2, <1>e DEF Reading, IInv
  <2>3. H * Base + result'["minute"] <= copied \div Base
    BY <2>1, <2>2, <1>a, HourIsSlow
  <2>4. Past(1)' /\ Past(2)' /\ ~Past(3)' /\ ~Past(4)' /\ hourAt' = hourAt /\
        dr' = dr /\ copied' = copied /\ drLocked'
    BY <1>2, <1>b, <1>d
  <2> QED
    BY <2>1, <2>2, <2>3, <2>4 DEF Reading
<1>3. CASE field = 3
  <2>1. /\ result'["seconds"] = copied % Base /\ result'["hour"] = result["hour"]
        /\ result'["minute"] = result["minute"]
    BY <1>a, <1>b, <1>f, <1>3, TimeFieldsOf DEF ReadOrder
  <2>2. /\ hourAt <= copied /\ dr = DatePart(hourAt) /\ result["hour"] = TimePart(hourAt) \div Square
        /\ H * Base + result["minute"] <= copied \div Base
    BY <1>3, <1>e DEF Reading, IInv
  <2>3. (H * Base + result'["minute"]) * Base + result'["seconds"] <= copied
    BY <2>1, <2>2, <1>a, <1>f, MinuteIsSlow
  <2>4. Past(1)' /\ Past(2)' /\ Past(3)' /\ ~Past(4)' /\ hourAt' = hourAt /\
        dr' = dr /\ copied' = copied /\ drLocked'
    BY <1>3, <1>b, <1>d
  <2> QED
    BY <2>1, <2>2, <2>3, <2>4 DEF Reading
<1>4. CASE field \in 4 .. 7
  <2>1. /\ result'["hour"] = result["hour"] /\ result'["minute"] = result["minute"]
        /\ result'["seconds"] = result["seconds"]
        /\ result'["day"] = IF field = 4 THEN dr % Base ELSE result["day"]
    BY <1>a, <1>b, <1>f, <1>4 DEF ReadOrder, FieldOf
  <2>2. /\ hourAt <= copied /\ result["hour"] = TimePart(hourAt) \div Square
        /\ H * Base + result["minute"] <= copied \div Base
        /\ (H * Base + result["minute"]) * Base + result["seconds"] <= copied
        /\ field = 4 => dr = DatePart(hourAt)
        /\ field > 4 => result["day"] = DatePart(hourAt) % Base
    BY <1>4, <1>e DEF Reading, IInv
  <2> QED
    BY <2>1, <2>2, <1>4, <1>a, <1>b, <1>d DEF Reading
<1> QED
  BY <1>1, <1>2, <1>3, <1>4, <1>a

\* What get_datetime_rtc has read stays in step with TR and DR.
LEMMA StepReading == IInv /\ [Next]_vars => Reading'
<1> SUFFICES ASSUME IInv, [Next]_vars PROVE Reading'
  OBVIOUS
<1> USE DEF At, driverVars, hwVars, history
<1>0. /\ copied \in 0 .. MaxCal /\ cal \in 0 .. MaxCal /\ hourAt \in 0 .. MaxCal
      /\ field \in 1 .. 7 /\ result \in [Fields -> 0 .. Base - 1]
  BY DEF IInv, TypeOK
<1>k. ASSUME UNCHANGED <<result, copied, dr, hourAt, drLocked>>,
             \A n \in 1 .. 4 : Past(n)' <=> Past(n),
             initialized' \/ pc' # "idle" => initialized \/ pc # "idle"
      PROVE  Reading'
  BY <1>k DEF Reading, IInv
<1>1. ASSUME NEW s \in Setters, NEW n \in Targets, CallSet(s, n) PROVE Reading'
  BY <1>1, <1>k DEF CallSet, Past
<1>2. CASE CallInit
  BY <1>2, ZeroType DEF CallInit, Reading, Past
<1>3. CASE CallGet
  <2>1. field' = 1 /\ pc' # "log" /\ pc = "idle"
    BY <1>3 DEF CallGet
  <2> QED
    BY <1>3, <1>k, <2>1 DEF CallGet, Past
<1>4. CASE Unlock \/ SetInit \/ WaitInitf \/ ClearInit \/ Lock \/ ClearRsf
  BY <1>4, <1>k DEF Unlock, SetInit, WaitInitf, ClearInit, Lock, ClearRsf, Past
<1>5. CASE WriteTR
  BY <1>5, <1>k DEF WriteTR, WriteCalendar, Past
<1>6. CASE WriteDR
  BY <1>6, <1>k DEF WriteDR, WriteCalendar, Past
<1>7. CASE WaitRsf
  <2>1. pc' # "log" /\ pc = "waitRsf" /\ field = 1 /\ field' = 1
    BY <1>7 DEF WaitRsf, AfterSync, IInv, CallInPhase
  <2> QED
    BY <1>7, <1>k, <2>1 DEF WaitRsf, AfterSync, Past
<1>8. CASE ReadField
  BY <1>8, ReadStep
<1>9. CASE Log
  BY <1>9 DEF Log, Reading, Past
<1>10. CASE Tick \/ EnterInitMode \/ LeaveInitMode
  BY <1>10, <1>k DEF Tick, EnterInitMode, LeaveInitMode, Past
<1>11. CASE Copy
  <2>1. /\ copied' = cal /\ hourAt' = hourAt /\ result' = result
        /\ dr' = IF drLocked THEN dr ELSE DatePart(cal)
        /\ drLocked' = drLocked
        /\ \A n \in 1 .. 4 : Past(n)' <=> Past(n)
    BY <1>11 DEF Copy, Past
  <2>2. Past(1) => copied <= cal
    BY DEF Past, IInv, CallInPhase, Registers, Always
  <2>3. Past(1) /\ ~Past(4) => drLocked
    BY <1>0 DEF Past, IInv, CallInPhase, Registers
  <2>4. Past(2) \/ Past(3) \/ Past(4) => Past(1)
    BY <1>0 DEF Past
  <2>5. Past(1) => copied \div Base <= cal \div Base
    <3>1. copied \in Nat /\ cal \in Nat
      BY <1>0
    <3> QED
      BY <2>2, <3>1, SpanType, DivMonotonic
  <2> DEFINE X == (hourAt \div Square) * Base + result["minute"]
             Y == X * Base + result["seconds"]
  <2>6. X \in Int /\ Y \in Int /\ copied \div Base \in Int /\ cal \div Base \in Int
    <3>1. result["minute"] \in Nat /\ result["seconds"] \in Nat /\ Base \in Nat
      BY <1>0, SpanType DEF Fields, ReadOrder
    <3>2. hourAt \in Nat /\ copied \in Nat /\ cal \in Nat
      BY <1>0
    <3>3. hourAt \div Square \in Nat /\ copied \div Base \in Nat /\ cal \div Base \in Nat
      BY <3>2, SpanType, DivMod
    <3>4. X \in Int
      BY <3>1, <3>3
    <3> QED
      BY <3>1, <3>3, <3>4
  <2>7. (Past(2) => X <= copied \div Base) /\ (Past(3) => Y <= copied)
    BY DEF Reading, IInv
  <2> HIDE DEF X, Y
  <2>8. (Past(2) => X <= cal \div Base) /\ (Past(3) => Y <= cal) /\ (Past(1) => hourAt <= cal)
    BY <2>2, <2>4, <2>5, <2>6, <2>7, <1>0 DEF Reading, IInv
  <2> QED
    BY <2>1, <2>3, <2>8 DEF Reading, IInv, X, Y
<1>12. CASE Reset
  BY <1>12 DEF Reset, Reading, Past
<1>13. CASE UNCHANGED vars
  BY <1>13, <1>k DEF vars, Past
<1> QED
  BY <1>1, <1>2, <1>3, <1>4, <1>5, <1>6, <1>7, <1>8, <1>9, <1>10, <1>11,
     <1>12, <1>13 DEF Next, Call, Step, Hardware

-----------------------------------------------------------------------------
\* IInv is an invariant of the RTC and its driver.
THEOREM Invariance == Spec => []IInv
<1>1. IInv /\ [Next]_vars => IInv'
  BY StepTypeOK, StepCallInPhase, StepRegisters, StepAlways, StepReading DEF IInv
<1> QED
  BY InitIInv, <1>1, PTL DEF Spec

\* The driver and the peripheral are type correct: no sequence of calls, carries
\* and resets takes the calendar or a field out of its range.
THEOREM TypeCorrect == Spec => []TypeOK
<1>1. IInv => TypeOK
  BY DEF IInv
<1> QED
  BY Invariance, <1>1, PTL

\* Between calls the calendar runs, the registers are protected and DR is free.
THEOREM CallsLeaveItRunning == Spec => []IdleMeansRunning
<1>1. IInv => IdleMeansRunning
  BY DEF IInv, TypeOK, IdleMeansRunning, Idle, CallInPhase, Registers, Open, Writing
<1> QED
  BY Invariance, <1>1, PTL

\* A setter that has returned has taken effect, and the next read sees it.
THEOREM SettersAreVisible == Spec => []SetIsVisible
<1>1. IInv => SetIsVisible
  BY DEF IInv, TypeOK, SetIsVisible, Idle, CallInPhase, Registers, Always
<1> QED
  BY Invariance, <1>1, PTL

\* The day that is returned is that of the instant of the hour.
THEOREM DayAndHourAreOfOneCopy == Spec => []DayMatchesHour
<1>1. IInv => DayMatchesHour
  BY DEF IInv, DayMatchesHour, Reading, Past
<1> QED
  BY Invariance, <1>1, PTL

\* The hour and the day in front of it make the hours of the month.
LEMMA HoursOfMonth ==
  ASSUME NEW n \in 0 .. MaxCal
  PROVE  n \div Square = (DatePart(n) \div Base) * Square
                           + ((DatePart(n) % Base) * Base + (TimePart(n) \div Square))
<1>0. n \in Nat
  OBVIOUS
<1>1. PICK d \in Nat, t \in 0 .. TimeSpan - 1 :
        n = d * TimeSpan + t /\ d = DatePart(n) /\ t = TimePart(n)
  BY <1>0, SpanType, DivMod DEF DatePart, TimePart
<1>2. PICK h \in Nat, low \in 0 .. Square - 1 : t = h * Square + low /\ h = t \div Square
  BY SpanType, DivMod
<1>3. PICK m \in Nat, day \in 0 .. Base - 1 : d = m * Base + day /\ m = d \div Base /\ day = d % Base
  BY SpanType, DivMod
<1>4. n = (d * Base + h) * Square + low /\ d * Base + h \in Nat
  <2>1. n = d * (Base * Square) + (h * Square + low)
    BY <1>1, <1>2, SpanType
  <2>2. \A b \in Nat, q \in Nat : d * (b * q) + (h * q + low) = (d * b + h) * q + low
    OBVIOUS
  <2>3. Base \in Nat /\ Square \in Nat
    BY SpanType
  <2> QED
    BY <2>1, <2>2, <2>3
<1>5. n \div Square = d * Base + h
  BY <1>4, SpanType, DivUnique
<1>6. d * Base + h = m * Square + (day * Base + h)
  <2>1. \A b \in Nat : (m * b + day) * b + h = m * (b * b) + (day * b + h)
    OBVIOUS
  <2> QED
    BY <1>3, <2>1, SpanType DEF Square
<1> QED
  BY <1>1, <1>2, <1>3, <1>5, <1>6

\* Within a month what is returned is not ahead of the calendar.
THEOREM ReadsAreNeverAhead == Spec => []NeverAhead
<1>1. ASSUME IInv, pc = "log", DatePart(hourAt) \div Base = DatePart(cal) \div Base
      PROVE  ((result["day"] * Base + result["hour"]) * Base + result["minute"]) * Base
               + result["seconds"] <= cal % (TimeSpan * Base)
  <2>1. hourAt \in 0 .. MaxCal /\ cal \in 0 .. MaxCal /\ copied \in 0 .. MaxCal /\
        result \in [Fields -> 0 .. Base - 1]
    BY <1>1 DEF IInv, TypeOK
  <2>2. PICK day \in Nat, hour \in Nat, minute \in Nat, second \in Nat :
          /\ day = result["day"] /\ hour = result["hour"]
          /\ minute = result["minute"] /\ second = result["seconds"]
    BY <2>1 DEF Fields, ReadOrder
  <2>3. /\ day = DatePart(hourAt) % Base /\ hour = TimePart(hourAt) \div Square
        /\ ((hourAt \div Square) * Base + minute) * Base + second <= copied
    BY <1>1, <2>2 DEF IInv, Reading, Past
  <2>4. copied <= cal
    BY <1>1 DEF IInv, CallInPhase, Registers, Always
  <2>5. PICK m \in Nat, rest \in Nat :
          /\ cal = m * (TimeSpan * Base) + rest
          /\ m = cal \div (TimeSpan * Base) /\ rest = cal % (TimeSpan * Base)
    <3>1. cal \in Nat /\ TimeSpan * Base \in Nat \ {0}
      BY <2>1, SpanType
    <3> QED
      BY <3>1, DivMod, Zenon
  <2>6. m = DatePart(hourAt) \div Base
    <3>1. cal \in Nat
      BY <2>1
    <3> QED
      BY <1>1, <2>5, <3>1, SpanType, DivDiv DEF DatePart
  <2>7. hourAt \div Square = m * Square + (day * Base + hour)
    BY <2>1, <2>3, <2>6, HoursOfMonth
  <2>8. ((m * Square + (day * Base + hour)) * Base + minute) * Base + second
          = m * (TimeSpan * Base) + (((day * Base + hour) * Base + minute) * Base + second)
    BY SpanType DEF Square, TimeSpan
  <2>9. m * (TimeSpan * Base) \in Nat /\ ((day * Base + hour) * Base + minute) * Base + second \in Nat
    BY SpanType
  <2>10. m * (TimeSpan * Base) + (((day * Base + hour) * Base + minute) * Base + second)
          <= m * (TimeSpan * Base) + rest
    BY <2>1, <2>3, <2>4, <2>5, <2>7, <2>8, <2>9
  <2> QED
    BY <2>2, <2>5, <2>9, <2>10
<1>2. IInv => NeverAhead
  BY <1>1 DEF NeverAhead
<1> QED
  BY Invariance, <1>2, PTL

=============================================================================
