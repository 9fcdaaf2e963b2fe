---------------------------- MODULE SystemProofs ----------------------------
(***************************************************************************)
(* Proofs about System: the firmware implements Buttons and drives the     *)
(* peripheral of Rtc, whence everything that is proved of those two holds  *)
(* of it; and a line of the log shows the updates made before it.          *)
(***************************************************************************)
EXTENDS System, DivModLemmas, TLAPS

\* The proofs about the two parts, for their instances in System.
BP == INSTANCE ButtonsProofs WITH pc <- main
RP == INSTANCE RtcProofs

-----------------------------------------------------------------------------
(* The buttons.                                                            *)

\* Every step of the firmware is a step of Buttons, of which a call of RTC.c is
\* the last access, or leaves the buttons alone.
THEOREM ImplementsButtonsSafety == Spec => B!Spec
<1>1. Init => B!Init
  BY DEF Init
<1>2. [Next]_vars => [B!Next]_(B!vars)
  <2> SUFFICES ASSUME [Next]_vars PROVE B!Next \/ UNCHANGED B!vars
    OBVIOUS
  <2> USE DEF B!vars, buttons, B!Button, NButtons
  <2>1. ASSUME NEW b \in 1 .. NButtons, Press(b) PROVE B!Next
    BY <2>1 DEF Press, B!Next
  <2>2. CASE Handler
    BY <2>2 DEF Handler, B!Next
  <2>3. CASE InitRtc
    BY <2>3 DEF InitRtc
  <2>4. CASE BeginRead
    BY <2>4 DEF BeginRead
  <2>5. CASE EndRead
    BY <2>5 DEF EndRead, B!Next, B!MainStep
  <2>6. CASE BeginUpdate
    BY <2>6 DEF BeginUpdate
  <2>7. CASE InRtc
    BY <2>7 DEF InRtc, B!Next, B!MainStep
  <2>8. CASE InMain
    BY <2>8 DEF InMain, B!Next, B!MainStep
  <2>9. CASE Peripheral
    BY <2>9 DEF Peripheral
  <2>10. CASE UNCHANGED vars
    BY <2>10 DEF vars
  <2> QED
    BY <2>1, <2>2, <2>3, <2>4, <2>5, <2>6, <2>7, <2>8, <2>9, <2>10 DEF Next, Program
<1> QED
  BY <1>1, <1>2, PTL DEF Spec, B!Spec

\* The two instances of Buttons are the same specification.
LEMMA SameButtons == B!Spec => BP!Spec
<1>1. /\ B!Init => BP!Init
      /\ [B!Next]_(B!vars) => [BP!Next]_(BP!vars)
  BY DEF
      B!Init, BP!Init, B!Next, BP!Next, B!vars, BP!vars, B!Button, BP!Button,
      B!Press, BP!Press, B!IsrStep, BP!IsrStep, B!MainStep, BP!MainStep,
      B!mainVars, BP!mainVars, B!isrVars, BP!isrVars, B!EnterIsr, BP!EnterIsr,
      B!CheckPending, BP!CheckPending, B!AckRead, BP!AckRead, B!AckWrite,
      BP!AckWrite, B!CallBack, BP!CallBack, B!ArmButton, BP!ArmButton,
      B!RegisterCallback, BP!RegisterCallback, B!ReadClock, BP!ReadClock,
      B!CheckFlag, BP!CheckFlag, B!ClearFlag, BP!ClearFlag, B!Update,
      BP!Update, B!Blink, BP!Blink, B!Delay, BP!Delay, B!history, BP!history,
      B!NextPin, BP!NextPin, B!NextButton, BP!NextButton
<1> QED
  BY <1>1, PTL DEF B!Spec, BP!Spec

\* The two instances of Rtc are the same specification.
LEMMA SameRtc == R!Spec => RP!Spec
<1>1. /\ R!Init => RP!Init
      /\ [R!Next]_(R!vars) => [RP!Next]_(RP!vars)
  BY DEF
      R!Init, RP!Init, R!Next, RP!Next, R!vars, RP!vars, R!Nothing,
      RP!Nothing, R!Call, RP!Call, R!Step, RP!Step, R!Hardware, RP!Hardware,
      R!Reset, RP!Reset, R!Fields, RP!Fields, R!CallInit, RP!CallInit,
      R!Setters, RP!Setters, R!CallSet, RP!CallSet, R!CallGet, RP!CallGet,
      R!Unlock, RP!Unlock, R!SetInit, RP!SetInit, R!WaitInitf, RP!WaitInitf,
      R!WriteTR, RP!WriteTR, R!WriteDR, RP!WriteDR, R!ClearInit, RP!ClearInit,
      R!Lock, RP!Lock, R!ClearRsf, RP!ClearRsf, R!WaitRsf, RP!WaitRsf,
      R!ReadField, RP!ReadField, R!Log, RP!Log, R!Tick, RP!Tick,
      R!EnterInitMode, RP!EnterInitMode, R!LeaveInitMode, RP!LeaveInitMode,
      R!Copy, RP!Copy, R!hwVars, RP!hwVars, R!ReadOrder, RP!ReadOrder,
      R!history, RP!history, R!At, RP!At, R!DatePart, RP!DatePart, R!TimeSpan,
      RP!TimeSpan, R!TimePart, RP!TimePart, R!WriteCalendar, RP!WriteCalendar,
      R!AfterSync, RP!AfterSync, R!FieldOf, RP!FieldOf, R!TimeFields,
      RP!TimeFields, R!MaxCal, RP!MaxCal, R!driverVars, RP!driverVars
<1> QED
  BY <1>1, PTL DEF R!Spec, RP!Spec

\* What ButtonsProofs assumes of its constants.
LEMMA ButtonsAssumptions == BP!NButtonsAssumption /\ BP!MaxPressesAssumption
BY BoundsAssumption DEF NButtons, BP!NButtonsAssumption, BP!MaxPressesAssumption

\* The inductive invariant of Buttons holds in the firmware.
LEMMA ButtonsInvariance == Spec => []BP!IInv
<1>1. BP!Spec => []BP!IInv
  BY ButtonsAssumptions, BP!Invariance
     DEF BP!NButtonsAssumption, BP!MaxPressesAssumption
<1> QED
  BY <1>1, ImplementsButtonsSafety, SameButtons, PTL

\* In the firmware too, where a setter takes many accesses and the handler
\* preempts it between any two, a press is lost only if two lines are pending at
\* once, one press never makes two updates, and a flag is served in the next pass.
THEOREM ButtonsKeepTheirPromises ==
  Spec => [](B!NoPressLost /\ B!UpdatesJustified /\ B!ServedByNextPass)
<1>1. BP!IInv => B!NoPressLost /\ B!UpdatesJustified /\ B!ServedByNextPass
  BY DEF BP!IInv, BP!NoPressLost, BP!UpdatesJustified, BP!ServedByNextPass,
         BP!EveryPressRepresented, BP!Represented, BP!OnTheWay, BP!Waiting, BP!Button,
         B!NoPressLost, B!UpdatesJustified, B!ServedByNextPass,
         B!EveryPressRepresented, B!Represented, B!OnTheWay, B!Waiting, B!Button
<1> QED
  BY <1>1, ButtonsInvariance, PTL

\* The firmware implements the event register: what the environment sees of the
\* buttons and of their updates is what EventRegister allows.
THEOREM ImplementsEventRegister == Spec => BP!Register!Spec
<1>1. BP!Spec => BP!Register!Spec
  BY ButtonsAssumptions, BP!ImplementsEventRegister
     DEF BP!NButtonsAssumption, BP!MaxPressesAssumption
<1> QED
  BY <1>1, ImplementsButtonsSafety, SameButtons, PTL

-----------------------------------------------------------------------------
(* The RTC.                                                                *)

\* process_button_events looks at the three buttons.
LEMMA ButtonInRange == BP!IInv => k \in 1 .. 3
BY DEF BP!IInv, BP!TypeOK, BP!Button, NButtons

\* The super-loop makes calls that Rtc allows, and waits for each to return: every
\* step of the firmware is a step of Rtc or leaves the RTC alone.
THEOREM DrivesRtc == Spec => R!Spec
<1>1. Init => R!Init
  BY DEF Init
<1>2. ASSUME k \in 1 .. 3, [Next]_vars PROVE [R!Next]_(R!vars)
  <2> SUFFICES R!Next \/ UNCHANGED R!vars
    OBVIOUS
  <2> USE DEF R!vars, rtc
  <2>1. ASSUME NEW b \in 1 .. NButtons, Press(b) PROVE UNCHANGED R!vars
    BY <2>1 DEF Press
  <2>2. CASE Handler
    BY <2>2 DEF Handler
  <2>3. CASE InitRtc
    BY <2>3 DEF InitRtc, R!Next, R!Call
  <2>4. CASE BeginRead
    BY <2>4 DEF BeginRead, R!Next, R!Call
  <2>5. CASE EndRead
    BY <2>5 DEF EndRead, R!Next, R!Step
  <2>6. CASE BeginUpdate
    <3>1. Setter[k] \in R!Setters /\ Written(k) \in Targets
      BY <1>2 DEF Setter, R!Setters, Targets, NButtons
    <3> QED
      BY <2>6, <3>1 DEF BeginUpdate, R!Next, R!Call
  <2>7. CASE InRtc
    BY <2>7 DEF InRtc, R!Next
  <2>8. CASE InMain
    BY <2>8 DEF InMain
  <2>9. CASE Peripheral
    BY <2>9 DEF Peripheral, R!Next
  <2>10. CASE UNCHANGED vars
    BY <2>10 DEF vars
  <2> QED
    BY <1>2, <2>1, <2>2, <2>3, <2>4, <2>5, <2>6, <2>7, <2>8, <2>9, <2>10 DEF Next, Program
<1>3. k \in 1 .. 3 /\ [Next]_vars => [R!Next]_(R!vars)
  BY <1>2
<1> QED
  BY <1>1, <1>3, ButtonInRange, ButtonsInvariance, PTL DEF Spec, R!Spec

\* The years, and the rest of a calendar value.
LEMMA YearSpanType ==
  /\ YearSpan \in Nat \ {0} /\ Base * Base \in Nat \ {0} /\ R!TimeSpan \in Nat \ {0}
  /\ YearSpan = R!TimeSpan * (Base * Base) /\ R!MaxCal = YearSpan * Base - 1
<1>1. Base \in Nat \ {0}
  BY BaseAssumption
<1>2. \A x, y \in Nat \ {0} : x * y \in Nat \ {0}
  OBVIOUS
<1>3. Base * Base \in Nat \ {0} /\ R!TimeSpan \in Nat \ {0} /\ YearSpan \in Nat \ {0}
  BY <1>1, <1>2 DEF R!TimeSpan, YearSpan
<1> QED
  BY <1>1, <1>3 DEF R!TimeSpan, R!MaxCal, YearSpan

\* A setter writes its literal, or a calendar that is whole years away from it.
LEMMA WrittenType ==
  ASSUME NEW b \in 1 .. 3
  PROVE  /\ Written(b) \in 0 .. R!MaxCal /\ Wanted[b] \in 0 .. R!MaxCal
         /\ b # 3 => Written(b) = Wanted[b]
         /\ \E c \in Int : Written(b) = Wanted[b] + c * YearSpan
<1> DEFINE y == Wanted[b] \div YearSpan
           r == Wanted[b] % YearSpan
<1>1. Wanted[b] \in 0 .. YearSpan * Base - 1
  BY WantedAssumption, YearSpanType DEF NButtons
<1>2. Wanted[b] \in Nat /\ Base \in Nat \ {0}
  BY <1>1, BaseAssumption
<1>3. y \in 0 .. Base - 1 /\ YearAs[y] \in 0 .. Base - 1
  BY <1>1, <1>2, YearSpanType, DivBound, YearAsAssumption
<1>4. r \in 0 .. YearSpan - 1 /\ Wanted[b] = y * YearSpan + r
  BY <1>2, YearSpanType, DivMod
<1>5. b # 3 => Written(b) = Wanted[b]
  BY <1>2 DEF Written, Setter
<1>6. b = 3 => Written(b) = Wanted[b] + (YearAs[y] - y) * YearSpan
  BY DEF Written, Setter
<1> HIDE DEF y, r
<1>7. YearAs[y] * YearSpan + r \in 0 .. YearSpan * Base - 1
  BY <1>2, <1>3, <1>4, YearSpanType, Compose
<1>8. Wanted[b] + (YearAs[y] - y) * YearSpan = YearAs[y] * YearSpan + r
  BY <1>3, <1>4, YearSpanType
<1>9. Written(b) \in 0 .. YearSpan * Base - 1
  BY <1>1, <1>5, <1>6, <1>7, <1>8
<1>10. \E c \in Int : Written(b) = Wanted[b] + c * YearSpan
  <2>1. CASE b = 3
    BY <1>3, <1>6, <2>1
  <2>2. CASE b # 3
    <3>1. Wanted[b] = Wanted[b] + 0 * YearSpan
      BY <1>2, YearSpanType
    <3> QED
      BY <1>5, <2>2, <3>1
  <2> QED
    BY <2>1, <2>2
<1> QED
  BY <1>1, <1>5, <1>9, <1>10, YearSpanType

\* What RtcProofs assumes of its constants.
LEMMA RtcAssumptions ==
  /\ RP!BaseAssumption /\ RP!TargetsAssumption
  /\ RP!MaxTicksAssumption /\ RP!MaxResetsAssumption
<1>1. Targets \subseteq 0 .. R!MaxCal
  BY WrittenType DEF Targets, NButtons
<1> QED
  BY <1>1, BoundsAssumption, BaseAssumption
     DEF RP!BaseAssumption, RP!TargetsAssumption, RP!MaxTicksAssumption, RP!MaxResetsAssumption,
         RP!MaxCal, RP!TimeSpan, R!MaxCal, R!TimeSpan

\* The inductive invariant of Rtc holds in the firmware.
LEMMA RtcInvariance == Spec => []RP!IInv
<1>1. RP!Spec => []RP!IInv
  BY RtcAssumptions, RP!Invariance
     DEF RP!BaseAssumption, RP!TargetsAssumption, RP!MaxTicksAssumption, RP!MaxResetsAssumption
<1> QED
  BY <1>1, DrivesRtc, SameRtc, PTL

\* In the firmware too a call leaves the calendar running and the registers
\* protected, a setter has taken effect when it returns, the day and the hour that
\* are read belong together, and what is read is not ahead of the calendar.
THEOREM RtcKeepsItsPromises ==
  Spec => [](R!IdleMeansRunning /\ R!SetIsVisible /\ R!DayMatchesHour /\ R!NeverAhead)
<1>1. RP!IInv => R!IdleMeansRunning /\ R!SetIsVisible
  BY DEF RP!IInv, RP!TypeOK, RP!CallInPhase, RP!Registers, RP!Always, RP!Open, RP!Writing,
         R!IdleMeansRunning, R!SetIsVisible, R!Idle
<1>2. RP!Spec => [](RP!DayMatchesHour /\ RP!NeverAhead)
  <2>1. RP!Spec => []RP!DayMatchesHour
    BY RtcAssumptions, RP!DayAndHourAreOfOneCopy
       DEF RP!BaseAssumption, RP!TargetsAssumption, RP!MaxTicksAssumption, RP!MaxResetsAssumption
  <2>2. RP!Spec => []RP!NeverAhead
    BY RtcAssumptions, RP!ReadsAreNeverAhead
       DEF RP!BaseAssumption, RP!TargetsAssumption, RP!MaxTicksAssumption, RP!MaxResetsAssumption
  <2> QED
    BY <2>1, <2>2, PTL
<1>3. RP!DayMatchesHour /\ RP!NeverAhead => R!DayMatchesHour /\ R!NeverAhead
  BY DEF RP!DayMatchesHour, RP!NeverAhead, RP!DatePart, RP!TimeSpan,
         R!DayMatchesHour, R!NeverAhead, R!DatePart, R!TimeSpan
<1> QED
  BY <1>1, <1>2, <1>3, RtcInvariance, DrivesRtc, SameRtc, PTL

-----------------------------------------------------------------------------
(* From the button to the log.                                             *)

\* What ButtonsProofs and RtcProofs tell of the parts: the registers are open for a
\* write, and what get_datetime_rtc reads is newer than the last one.
PartFacts ==
  /\ k \in 1 .. 3
  /\ pc = "idle" <=> op = "none"
  /\ pc \in {"read", "log"} => op = "get"
  /\ op = "get" => pc \in {"clearRsf", "waitRsf", "read", "log"}
  /\ op = "init" => pc \notin {"writeTR", "writeDR"}
  /\ pc \in {"unlock", "setInit", "waitInitf", "clearInit", "lock"} =>
       op \in R!Setters \cup {"init"}
  /\ pc \in {"writeTR", "writeDR"} => op \in R!Setters /\ initf /\ wpr = "open"
  /\ op \in {"none", "get"} /\ (initialized \/ pc # "idle") => ~stale
  /\ pc = "idle" /\ initialized => dr = R!DatePart(copied)
  /\ pc # "read" => field = 1
  /\ field \in 1 .. 7 /\ stale \in BOOLEAN /\ initialized \in BOOLEAN
  /\ cal \in 0 .. R!MaxCal /\ copied \in 0 .. R!MaxCal /\ target \in 0 .. R!MaxCal
  /\ ticks \in Nat /\ result \in [R!Fields -> 0 .. Base - 1]

\* The call that the super-loop makes, and the update that it remembers.
CallOfLoop ==
  /\ last \in [button : 0 .. 3, found : Nat, at : Nat] /\ last.at <= ticks
  /\ ~initialized => pc = "idle" \/ op = "init"
  /\ op = "init" => ~initialized
  /\ op \in R!Setters => /\ main = "update" /\ last.button = k
                         /\ op = Setter[k] /\ target = Written(k)
  /\ pc = "writeTR" => op \in {"datetime", "time"}
  /\ pc = "writeDR" => op \in {"datetime", "date"}

\* The update has not reached the calendar, or only its time has.
ToCome == op \in R!Setters /\ \/ pc \in {"unlock", "setInit", "waitInitf", "writeTR"}
                              \/ pc = "writeDR" /\ op = "date"
Half   == pc = "writeDR" /\ op = "datetime"
Done   == (initialized \/ pc # "idle") /\ ~ToCome /\ ~Half

\* What button b does make of the calendar n.
Made(b, n) ==
  IF b = 3 THEN R!DatePart(Written(3)) * R!TimeSpan + R!TimePart(n) ELSE Effect(b, n)

\* What the last update makes of the calendar by second t, i seconds having
\* passed before it took effect.
Called(i, t) == Made(last.button, last.found + i) + (t - last.at - i)

\* The calendar is what the last update calls for, and so is its copy.
CalendarIsCalled ==
  /\ ToCome => cal = last.found + (ticks - last.at)
  /\ Half => R!TimePart(cal) = R!TimePart(target)
  /\ Done => \E i \in 0 .. ticks - last.at :
       /\ cal = Called(i, ticks)
       /\ ~stale => copied = cal \/ (copied = cal - 1 /\ i < ticks - last.at)
       /\ op = "get" => i <= since - last.at

\* The calendar as it was at second t of the running read.
CalAt(t) == cal - (ticks - t)

\* What a read has got so far, and what it will get next, is of some second since
\* it began.
ReadIsRecent ==
  op = "get" =>
    /\ since \in 0 .. ticks
    /\ \E t \in since .. ticks : copied = CalAt(t)
    /\ \E t \in since .. ticks : dr = R!DatePart(CalAt(t))
    /\ \A j \in 1 .. 7 : pc = "log" \/ (pc = "read" /\ j < field) =>
         \E t \in since .. ticks :
           result[R!ReadOrder[j]] =
             R!FieldOf(R!ReadOrder[j], R!TimePart(CalAt(t)), R!DatePart(CalAt(t)))

Shows == CallOfLoop /\ CalendarIsCalled /\ ReadIsRecent

\* The invariants of the parts, in one place.
LEMMA Parts == RP!IInv /\ BP!IInv => PartFacts
<1> SUFFICES ASSUME RP!IInv, BP!IInv PROVE PartFacts
  OBVIOUS
<1>1. k \in 1 .. 3
  BY ButtonInRange
<1>2. /\ R!MaxCal = RP!MaxCal /\ R!DatePart(copied) = RP!DatePart(copied)
      /\ R!Fields = RP!Fields /\ R!Setters = RP!Setters
  BY DEF R!MaxCal, RP!MaxCal, R!TimeSpan, RP!TimeSpan, R!DatePart, RP!DatePart,
         R!Fields, RP!Fields, R!ReadOrder, RP!ReadOrder, R!Setters, RP!Setters
<1>3. ticks \in Nat
  BY BoundsAssumption DEF RP!IInv, RP!TypeOK
<1>4. RP!TypeOK /\ RP!CallInPhase
  BY DEF RP!IInv
<1>5. /\ pc \in {"writeTR", "writeDR"} => initf /\ wpr = "open"
      /\ op \in {"none", "get"} /\ (initialized \/ pc # "idle") => ~stale
      /\ pc = "idle" /\ initialized => dr = RP!DatePart(copied)
  BY <1>4 DEF RP!IInv, RP!TypeOK, RP!CallInPhase, RP!Registers, RP!Reading, RP!Open,
         RP!Writing, RP!Past
<1> QED
  BY <1>1, <1>2, <1>3, <1>4, <1>5 DEF PartFacts, RP!TypeOK, RP!CallInPhase, RP!Setters

\* TR holds Base^3 values.
LEMMA SpanType == R!TimeSpan \in Nat \ {0}
BY YearSpanType

\* Date and time of a calendar value, and the value that they make again.
LEMMA PartType ==
  ASSUME NEW n \in Nat
  PROVE  /\ R!DatePart(n) \in Nat /\ R!TimePart(n) \in 0 .. R!TimeSpan - 1
         /\ R!DatePart(n) * R!TimeSpan + R!TimePart(n) = n
BY SpanType, DivMod DEF R!DatePart, R!TimePart

\* An effect is a number, which seconds can be added to.
LEMMA EffectType ==
  ASSUME NEW b \in 0 .. 3, NEW n \in Nat
  PROVE  Effect(b, n) \in Nat /\ Made(b, n) \in Nat
<1>1. \A c \in 1 .. 3 : Wanted[c] \in Nat /\ Written(c) \in Nat
  BY WrittenType
<1>2. \A d \in Nat, t \in 0 .. R!TimeSpan - 1 : d * R!TimeSpan + t \in Nat
  BY SpanType
<1>3. \A m \in Nat : R!DatePart(m) \in Nat /\ R!TimePart(m) \in 0 .. R!TimeSpan - 1
  BY PartType
<1> QED
  BY <1>1, <1>2, <1>3 DEF Effect, Made

\* Nothing is shown yet.
LEMMA InitShows == Init => Shows
BY DEF Init, R!Init, Shows, CallOfLoop, CalendarIsCalled, ReadIsRecent, ToCome, Half, Done,
       R!Setters

-----------------------------------------------------------------------------
\* The super-loop waits in "update" for the setter that it has called.
LEMMA StepCallOfLoop ==
  ASSUME PartFacts, PartFacts', CallOfLoop, [Next]_vars
  PROVE  CallOfLoop'
<1> USE DEF PartFacts, CallOfLoop, rtc, buttons, history, R!Setters, R!At
<1>1. ASSUME NEW b \in 1 .. NButtons, Press(b) PROVE CallOfLoop'
  BY <1>1 DEF Press, B!Press, B!mainVars
<1>2. CASE Handler
  BY <1>2 DEF Handler, B!IsrStep, B!EnterIsr, B!CheckPending, B!AckRead, B!AckWrite,
              B!CallBack, B!mainVars
<1>3. CASE InitRtc
  BY <1>3 DEF InitRtc, R!CallInit
<1>4. CASE BeginRead
  BY <1>4 DEF BeginRead, R!CallGet, R!hwVars, R!history
<1>5. CASE EndRead
  BY <1>5 DEF EndRead, R!Log
<1>6. CASE BeginUpdate
  BY <1>6 DEF BeginUpdate, R!CallSet, Setter, R!hwVars, R!history
<1>7. CASE InMain
  BY <1>7 DEF InMain, InCall
<1>8. CASE InRtc
  <2> DEFINE Kept == /\ UNCHANGED <<ticks, target, last>>
                     /\ op' \in {op, "none"} /\ pc # "idle"
                     /\ initialized' = initialized \/ op' = "none"
                     /\ pc' = "writeTR" => op \in {"datetime", "time"}
                     /\ pc' = "writeDR" => op \in {"datetime", "date"}
  <2> USE DEF R!hwVars, R!history
  <2>1. ASSUME R!Unlock PROVE Kept
    BY <1>8, <2>1 DEF InRtc, R!Unlock
  <2>2. ASSUME R!SetInit PROVE Kept
    BY <1>8, <2>2 DEF InRtc, R!SetInit
  <2>3. ASSUME R!WaitInitf PROVE Kept
    BY <1>8, <2>3 DEF InRtc, R!WaitInitf
  <2>4. ASSUME R!WriteTR PROVE Kept
    BY <1>8, <2>4 DEF InRtc, R!WriteTR, R!WriteCalendar
  <2>5. ASSUME R!WriteDR PROVE Kept
    BY <1>8, <2>5 DEF InRtc, R!WriteDR, R!WriteCalendar
  <2>6. ASSUME R!ClearInit PROVE Kept
    BY <1>8, <2>6 DEF InRtc, R!ClearInit
  <2>7. ASSUME R!Lock PROVE Kept
    BY <1>8, <2>7 DEF InRtc, R!Lock
  <2>8. ASSUME R!ClearRsf PROVE Kept
    BY <1>8, <2>8 DEF InRtc, R!ClearRsf
  <2>9. ASSUME R!WaitRsf PROVE Kept
    BY <1>8, <2>9 DEF InRtc, R!WaitRsf, R!AfterSync
  <2>10. ASSUME R!ReadField PROVE Kept
    BY <1>8, <2>10 DEF InRtc, R!ReadField
  <2>11. Kept
    BY <1>8, <2>1, <2>2, <2>3, <2>4, <2>5, <2>6, <2>7, <2>8, <2>9, <2>10
       DEF InRtc, R!Step, R!Log
  <2>12. (main' = main /\ k' = k) \/ op' = "none"
    BY <1>8 DEF InRtc
  <2> QED
    BY <2>11, <2>12
<1>9. CASE Peripheral
  BY <1>9 DEF Peripheral, R!Hardware, R!Tick, R!EnterInitMode, R!LeaveInitMode, R!Copy,
              R!driverVars, R!history
<1>10. CASE UNCHANGED vars
  BY <1>10 DEF vars
<1> QED
  BY <1>1, <1>2, <1>3, <1>4, <1>5, <1>6, <1>7, <1>8, <1>9, <1>10 DEF Next, Program

-----------------------------------------------------------------------------
(* The calendar and the update.                                            *)

\* What the update calls for moves with the seconds.
LEMMA CalledTick ==
  ASSUME PartFacts, CallOfLoop, NEW i \in Nat, NEW t \in Int
  PROVE  Called(i, t) \in Int /\ Called(i, t + 1) = Called(i, t) + 1
<1>1. last.button \in 0 .. 3 /\ last.found + i \in Nat /\ last.at \in Nat
  BY DEF CallOfLoop
<1>2. Made(last.button, last.found + i) \in Nat
  BY <1>1, EffectType
<1> QED
  BY <1>1, <1>2 DEF Called

\* A step that touches neither the calendar nor the update, nor begins or ends one.
LEMMA CalendarKept ==
  ASSUME CalendarIsCalled, UNCHANGED <<cal, copied, stale, ticks, last, since, target>>,
         ToCome' <=> ToCome, Half' <=> Half, Done' => Done, op' = "get" => op = "get"
  PROVE  CalendarIsCalled'
BY DEF CalendarIsCalled, Called

\* The setter has written TR, in initialisation mode.
LEMMA StepWriteTR ==
  ASSUME PartFacts, PartFacts', CallOfLoop, CalendarIsCalled, R!WriteTR, UNCHANGED <<last, since>>
  PROVE  CalendarIsCalled'
<1>1. /\ pc = "writeTR" /\ op \in {"datetime", "time"} /\ op' = op /\ ticks' = ticks
      /\ cal' = R!DatePart(cal) * R!TimeSpan + R!TimePart(target) /\ stale' = TRUE
      /\ pc' = IF op = "datetime" THEN "writeDR" ELSE "clearInit"
      /\ target' = target
  BY DEF R!WriteTR, R!WriteCalendar, R!At, PartFacts, CallOfLoop
<1>2. cal = last.found + (ticks - last.at) /\ target = Written(k) /\ last.button = k /\ op = Setter[k]
      /\ k \in 1 .. 3 /\ last.at \in Nat /\ last.at <= ticks /\ ticks \in Nat
  BY <1>1 DEF CalendarIsCalled, ToCome, CallOfLoop, PartFacts, R!Setters
<1>3. cal \in Nat /\ target \in Nat
  BY DEF PartFacts
<1>4. CASE op = "datetime"
  <2>1. R!DatePart(cal) \in Nat /\ R!TimePart(target) \in 0 .. R!TimeSpan - 1
    BY <1>3, PartType
  <2>2. R!TimePart(cal') = R!TimePart(target)
    BY <1>1, <2>1, SpanType, DivUnique DEF R!TimePart
  <2> QED
    BY <1>1, <1>4, <2>2 DEF CalendarIsCalled, ToCome, Half, Done
<1>5. CASE op = "time"
  <2>1. k = 2
    BY <1>2, <1>5 DEF Setter
  <2> DEFINE i == ticks - last.at
  <2>2. i \in 0 .. ticks - last.at /\ last.found + i = cal /\ ticks - last.at - i = 0
    BY <1>2
  <2>3. cal' = Made(last.button, last.found + i)
    BY <1>1, <1>2, <2>1, <2>2, WrittenType DEF Made, Effect
  <2>4. cal' \in Nat
    BY DEF PartFacts
  <2> HIDE DEF i
  <2>5. cal' = Called(i, ticks)
    BY <2>2, <2>3, <2>4 DEF Called
  <2> QED
    BY <1>1, <1>2, <1>5, <2>2, <2>5 DEF CalendarIsCalled, ToCome, Half, Called
<1> QED
  BY <1>1, <1>4, <1>5

\* The setter has written DR too.
LEMMA StepWriteDR ==
  ASSUME PartFacts, PartFacts', CallOfLoop, CalendarIsCalled, R!WriteDR, UNCHANGED <<last, since>>
  PROVE  CalendarIsCalled'
<1>1. /\ pc = "writeDR" /\ op \in {"datetime", "date"} /\ op' = op /\ ticks' = ticks
      /\ cal' = R!DatePart(target) * R!TimeSpan + R!TimePart(cal) /\ stale' = TRUE
      /\ pc' = "clearInit"
  BY DEF R!WriteDR, R!WriteCalendar, R!At, PartFacts, CallOfLoop
<1>2. /\ target = Written(k) /\ last.button = k /\ op = Setter[k] /\ k \in 1 .. 3
      /\ last.at \in Nat /\ last.at <= ticks /\ ticks \in Nat /\ last.found \in Nat
  BY <1>1 DEF CallOfLoop, PartFacts, R!Setters
<1>3. cal \in Nat /\ target \in Nat /\ cal' \in Nat
  BY DEF PartFacts
<1> DEFINE i == ticks - last.at
<1>4. i \in 0 .. ticks - last.at /\ ticks - last.at - i = 0 /\ i \in Nat
  BY <1>2
<1>5. cal' = Made(last.button, last.found + i)
  <2>1. CASE op = "datetime"
    <3>1. k = 1 /\ R!TimePart(cal) = R!TimePart(target)
      BY <1>1, <1>2, <2>1 DEF Setter, CalendarIsCalled, Half
    <3>2. cal' = target
      BY <1>1, <1>3, <3>1, PartType
    <3> QED
      BY <1>2, <3>1, <3>2, WrittenType DEF Made, Effect
  <2>2. CASE op = "date"
    <3>1. k = 3
      BY <1>2, <2>2 DEF Setter
    <3>2. last.found + i = cal
      BY <1>1, <1>2, <2>2 DEF CalendarIsCalled, ToCome, R!Setters
    <3> QED
      BY <1>1, <1>2, <3>1, <3>2 DEF Made
  <2> QED
    BY <1>1, <2>1, <2>2
<1> HIDE DEF i
<1>6. cal' = Called(i, ticks)
  BY <1>3, <1>4, <1>5 DEF Called
<1> QED
  BY <1>1, <1>2, <1>4, <1>6 DEF CalendarIsCalled, ToCome, Half, Called

\* A second passes, which it does in no call that writes at this instant.
LEMMA StepTick ==
  ASSUME PartFacts, PartFacts', CallOfLoop, CalendarIsCalled, R!Tick, UNCHANGED <<last, since>>
  PROVE  CalendarIsCalled'
<1>1. /\ cal' = cal + 1 /\ ticks' = ticks + 1 /\ copied' = copied /\ copied = cal /\ ~initf
      /\ UNCHANGED <<pc, op, target, initialized, stale>>
  BY DEF R!Tick, R!driverVars
<1>2. cal \in Nat /\ ticks \in Nat /\ last.at \in Nat /\ last.found \in Nat /\ last.at <= ticks
  BY DEF PartFacts, CallOfLoop
<1>3. ToCome' => cal' = last.found + (ticks' - last.at)
  BY <1>1, <1>2 DEF CalendarIsCalled, ToCome, R!Setters
<1>4. ~Half'
  BY <1>1 DEF Half, PartFacts
<1>5. ASSUME Done' PROVE (\E i \in 0 .. ticks - last.at :
       /\ cal = Called(i, ticks)
       /\ ~stale => copied = cal \/ (copied = cal - 1 /\ i < ticks - last.at)
       /\ op = "get" => i <= since - last.at)'
  <2>1. PICK i \in 0 .. ticks - last.at : cal = Called(i, ticks) /\ (op = "get" => i <= since - last.at)
    BY <1>1, <1>5 DEF CalendarIsCalled, Done, ToCome, Half, R!Setters
  <2>2. i \in Nat /\ i \in 0 .. ticks' - last.at /\ i < ticks' - last.at
    BY <1>1, <1>2
  <2>3. cal' = Called(i, ticks')
    BY <1>1, <1>2, <2>1, <2>2, CalledTick
  <2> QED
    BY <1>1, <1>2, <2>1, <2>2, <2>3 DEF Called
<1> QED
  BY <1>3, <1>4, <1>5 DEF CalendarIsCalled

\* A step keeps the calendar what the last update calls for.
LEMMA StepCalendar ==
  ASSUME PartFacts, PartFacts', CallOfLoop, CallOfLoop', CalendarIsCalled, [Next]_vars
  PROVE  CalendarIsCalled'
<1> USE DEF rtc, history, buttons, R!Setters, R!At
<1>1. ASSUME NEW b \in 1 .. NButtons, Press(b) PROVE CalendarIsCalled'
  BY <1>1, CalendarKept DEF Press, ToCome, Half, Done
<1>2. CASE Handler
  BY <1>2, CalendarKept DEF Handler, ToCome, Half, Done
<1>3. CASE InitRtc
  <2>1. /\ pc' = "unlock" /\ op' = "init" /\ cal' = 0 /\ copied' = 0 /\ ticks' = ticks
        /\ last' = [button |-> 0, found |-> 0, at |-> ticks]
    BY <1>3 DEF InitRtc, R!CallInit
  <2>2. ticks \in Nat
    BY DEF PartFacts
  <2>3. Made(0, 0 + 0) = 0
    BY DEF Made, Effect
  <2>4. cal' = Called(0, ticks)'
    BY <2>1, <2>2, <2>3 DEF Called
  <2>5. ~ToCome' /\ ~Half' /\ 0 \in 0 .. ticks' - last'.at
    BY <2>1, <2>2 DEF ToCome, Half
  <2> QED
    BY <2>1, <2>4, <2>5 DEF CalendarIsCalled
<1>4. CASE BeginRead
  <2>1. /\ pc = "idle" /\ initialized /\ op' = "get" /\ pc' # "writeDR" /\ op # "get"
        /\ UNCHANGED <<cal, copied, stale, ticks, last, initialized>>
        /\ since' = IF copied = cal \/ ticks = last.at THEN ticks ELSE ticks - 1
    BY <1>4 DEF BeginRead, R!CallGet, R!hwVars, R!history, PartFacts
  <2>2. Done /\ ~ToCome' /\ ~Half' /\ ~stale
    BY <2>1 DEF Done, ToCome, Half, PartFacts
  <2>3. PICK i \in 0 .. ticks - last.at :
          /\ cal = Called(i, ticks)
          /\ copied = cal \/ (copied = cal - 1 /\ i < ticks - last.at)
    BY <2>2 DEF CalendarIsCalled
  <2>4. ticks \in Nat /\ last.at \in Nat
    BY DEF PartFacts, CallOfLoop
  <2>5. i <= since' - last.at
    BY <2>1, <2>3, <2>4
  <2> QED
    BY <2>1, <2>2, <2>3, <2>5 DEF CalendarIsCalled, Called
<1>5. CASE EndRead
  <2>1. /\ pc = "log" /\ pc' = "idle" /\ op' = "none"
        /\ UNCHANGED <<cal, copied, stale, ticks, last, initialized>>
    BY <1>5 DEF EndRead, R!Log, R!hwVars
  <2>2. Done /\ ~ToCome' /\ ~Half'
    BY <2>1 DEF Done, ToCome, Half
  <2> QED
    BY <2>1, <2>2 DEF CalendarIsCalled, Called
<1>6. CASE BeginUpdate
  <2>1. /\ op' \in R!Setters /\ pc' = "unlock" /\ UNCHANGED <<cal, ticks>>
        /\ last' = [button |-> k, found |-> cal, at |-> ticks]
    BY <1>6 DEF BeginUpdate, R!CallSet, Setter, R!hwVars, R!history, PartFacts
  <2>2. cal \in Nat /\ ticks \in Nat
    BY DEF PartFacts
  <2> QED
    BY <2>1, <2>2 DEF CalendarIsCalled, ToCome, Half, Done
<1>7. CASE InMain
  BY <1>7, CalendarKept DEF InMain, ToCome, Half, Done
<1>8. CASE InRtc
  <2>0. UNCHANGED <<last, since>> /\ pc # "log"
    BY <1>8 DEF InRtc
  <2> USE DEF ToCome, Half, Done, PartFacts, R!hwVars, R!history
  <2>1. CASE R!Unlock
    BY <2>0, <2>1, CalendarKept DEF R!Unlock
  <2>2. CASE R!SetInit
    BY <2>0, <2>2, CalendarKept DEF R!SetInit
  <2>3. CASE R!WaitInitf
    BY <2>0, <2>3, CalendarKept DEF R!WaitInitf
  <2>4. CASE R!WriteTR
    BY <2>0, <2>4, StepWriteTR
  <2>5. CASE R!WriteDR
    BY <2>0, <2>5, StepWriteDR
  <2>6. CASE R!ClearInit
    BY <2>0, <2>6, CalendarKept DEF R!ClearInit
  <2>7. CASE R!Lock
    BY <2>0, <2>7, CalendarKept DEF R!Lock
  <2>8. CASE R!ClearRsf
    BY <2>0, <2>8, CalendarKept DEF R!ClearRsf
  <2>9. CASE R!WaitRsf
    BY <2>0, <2>9, CalendarKept DEF R!WaitRsf, R!AfterSync
  <2>10. CASE R!ReadField
    BY <2>0, <2>10, CalendarKept DEF R!ReadField
  <2> QED
    BY <1>8, <2>0, <2>1, <2>2, <2>3, <2>4, <2>5, <2>6, <2>7, <2>8, <2>9, <2>10
       DEF InRtc, R!Step, R!Log
<1>9. CASE Peripheral
  <2>0. UNCHANGED <<last, since>>
    BY <1>9 DEF Peripheral
  <2> USE DEF ToCome, Half, Done, R!driverVars, R!history
  <2>1. CASE R!Tick
    BY <2>0, <2>1, StepTick
  <2>2. CASE R!EnterInitMode
    BY <2>0, <2>2, CalendarKept DEF R!EnterInitMode
  <2>3. CASE R!LeaveInitMode
    BY <2>0, <2>3, CalendarKept DEF R!LeaveInitMode
  <2>4. CASE R!Copy
    BY <2>0, <2>4 DEF R!Copy, CalendarIsCalled, Called
  <2> QED
    BY <1>9, <2>1, <2>2, <2>3, <2>4 DEF Peripheral, R!Hardware
<1>10. CASE UNCHANGED vars
  BY <1>10, CalendarKept DEF vars, ToCome, Half, Done
<1> QED
  BY <1>1, <1>2, <1>3, <1>4, <1>5, <1>6, <1>7, <1>8, <1>9, <1>10 DEF Next, Program

-----------------------------------------------------------------------------
(* The read.                                                               *)

\* What a field of TR or DR shows depends on that register only.
LEMMA FieldOfOne ==
  ASSUME NEW f, NEW t, NEW d, NEW u, NEW e
  PROVE  /\ f \in R!TimeFields => R!FieldOf(f, t, d) = R!FieldOf(f, t, e)
         /\ f \notin R!TimeFields => R!FieldOf(f, t, d) = R!FieldOf(f, u, d)
BY DEF R!FieldOf, R!TimeFields

\* Seven different fields are read.
LEMMA ReadOrderIs ==
  /\ \A i, j \in 1 .. 7 : R!ReadOrder[i] = R!ReadOrder[j] => i = j
  /\ \A i \in 1 .. 7 : R!ReadOrder[i] \in R!Fields
BY DEF R!ReadOrder, R!Fields

\* A step that touches neither the calendar, nor its copy, nor what has been read.
LEMMA ReadKept ==
  ASSUME ReadIsRecent, UNCHANGED <<cal, copied, dr, ticks, since, result, field>>,
         op' = "get" => op = "get",
         pc' = "log" => pc = "log", pc' = "read" => pc = "read" \/ field = 1,
         field \in 1 .. 7
  PROVE  ReadIsRecent'
<1> SUFFICES ASSUME op' = "get"
             PROVE  (/\ since \in 0 .. ticks
                     /\ \E t \in since .. ticks : copied = CalAt(t)
                     /\ \E t \in since .. ticks : dr = R!DatePart(CalAt(t))
                     /\ \A j \in 1 .. 7 : pc = "log" \/ (pc = "read" /\ j < field) =>
                          \E t \in since .. ticks :
                            result[R!ReadOrder[j]] =
                              R!FieldOf(R!ReadOrder[j], R!TimePart(CalAt(t)), R!DatePart(CalAt(t))))'
  BY DEF ReadIsRecent
<1> QED
  BY DEF ReadIsRecent, CalAt

\* One more field, of the copy that TR shows or of the one that DR keeps.
LEMMA StepReadField ==
  ASSUME PartFacts, ReadIsRecent, R!ReadField, UNCHANGED since
  PROVE  ReadIsRecent'
<1> DEFINE f == R!ReadOrder[field]
           Recent(g, value) == \E t \in since .. ticks :
             value = R!FieldOf(g, R!TimePart(CalAt(t)), R!DatePart(CalAt(t)))
<1>1. /\ pc = "read" /\ op = "get" /\ op' = op
      /\ UNCHANGED <<cal, copied, dr, ticks>>
      /\ result' = [result EXCEPT ![f] = R!FieldOf(f, R!TimePart(copied), dr)]
      /\ \/ field < 7 /\ pc' = "read" /\ field' = field + 1
         \/ field = 7 /\ pc' = "log"
  BY DEF R!ReadField, R!At, PartFacts
<1>2. /\ since \in 0 .. ticks
      /\ \E t \in since .. ticks : copied = CalAt(t)
      /\ \E t \in since .. ticks : dr = R!DatePart(CalAt(t))
      /\ \A j \in 1 .. 7 : j < field => Recent(R!ReadOrder[j], result[R!ReadOrder[j]])
  BY <1>1 DEF ReadIsRecent
<1>3. Recent(f, R!FieldOf(f, R!TimePart(copied), dr))
  <2>1. CASE f \in R!TimeFields
    BY <1>2, <2>1, FieldOfOne
  <2>2. CASE f \notin R!TimeFields
    BY <1>2, <2>2, FieldOfOne
  <2> QED
    BY <2>1, <2>2
<1>4. ASSUME NEW j \in 1 .. 7, pc' = "log" \/ (pc' = "read" /\ j < field')
      PROVE  Recent(R!ReadOrder[j], result'[R!ReadOrder[j]])
  <2>1. j < field \/ j = field
    BY <1>1, <1>4 DEF PartFacts
  <2>2. CASE j = field
    BY <1>1, <1>3, <2>2, ReadOrderIs DEF PartFacts
  <2>3. CASE j < field
    <3>1. R!ReadOrder[j] # f
      BY <2>3, ReadOrderIs DEF PartFacts
    <3>2. result'[R!ReadOrder[j]] = result[R!ReadOrder[j]]
      BY <1>1, <3>1, ReadOrderIs DEF PartFacts
    <3> QED
      BY <1>2, <2>3, <3>2
  <2> QED
    BY <2>1, <2>2, <2>3
<1>5. since' = since /\ ticks' = ticks /\ \A t : CalAt(t)' = CalAt(t)
  BY <1>1 DEF CalAt
<1> QED
  BY <1>1, <1>2, <1>4, <1>5 DEF ReadIsRecent

\* A second passes, or the calendar is copied, while the fields are read.
LEMMA StepPeripheral ==
  ASSUME PartFacts, ReadIsRecent, R!Tick \/ R!Copy, UNCHANGED since
  PROVE  ReadIsRecent'
<1> SUFFICES ASSUME op' = "get"
             PROVE  (/\ since \in 0 .. ticks
                     /\ \E t \in since .. ticks : copied = CalAt(t)
                     /\ \E t \in since .. ticks : dr = R!DatePart(CalAt(t))
                     /\ \A j \in 1 .. 7 : pc = "log" \/ (pc = "read" /\ j < field) =>
                          \E t \in since .. ticks :
                            result[R!ReadOrder[j]] =
                              R!FieldOf(R!ReadOrder[j], R!TimePart(CalAt(t)), R!DatePart(CalAt(t))))'
  BY DEF ReadIsRecent
<1>0. cal \in Nat /\ ticks \in Nat
  BY DEF PartFacts
<1>1. /\ UNCHANGED <<pc, op, field, result, since>>
      /\ \/ cal' = cal + 1 /\ ticks' = ticks + 1
         \/ cal' = cal /\ ticks' = ticks
  BY DEF R!Tick, R!Copy, R!driverVars
<1>2. op = "get" /\ since \in 0 .. ticks /\ since' \in 0 .. ticks'
  BY <1>0, <1>1 DEF ReadIsRecent
<1>3. /\ \A t \in since .. ticks : CalAt(t)' = CalAt(t) /\ t \in since' .. ticks'
      /\ CalAt(ticks) = cal /\ ticks \in since .. ticks
  BY <1>0, <1>1, <1>2 DEF CalAt
<1>4. (copied' = copied \/ copied' = cal) /\ (dr' = dr \/ dr' = R!DatePart(cal))
  BY DEF R!Tick, R!Copy
<1> QED
  BY <1>1, <1>2, <1>3, <1>4 DEF ReadIsRecent

\* A step keeps what a read has got recent.
LEMMA StepRead ==
  ASSUME PartFacts, PartFacts', CallOfLoop, CalendarIsCalled, ReadIsRecent, [Next]_vars
  PROVE  ReadIsRecent'
<1> USE DEF rtc, history, buttons, R!Setters, R!At
<1>0. field \in 1 .. 7
  BY DEF PartFacts
<1>1. ASSUME NEW b \in 1 .. NButtons, Press(b) PROVE ReadIsRecent'
  BY <1>0, <1>1, ReadKept DEF Press
<1>2. CASE Handler
  BY <1>0, <1>2, ReadKept DEF Handler
<1>3. CASE InitRtc
  BY <1>3 DEF InitRtc, R!CallInit, ReadIsRecent
<1>4. CASE BeginRead
  <2>1. /\ pc = "idle" /\ op = "none" /\ initialized /\ pc' # "log" /\ field' = 1
        /\ UNCHANGED <<cal, copied, dr, stale, ticks, last, initialized>>
        /\ since' = IF copied = cal \/ ticks = last.at THEN ticks ELSE ticks - 1
    BY <1>4 DEF BeginRead, R!CallGet, R!hwVars, R!history, PartFacts
  <2>2. Done /\ ~stale /\ dr = R!DatePart(copied)
    BY <2>1 DEF Done, ToCome, Half, PartFacts
  <2>3. /\ copied = cal \/ (copied = cal - 1 /\ ticks # last.at)
        /\ cal \in Nat /\ ticks \in Nat /\ last.at \in Nat /\ last.at <= ticks
    BY <2>2 DEF CalendarIsCalled, PartFacts, CallOfLoop
  <2>4. /\ since' \in 0 .. ticks
        /\ since' \in since' .. ticks
        /\ copied = cal - (ticks - since')
    BY <2>1, <2>3
  <2> QED
    BY <2>1, <2>2, <2>4 DEF ReadIsRecent, CalAt
<1>5. CASE EndRead
  BY <1>5 DEF EndRead, R!Log, ReadIsRecent
<1>6. CASE BeginUpdate
  BY <1>6 DEF BeginUpdate, R!CallSet, Setter, ReadIsRecent, PartFacts
<1>7. CASE InMain
  BY <1>0, <1>7, ReadKept DEF InMain
<1>8. CASE InRtc
  <2>0. UNCHANGED since /\ pc # "log"
    BY <1>8 DEF InRtc
  <2>1. CASE R!ReadField
    BY <2>0, <2>1, StepReadField
  <2>2. CASE R!WriteTR \/ R!WriteDR
    BY <2>2 DEF R!WriteTR, R!WriteDR, R!WriteCalendar, ReadIsRecent, PartFacts
  <2>3. CASE R!Unlock \/ R!SetInit \/ R!WaitInitf \/ R!ClearInit \/ R!Lock
    BY <2>3 DEF R!Unlock, R!SetInit, R!WaitInitf, R!ClearInit, R!Lock, ReadIsRecent, PartFacts
  <2> USE DEF R!hwVars, R!history
  <2>4. CASE R!ClearRsf
    BY <1>0, <2>0, <2>4, ReadKept DEF R!ClearRsf
  <2>5. CASE R!WaitRsf
    BY <1>0, <2>0, <2>5, ReadKept DEF R!WaitRsf, R!AfterSync, PartFacts
  <2> QED
    BY <1>8, <2>0, <2>1, <2>2, <2>3, <2>4, <2>5 DEF InRtc, R!Step, R!Log
<1>9. CASE Peripheral
  <2>0. UNCHANGED since
    BY <1>9 DEF Peripheral
  <2>1. CASE R!Tick \/ R!Copy
    BY <2>0, <2>1, StepPeripheral
  <2>2. CASE R!EnterInitMode \/ R!LeaveInitMode
    BY <1>0, <2>0, <2>2, ReadKept DEF R!EnterInitMode, R!LeaveInitMode, R!driverVars, R!history
  <2> QED
    BY <1>9, <2>1, <2>2 DEF Peripheral, R!Hardware
<1>10. CASE UNCHANGED vars
  BY <1>0, <1>10, ReadKept DEF vars
<1> QED
  BY <1>1, <1>2, <1>3, <1>4, <1>5, <1>6, <1>7, <1>8, <1>9, <1>10 DEF Next, Program

-----------------------------------------------------------------------------
\* The calendar, the update and the read agree in every state.
THEOREM ShowsInvariance == Spec => []Shows
<1>1. PartFacts /\ PartFacts' /\ Shows /\ [Next]_vars => Shows'
  BY StepCallOfLoop, StepCalendar, StepRead DEF Shows
<1>2. Spec => []PartFacts
  BY Parts, RtcInvariance, ButtonsInvariance, PTL
<1> QED
  BY InitShows, <1>1, <1>2, PTL DEF Spec

\* Calendars that are whole years apart agree in every field but the year.
LEMMA WholeYears ==
  ASSUME NEW m \in Nat, NEW n \in Nat, NEW c \in Int, m = n + c * YearSpan
  PROVE  /\ R!TimePart(m) = R!TimePart(n)
         /\ \A f \in R!Fields \ {"year"} :
              R!FieldOf(f, R!TimePart(m), R!DatePart(m)) = R!FieldOf(f, R!TimePart(n), R!DatePart(n))
<1>0. /\ YearSpan \in Nat \ {0} /\ R!TimeSpan \in Nat \ {0} /\ Base * Base \in Nat \ {0}
      /\ Base \in Nat \ {0}
  BY YearSpanType, BaseAssumption
<1>1. (m % YearSpan) = (n % YearSpan)
  <2>1. PICK q \in Nat, r \in 0 .. YearSpan - 1 : n = q * YearSpan + r
    <3>1. /\ n \div YearSpan \in Nat /\ (n % YearSpan) \in 0 .. YearSpan - 1
          /\ n = (n \div YearSpan) * YearSpan + (n % YearSpan)
      BY <1>0, DivMod
    <3> QED
      BY <3>1
  <2>2. m = (q + c) * YearSpan + r
    BY <2>1, YearSpanType
  <2>3. q + c \in Nat
    <3>1. q + c <= -1 => (q + c) * YearSpan <= -YearSpan
      BY YearSpanType
    <3> QED
      BY <2>2, <3>1, YearSpanType
  <2>4. \A a \in Nat : (a * YearSpan + r) % YearSpan = r
    BY <1>0, DivUnique
  <2> QED
    BY <2>1, <2>2, <2>3, <2>4
<1>2. \A x \in Nat : /\ (x % YearSpan) % R!TimeSpan = R!TimePart(x)
                     /\ (x % YearSpan) \div R!TimeSpan = (R!DatePart(x) % (Base * Base))
  <2>1. \A s, u \in Nat \ {0}, x \in Nat :
          (x % (s * u)) % s = (x % s) /\ (x % (s * u)) \div s = ((x \div s) % u)
    BY LowDigits
  <2>2. YearSpan = R!TimeSpan * (Base * Base)
    BY YearSpanType
  <2> QED
    <3> DEFINE T == R!TimeSpan
               M == Base * Base
    <3>1. \A x \in Nat : (x % (T * M)) % T = (x % T) /\ (x % (T * M)) \div T = ((x \div T) % M)
      BY <1>0, <2>1
    <3> QED
      BY <2>2, <3>1 DEF R!TimePart, R!DatePart
<1>3. R!TimePart(m) = R!TimePart(n) /\ (R!DatePart(m) % (Base * Base)) = (R!DatePart(n) % (Base * Base))
  BY <1>1, <1>2
<1>4. \A d \in Nat : /\ (d % (Base * Base)) % Base = (d % Base)
                     /\ (d % (Base * Base)) \div Base = ((d \div Base) % Base)
  BY <1>0, LowDigits, Zenon
<1>5. R!DatePart(m) \in Nat /\ R!DatePart(n) \in Nat
  BY PartType
<1>6. /\ (R!DatePart(m) % Base) = (R!DatePart(n) % Base)
      /\ ((R!DatePart(m) \div Base) % Base) = ((R!DatePart(n) \div Base) % Base)
  BY <1>3, <1>4, <1>5
<1> QED
  BY <1>3, <1>6 DEF R!FieldOf

\* What an update makes of the calendar is whole years away from what its literal
\* calls for, and is just that if its setter is not set_date_rtc.
LEMMA MadeOrCalled ==
  ASSUME NEW b \in 0 .. 3, NEW n \in Nat
  PROVE  /\ b # 3 => Made(b, n) = Effect(b, n)
         /\ \E c \in Int : Made(b, n) = Effect(b, n) + c * YearSpan
<1>1. Made(b, n) \in Nat /\ Effect(b, n) \in Nat
  BY EffectType
<1>2. CASE b # 3
  <2>1. Made(b, n) = Effect(b, n)
    BY <1>2 DEF Made
  <2>2. Effect(b, n) = Effect(b, n) + 0 * YearSpan
    BY <1>1, YearSpanType
  <2> QED
    BY <2>1, <2>2
<1>3. CASE b = 3
  <2> DEFINE d == R!DatePart(Wanted[3]) * R!TimeSpan
             e == R!DatePart(Written(3)) * R!TimeSpan
  <2>1. PICK c \in Int : Written(3) = Wanted[3] + c * YearSpan
    BY WrittenType
  <2>2. Written(3) \in Nat /\ Wanted[3] \in Nat
    BY WrittenType
  <2>3. /\ d \in Nat /\ e \in Nat /\ R!TimePart(Wanted[3]) \in Nat
        /\ Wanted[3] = d + R!TimePart(Wanted[3]) /\ Written(3) = e + R!TimePart(Written(3))
    <3>1. \A x \in Nat : /\ R!DatePart(x) \in Nat /\ R!TimePart(x) \in Nat
                         /\ x = R!DatePart(x) * R!TimeSpan + R!TimePart(x)
      BY PartType
    <3>2. \A x \in Nat : x * R!TimeSpan \in Nat
      BY SpanType
    <3> QED
      BY <2>2, <3>1, <3>2, Zenon DEF d, e
  <2>4. R!TimePart(Written(3)) = R!TimePart(Wanted[3])
    BY <2>1, <2>2, WholeYears
  <2>5. Made(b, n) = e + R!TimePart(n) /\ Effect(b, n) = d + R!TimePart(n)
    BY <1>3 DEF Made, Effect
  <2>6. R!TimePart(n) \in Nat
    BY PartType
  <2> HIDE DEF d, e
  <2>7. e = d + c * YearSpan
    <3>1. \A x \in Int, t \in Nat : e + t = (d + t) + x => e = d + x
      BY <2>3
    <3>2. c * YearSpan \in Int
      BY <2>1, YearSpanType
    <3> QED
      BY <2>1, <2>3, <2>4, <3>1, <3>2, Zenon
  <2>8. Made(b, n) = Effect(b, n) + c * YearSpan
    <3>1. \A x \in Int, t \in Nat : (d + x) + t = (d + t) + x
      BY <2>3
    <3>2. c * YearSpan \in Int
      BY <2>1, YearSpanType
    <3> QED
      BY <2>5, <2>6, <2>7, <3>1, <3>2
  <2> QED
    BY <1>3, <2>8
<1> QED
  BY <1>2, <1>3

\* A line of the log shows, in the fields that it can, the calendar that the
\* literals of the updates made so far call for, at some second since its reading
\* began: for every base of the calendar, every values that the buttons set,
\* whatever set_date_rtc makes of the year, and however the handler, the seconds
\* and the copies fall between the accesses.
THEOREM LogShowsUpdates == Spec => []LineShowsUpdates
<1>1. ASSUME PartFacts, Shows, pc = "log", NEW f \in ShownFields
      PROVE  \E t \in since .. ticks : \E n \in CalledFor(t) :
               result[f] = R!FieldOf(f, R!TimePart(n), R!DatePart(n))
  <2>1. /\ op = "get" /\ Done /\ cal \in Nat /\ ticks \in Nat /\ last.at \in Nat
        /\ last.button \in 0 .. 3 /\ last.found \in Nat /\ since \in 0 .. ticks
    BY <1>1 DEF PartFacts, Shows, CallOfLoop, ReadIsRecent, Done, ToCome, Half, R!Setters
  <2>2. PICK j \in 1 .. 7 : f = R!ReadOrder[j]
    BY DEF ShownFields, R!Fields
  <2>3. PICK t \in since .. ticks :
          result[f] = R!FieldOf(f, R!TimePart(CalAt(t)), R!DatePart(CalAt(t)))
    BY <1>1, <2>1, <2>2 DEF Shows, ReadIsRecent
  <2>4. PICK i \in 0 .. ticks - last.at : cal = Called(i, ticks) /\ i <= since - last.at
    BY <1>1, <2>1 DEF Shows, CalendarIsCalled
  <2> DEFINE made   == Made(last.button, last.found + i)
             called == Effect(last.button, last.found + i)
             n      == called + (t - last.at - i)
  <2>5. made \in Nat /\ called \in Nat /\ (last.button # 3 => made = called)
    <3>1. last.found + i \in Nat
      BY <2>1, <2>4
    <3> QED
      BY <2>1, <3>1, EffectType, MadeOrCalled, Zenon
  <2>6. PICK c \in Int : made = called + c * YearSpan
    BY <2>1, <2>4, MadeOrCalled
  <2>7. cal = made + (ticks - last.at - i)
    BY <2>4 DEF Called
  <2> HIDE DEF made, called
  <2>8. CalAt(t) = made + (t - last.at - i) /\ i \in 0 .. t - last.at
    BY <2>1, <2>4, <2>5, <2>7 DEF CalAt
  <2>9. n \in CalledFor(t)
    BY <2>8 DEF CalledFor, called
  <2>10. CalAt(t) \in Nat /\ n \in Nat /\ CalAt(t) = n + c * YearSpan
    BY <2>1, <2>4, <2>5, <2>6, <2>8, YearSpanType
  <2>11. R!FieldOf(f, R!TimePart(CalAt(t)), R!DatePart(CalAt(t)))
         = R!FieldOf(f, R!TimePart(n), R!DatePart(n))
    <3>1. CASE f # "year"
      BY <2>10, <3>1, WholeYears DEF ShownFields
    <3>2. CASE f = "year"
      <4>1. last.button # 3
        BY <3>2 DEF ShownFields
      <4>2. CalAt(t) = n
        BY <2>5, <2>8, <4>1
      <4> QED
        BY <4>2
    <3> QED
      BY <3>1, <3>2
  <2> QED
    BY <2>3, <2>9, <2>11
<1>2. PartFacts /\ Shows => LineShowsUpdates
  BY <1>1 DEF LineShowsUpdates
<1> QED
  BY <1>2, Parts, ShowsInvariance, RtcInvariance, ButtonsInvariance, PTL
=============================================================================
