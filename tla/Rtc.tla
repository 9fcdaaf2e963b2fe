--------------------------------- MODULE Rtc ---------------------------------
(***************************************************************************)
(* The RTC driver (RTC.c) against the RTC peripheral it drives.            *)
(*                                                                         *)
(* Two actors: the main program, which calls init_rtc once and then        *)
(* set_datetime_rtc, set_time_rtc, set_date_rtc and get_datetime_rtc in    *)
(* any order; and the peripheral, which counts, enters and leaves          *)
(* initialisation mode on request, and copies the calendar to the shadow   *)
(* registers TR and DR that the program reads.                             *)
(*                                                                         *)
(* A calendar value is a number whose base-Base digits are, from the least *)
(* significant, seconds, minute, hour, day, month and year: a clock with   *)
(* the carries of the real one and few values.  TR holds the three low     *)
(* digits, DR the three high ones (and the week, which changes with the    *)
(* day).  The encoding of the registers is the subject of RtcCodec.        *)
(***************************************************************************)
EXTENDS Integers, Sequences

CONSTANTS
  Base,        \* values of each calendar field
  Targets,     \* the calendar values the program sets
  MaxTicks,    \* bound on the seconds that pass, for model checking
  MaxResets    \* bound on the resets of the processor, for model checking

TimeSpan == Base * Base * Base          \* values of TR
MaxCal   == TimeSpan * TimeSpan - 1     \* the last instant before wrap-around

ASSUME BaseAssumption      == Base \in Nat /\ Base > 1
ASSUME TargetsAssumption   == Targets \subseteq 0 .. MaxCal
ASSUME MaxTicksAssumption  == MaxTicks \in Nat
ASSUME MaxResetsAssumption == MaxResets \in Nat

TimePart(n) == n % TimeSpan
DatePart(n) == n \div TimeSpan

VARIABLES
  \* The driver.
  pc,          \* the next statement of the running call, "idle" between calls
  op,          \* the running call
  target,      \* its argument
  syncs,       \* waits for RSF it has still to make
  field,       \* get_datetime_rtc: the index of the field to read next
  result,      \* the datetime structure it fills
  initialized, \* rtc_initialized
  is_sync,     \* is_sync_date_rtc
  \* The peripheral.
  wpr,         \* write protection: "locked" or "open"
  init,        \* ISR.INIT
  initf,       \* ISR.INITF: in initialisation mode, the calendar is stopped
  rsf,         \* ISR.RSF
  cal,         \* the calendar counters
  copied,      \* the calendar when it was last copied: TR is TimePart(copied)
  dr,          \* shadow register DR
  drLocked,    \* reading TR keeps DR from being copied until DR is read
  \* History.
  ideal,       \* a clock that always obeys the calls
  stale,       \* calendar writes that have not reached TR and DR yet
  hourAt,      \* the calendar copy that the hour was read from
  ticks,       \* seconds so far
  resets       \* resets of the processor so far

driverVars == <<pc, op, target, syncs, field, result, initialized, is_sync>>
hwVars     == <<wpr, init, initf, rsf, cal, copied, dr, drLocked>>
history    == <<ideal, stale, hourAt, ticks, resets>>
vars       == <<pc, op, target, syncs, field, result, initialized, is_sync,
                wpr, init, initf, rsf, cal, copied, dr, drLocked,
                ideal, stale, hourAt, ticks, resets>>

\* Mutated ReadOrder: the date before the time.
ReadOrderDateFirst ==
  <<"day", "month", "week", "year", "hour", "minute", "seconds">>

\* Mutated ReadOrder: from the fastest field to the slowest.
ReadOrderUpwards ==
  <<"seconds", "minute", "hour", "day", "month", "week", "year">>

\* The order in which get_datetime_rtc reads TR and DR, a read for each field.
ReadOrder == <<"hour", "minute", "seconds", "day", "month", "week", "year">>

TimeFields == {"hour", "minute", "seconds"}
Fields     == {ReadOrder[i] : i \in 1 .. 7}

\* The field of a calendar value, from TR and DR.
FieldOf(f, tr, date) ==
  CASE f = "seconds" -> tr % Base
    [] f = "minute"  -> (tr \div Base) % Base
    [] f = "hour"    -> tr \div (Base * Base)
    [] f = "month"   -> (date \div Base) % Base
    [] f = "year"    -> date \div (Base * Base)
    [] OTHER         -> date % Base

Nothing == [f \in Fields |-> 0]

PcValues == {"idle", "unlock", "setInit", "waitInitf", "writeTR", "writeDR",
             "clearInit", "lock", "clearRsf", "waitRsf", "read", "log"}
Setters  == {"datetime", "time", "date"}

\* After a reset of the backup domain.
Init ==
  /\ pc = "idle" /\ op = "none" /\ target = 0 /\ syncs = 0
  /\ field = 1 /\ result = Nothing
  /\ initialized = FALSE /\ is_sync = FALSE
  /\ wpr = "locked" /\ init = FALSE /\ initf = FALSE /\ rsf = FALSE
  /\ cal = 0 /\ copied = 0 /\ dr = 0 /\ drLocked = FALSE
  /\ ideal = 0 /\ stale = FALSE /\ hourAt = 0
  /\ ticks = 0 /\ resets = 0

-----------------------------------------------------------------------------
(* The peripheral.                                                         *)

\* A second passes.  Copies are two RTCCLK periods apart, so the last one
\* holds the current second.
Tick ==
  /\ ~initf /\ copied = cal
  /\ cal < MaxCal /\ ticks < MaxTicks
  /\ cal' = cal + 1
  /\ ideal' = ideal + 1
  /\ ticks' = ticks + 1
  /\ UNCHANGED <<driverVars, wpr, init, initf, rsf, copied, dr, drLocked,
                 stale, hourAt, resets>>

EnterInitMode ==
  /\ init /\ ~initf
  /\ initf' = TRUE
  /\ rsf' = FALSE
  /\ UNCHANGED <<driverVars, wpr, init, cal, copied, dr, drLocked, history>>

LeaveInitMode ==
  /\ ~init /\ initf
  /\ initf' = FALSE
  /\ UNCHANGED <<driverVars, wpr, init, rsf, cal, copied, dr, drLocked, history>>

\* The calendar is copied to the shadow registers and RSF is set; DR keeps its
\* value while it is locked.
Copy ==
  /\ ~initf
  /\ copied' = cal
  /\ dr' = IF drLocked THEN dr ELSE DatePart(cal)
  /\ stale' = (stale /\ drLocked)
  /\ rsf' = TRUE
  /\ UNCHANGED <<driverVars, wpr, init, initf, cal, drLocked,
                 ideal, hourAt, ticks, resets>>

Hardware == Tick \/ EnterInitMode \/ LeaveInitMode \/ Copy

-----------------------------------------------------------------------------
(* The calls.                                                              *)

\* init_rtc, from init_board: configure_rtc_clock_rcc resets the backup
\* domain, and with it the whole peripheral.
CallInit ==
  /\ pc = "idle" /\ ~initialized
  /\ pc' = "unlock" /\ op' = "init" /\ syncs' = 2
  /\ wpr' = "locked" /\ init' = FALSE /\ initf' = FALSE /\ rsf' = FALSE
  /\ cal' = 0 /\ copied' = 0 /\ dr' = 0 /\ drLocked' = FALSE
  /\ ideal' = 0 /\ stale' = FALSE
  /\ UNCHANGED <<target, field, result, initialized, is_sync, hourAt, ticks, resets>>

\* set_datetime_rtc, set_time_rtc and set_date_rtc with an argument that
\* passes their range check.
CallSet(setter, n) ==
  /\ pc = "idle" /\ initialized
  /\ pc' = "unlock" /\ op' = setter /\ target' = n /\ syncs' = 1
  /\ UNCHANGED <<field, result, initialized, is_sync, hwVars, history>>

\* get_datetime_rtc: it waits for the shadow registers only if nobody has.
CallGet ==
  /\ pc = "idle" /\ initialized
  /\ op' = "get" /\ field' = 1
  /\ IF is_sync THEN pc' = "read" /\ syncs' = 0 ELSE pc' = "clearRsf" /\ syncs' = 1
  /\ UNCHANGED <<target, result, initialized, is_sync, hwVars, history>>

-----------------------------------------------------------------------------
(* The statements of the calls that write.                                 *)

At(label) == pc = label

\* WPR = 0xCA; WPR = 0x53
Unlock ==
  /\ At("unlock") /\ pc' = "setInit"
  /\ wpr' = "open"
  /\ UNCHANGED <<op, target, syncs, field, result, initialized, is_sync,
                 init, initf, rsf, cal, copied, dr, drLocked, history>>

\* ISR |= INIT
SetInit ==
  /\ At("setInit") /\ pc' = "waitInitf"
  /\ init' = (init \/ wpr = "open")
  /\ UNCHANGED <<op, target, syncs, field, result, initialized, is_sync,
                 wpr, initf, rsf, cal, copied, dr, drLocked, history>>

\* while (!(ISR & INITF)); init_rtc then writes PRER.
WaitInitf ==
  /\ At("waitInitf") /\ initf
  /\ pc' = CASE op = "init" -> "clearInit"
             [] op = "date" -> "writeDR"
             [] OTHER       -> "writeTR"
  /\ UNCHANGED <<op, target, syncs, field, result, initialized, is_sync,
                 hwVars, history>>

\* The peripheral takes a write of TR or DR only in initialisation mode.
WriteCalendar(n) ==
  /\ cal' = IF initf /\ wpr = "open" THEN n ELSE cal
  /\ stale' = TRUE
  /\ UNCHANGED <<op, target, syncs, field, result, initialized, is_sync,
                 wpr, init, initf, rsf, copied, dr, drLocked, hourAt, ticks, resets>>

\* TR = ...
WriteTR ==
  /\ At("writeTR")
  /\ pc' = IF op = "datetime" THEN "writeDR" ELSE "clearInit"
  /\ ideal' = DatePart(ideal) * TimeSpan + TimePart(target)
  /\ WriteCalendar(DatePart(cal) * TimeSpan + TimePart(target))

\* DR = ...
WriteDR ==
  /\ At("writeDR") /\ pc' = "clearInit"
  /\ ideal' = DatePart(target) * TimeSpan + TimePart(ideal)
  /\ WriteCalendar(DatePart(target) * TimeSpan + TimePart(cal))

\* Mutated ClearInit: the registers are protected again first, so that the
\* peripheral ignores the write.
ClearInitAfterLock ==
  /\ At("clearInit")
  /\ pc' = IF op = "init" THEN "clearRsf" ELSE "lock"
  /\ wpr' = "locked"
  /\ UNCHANGED <<op, target, syncs, field, result, initialized, is_sync,
                 init, initf, rsf, cal, copied, dr, drLocked, history>>

\* ISR &= ~INIT; init_rtc waits for RSF before it locks, the setters after.
ClearInit ==
  /\ At("clearInit")
  /\ pc' = IF op = "init" THEN "clearRsf" ELSE "lock"
  /\ init' = (init /\ wpr # "open")
  /\ UNCHANGED <<op, target, syncs, field, result, initialized, is_sync,
                 wpr, initf, rsf, cal, copied, dr, drLocked, history>>

\* Mutated Lock: init_rtc returns without it.
LockForgotten ==
  /\ At("lock")
  /\ IF op = "init"
       THEN pc' = "idle" /\ op' = "none" /\ initialized' = TRUE
       ELSE pc' = "clearRsf" /\ UNCHANGED <<op, initialized>>
  /\ wpr' = IF op = "init" THEN wpr ELSE "locked"
  /\ UNCHANGED <<target, syncs, field, result, is_sync,
                 init, initf, rsf, cal, copied, dr, drLocked, history>>

\* WPR = 0xFF; the last statement of init_rtc but rtc_initialized = 1.
Lock ==
  /\ At("lock")
  /\ IF op = "init"
       THEN pc' = "idle" /\ op' = "none" /\ initialized' = TRUE
       ELSE pc' = "clearRsf" /\ UNCHANGED <<op, initialized>>
  /\ wpr' = "locked"
  /\ UNCHANGED <<target, syncs, field, result, is_sync,
                 init, initf, rsf, cal, copied, dr, drLocked, history>>

\* rtc_wait_sync: ISR &= ~RSF.  RSF is write-protected: the setters, which
\* have locked the registers by now, clear nothing.
ClearRsf ==
  /\ At("clearRsf") /\ pc' = "waitRsf"
  /\ rsf' = (rsf /\ wpr # "open")
  /\ UNCHANGED <<op, target, syncs, field, result, initialized, is_sync,
                 wpr, init, initf, cal, copied, dr, drLocked, history>>

\* What follows a wait for RSF: another one, WPR = 0xFF, the reads, or return.
AfterSync ==
  /\ syncs' = syncs - 1
  /\ is_sync' = TRUE
  /\ pc' = CASE syncs > 1              -> "clearRsf"
             [] syncs = 1 /\ op = "init" -> "lock"
             [] syncs = 1 /\ op = "get"  -> "read"
             [] OTHER                   -> "idle"
  /\ op' = IF pc' = "idle" THEN "none" ELSE op
  /\ UNCHANGED <<target, field, result, initialized, hwVars, history>>

\* Mutated WaitRsf: the wait is left out.
WaitRsfSkipped == At("waitRsf") /\ AfterSync

\* while (!(ISR & RSF)); is_sync_date_rtc = 1
WaitRsf == At("waitRsf") /\ rsf /\ AfterSync

-----------------------------------------------------------------------------
(* get_datetime_rtc.                                                       *)

\* Mutated ReadField: the index is checked after the step, not before.
ReadFieldPastEnd ==
  /\ At("read")
  /\ LET f == ReadOrder[field] IN
       /\ result' = [result EXCEPT ![f] = FieldOf(f, TimePart(copied), dr)]
       /\ drLocked' = (f \in TimeFields)
       /\ hourAt' = IF f = "hour" THEN copied ELSE hourAt
  /\ IF field <= 7
       THEN pc' = "read" /\ field' = field + 1
       ELSE pc' = "log"  /\ field' = 1
  /\ UNCHANGED <<op, target, syncs, initialized, is_sync,
                 wpr, init, initf, rsf, cal, copied, dr, ideal, stale, ticks, resets>>

\* One read of TR or DR for each field.
ReadField ==
  /\ At("read")
  /\ LET f == ReadOrder[field] IN
       /\ result' = [result EXCEPT ![f] = FieldOf(f, TimePart(copied), dr)]
       /\ drLocked' = (f \in TimeFields)
       /\ hourAt' = IF f = "hour" THEN copied ELSE hourAt
  /\ IF field < 7
       THEN pc' = "read" /\ field' = field + 1
       ELSE pc' = "log"  /\ field' = 1
  /\ UNCHANGED <<op, target, syncs, initialized, is_sync,
                 wpr, init, initf, rsf, cal, copied, dr, ideal, stale, ticks, resets>>

\* get_datetime_rtc has returned 0 and the super-loop logs the result.  The log
\* line takes many RTCCLK periods: the next call finds DR copied again.
Log ==
  /\ At("log") /\ dr = DatePart(copied)
  /\ pc' = "idle" /\ op' = "none"
  /\ result' = Nothing
  /\ hourAt' = 0
  /\ UNCHANGED <<target, syncs, field, initialized, is_sync, hwVars,
                 ideal, stale, ticks, resets>>

-----------------------------------------------------------------------------
\* A reset of the processor at any instant: the driver starts again, the
\* backup domain keeps the peripheral as it was.
Reset ==
  /\ resets < MaxResets
  /\ resets' = resets + 1
  /\ pc' = "idle" /\ op' = "none" /\ syncs' = 0 /\ field' = 1
  /\ target' = 0 /\ result' = Nothing /\ hourAt' = 0
  /\ initialized' = FALSE /\ is_sync' = FALSE
  /\ UNCHANGED <<hwVars, ideal, stale, ticks>>

Call ==
  \/ CallInit
  \/ \E setter \in Setters, n \in Targets : CallSet(setter, n)
  \/ CallGet

Step ==
  \/ Unlock
  \/ SetInit
  \/ WaitInitf
  \/ WriteTR
  \/ WriteDR
  \/ ClearInit
  \/ Lock
  \/ ClearRsf
  \/ WaitRsf
  \/ ReadField
  \/ Log

Next == Call \/ Step \/ Hardware \/ Reset

Spec == Init /\ [][Next]_vars

\* The processor executes and the RTC clock runs; nobody has to make a call.
Fairness ==
  /\ WF_vars(Step)
  /\ WF_vars(EnterInitMode) /\ WF_vars(LeaveInitMode) /\ WF_vars(Copy)

FairSpec == Spec /\ Fairness

-----------------------------------------------------------------------------
(* Properties.                                                             *)

TypeOK ==
  /\ pc \in PcValues /\ op \in Setters \cup {"none", "init", "get"}
  /\ target \in 0 .. MaxCal /\ syncs \in 0 .. 2 /\ field \in 1 .. 7
  /\ result \in [Fields -> 0 .. Base - 1]
  /\ initialized \in BOOLEAN /\ is_sync \in BOOLEAN
  /\ wpr \in {"locked", "open"} /\ init \in BOOLEAN /\ initf \in BOOLEAN
  /\ rsf \in BOOLEAN /\ cal \in 0 .. MaxCal /\ copied \in 0 .. MaxCal
  /\ dr \in 0 .. TimeSpan - 1 /\ drLocked \in BOOLEAN
  /\ ideal \in 0 .. MaxCal /\ stale \in BOOLEAN /\ hourAt \in 0 .. MaxCal
  /\ ticks \in 0 .. MaxTicks /\ resets \in 0 .. MaxResets

\* The driver is between two calls of an initialised RTC.
Idle == pc = "idle" /\ initialized

\* Whatever was called, and wherever a reset has struck, a call leaves the
\* calendar running, the registers protected and DR free to be copied.
IdleMeansRunning == Idle => ~init /\ ~initf /\ wpr = "locked" /\ ~drLocked

\* A setter has taken effect when it returns: the peripheral took the write,
\* and the shadow registers the next get_datetime_rtc reads are newer than it.
SetIsVisible == Idle => cal = ideal /\ ~stale

\* The hour and the day that get_datetime_rtc returns are of one copy of the
\* calendar: the read of TR that gave the hour froze DR for the day.
DayMatchesHour == pc = "log" => result["day"] = DatePart(hourAt) % Base

\* Within a month the returned day and time never run ahead of the calendar,
\* however many seconds pass between the reads: a slower field is read first.
NeverAhead ==
  pc = "log" /\ DatePart(hourAt) \div Base = DatePart(cal) \div Base =>
    ((result["day"] * Base + result["hour"]) * Base + result["minute"]) * Base
      + result["seconds"] <= cal % (TimeSpan * Base)

\* README.md:151: a log line is the current state of the RTC, so that what
\* get_datetime_rtc returns was in the calendar at some instant of the call.
WholeInstant ==
  pc = "log" => \E n \in hourAt .. cal :
    \A f \in Fields : result[f] = FieldOf(f, TimePart(n), DatePart(n))

\* Every call returns, as long as the RTC clock runs.
CallsReturn == pc # "idle" ~> pc = "idle"
=============================================================================
