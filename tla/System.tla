------------------------------- MODULE System -------------------------------
(***************************************************************************)
(* The firmware from the button to the log: main() of main.c drives the    *)
(* buttons (Buttons) and the RTC (Rtc).  Buttons takes a call of RTC.c as  *)
(* one step and Rtc lets anybody make any call; here the calls of the      *)
(* super-loop are the sequences of accesses of Rtc, made when the          *)
(* super-loop makes them, and EXTI15_10_IRQHandler preempts them between   *)
(* any two accesses.                                                       *)
(*                                                                         *)
(* Four actors: the user, the handler, the program (a step of main or of a *)
(* call it makes; none while the handler runs), and the RTC peripheral.    *)
(***************************************************************************)
EXTENDS Integers, Sequences

CONSTANTS
  MaxPresses,  \* as in Buttons
  MaxAll,      \* bound on the presses of all buttons, for model checking
  Base, MaxTicks, MaxResets,   \* as in Rtc
  Wanted,      \* the calendar values of the literals of process_button_events
  YearAs       \* the year that set_date_rtc writes for each year: it encodes the
               \*   year itself, not its distance from BSD_START_YEAR (RtcCodec)

\* Mutated Setter: two of the calls are exchanged.
SetterExchanged == <<"time", "datetime", "date">>

\* What the buttons call, in the order of process_button_events.
Setter   == <<"datetime", "time", "date">>
NButtons == 3

VARIABLES
  \* Buttons; its pc is main.
  main, k, armed, callbacks, isr, pin, seen, pr, g_evt,
  presses, updates, owed, overlap, age,
  \* Rtc.
  pc, op, target, syncs, field, result, initialized, is_sync,
  wpr, init, initf, rsf, cal, copied, dr, drLocked,
  ideal, stale, hourAt, ticks, resets,
  \* History.
  unlogged,    \* buttons pressed since the last line that shows their update
  inLine,      \* those of them whose update precedes the reading of the clock
  since,       \* the seconds that had passed for the peripheral when it began
  last         \* the last update: its button (0: init_rtc), the calendar it
               \*   found, and the seconds passed until then

YearSpan == Base * Base * Base * Base * Base   \* calendar values in a year

\* What the setter of button b writes for the literal: the calendar, and for
\* set_date_rtc the calendar of another year.
Written(b) ==
  LET y == Wanted[b] \div YearSpan
  IN  Wanted[b] + (IF Setter[b] = "date" THEN (YearAs[y] - y) * YearSpan ELSE 0)

Targets == {Written(b) : b \in 1 .. NButtons}

B == INSTANCE Buttons WITH pc <- main
R == INSTANCE Rtc

ASSUME BoundsAssumption == MaxPresses \in Nat /\ MaxAll \in Nat /\ MaxTicks \in Nat /\ MaxResets \in Nat
ASSUME BaseAssumption   == Base \in Nat /\ Base > 1
ASSUME WantedAssumption == Wanted \in [1 .. NButtons -> 0 .. R!MaxCal]
ASSUME YearAsAssumption == YearAs \in [0 .. Base - 1 -> 0 .. Base - 1]

buttons == <<main, k, armed, callbacks, isr, pin, seen, pr, g_evt,
             presses, updates, owed, overlap, age>>
rtc     == <<pc, op, target, syncs, field, result, initialized, is_sync,
             wpr, init, initf, rsf, cal, copied, dr, drLocked,
             ideal, stale, hourAt, ticks, resets>>
history == <<unlogged, inLine, since, last>>
vars    == <<main, k, armed, callbacks, isr, pin, seen, pr, g_evt,
             presses, updates, owed, overlap, age,
             pc, op, target, syncs, field, result, initialized, is_sync,
             wpr, init, initf, rsf, cal, copied, dr, drLocked,
             ideal, stale, hourAt, ticks, resets, unlogged, inLine, since, last>>

Init ==
  /\ B!Init /\ R!Init
  /\ unlogged = {} /\ inLine = {} /\ since = 0
  /\ last = [button |-> 0, found |-> 0, at |-> 0]

-----------------------------------------------------------------------------
(* The environment and the handler.                                        *)

Press(b) ==
  /\ presses[1] + presses[2] + presses[3] < MaxAll
  /\ B!Press(b)
  /\ unlogged' = unlogged \cup ({b} \cap callbacks)
  /\ UNCHANGED <<rtc, inLine, since, last>>

Handler    == B!IsrStep /\ UNCHANGED <<rtc, history>>
Peripheral == R!Hardware /\ UNCHANGED <<buttons, history>>

-----------------------------------------------------------------------------
(* The program.                                                            *)

\* A call of RTC.c is running.
InCall == pc # "idle"

\* init_board calls init_rtc; init_buttons comes after it.
InitRtc ==
  /\ isr = "idle" /\ ~initialized
  /\ R!CallInit
  /\ last' = [button |-> 0, found |-> 0, at |-> ticks]
  /\ UNCHANGED <<buttons, unlogged, inLine, since>>

\* Top of the super-loop: get_datetime_rtc ...
BeginRead ==
  /\ isr = "idle" /\ main = "read" /\ R!CallGet
  /\ inLine' = unlogged \ owed
  /\ since' = IF copied = cal \/ ticks = last.at THEN ticks ELSE ticks - 1
  /\ UNCHANGED <<buttons, unlogged, last>>

\* ... and the log line.
EndRead ==
  /\ R!Log /\ B!ReadClock
  /\ unlogged' = {b \in unlogged : b \notin inLine \/ b \in owed}
  /\ inLine' = {} /\ since' = 0
  /\ UNCHANGED last

\* process_button_events calls the setter of the button ...
BeginUpdate ==
  /\ isr = "idle" /\ main = "update"
  /\ R!CallSet(Setter[k], Written(k))
  /\ last' = [button |-> k, found |-> cal, at |-> ticks]
  /\ UNCHANGED <<buttons, unlogged, inLine, since>>

\* One access of the running call; the last one of a setter returns to
\* process_button_events.
InRtc ==
  /\ isr = "idle" /\ pc # "log"
  /\ R!Step
  /\ IF main = "update" /\ pc' = "idle" THEN B!Update ELSE UNCHANGED buttons
  /\ UNCHANGED history

\* Everything else that main() does, between the calls of RTC.c.
InMain ==
  /\ initialized /\ ~InCall
  /\ \/ B!ArmButton
     \/ B!RegisterCallback
     \/ B!CheckFlag
     \/ B!ClearFlag
     \/ B!Blink
     \/ B!Delay
  /\ UNCHANGED <<rtc, history>>

Program == InitRtc \/ BeginRead \/ EndRead \/ BeginUpdate \/ InRtc \/ InMain

-----------------------------------------------------------------------------
Next ==
  \/ \E b \in 1 .. NButtons : Press(b)
  \/ Handler
  \/ Program
  \/ Peripheral

Spec == Init /\ [][Next]_vars

\* The processor executes and the RTC clock runs: the fairness of Buttons that
\* its calls of RTC.c end is not assumed here.
Fairness ==
  /\ WF_vars(Handler) /\ WF_vars(Program)
  /\ WF_vars(R!EnterInitMode /\ UNCHANGED <<buttons, history>>)
  /\ WF_vars(R!LeaveInitMode /\ UNCHANGED <<buttons, history>>)
  /\ WF_vars(R!Copy /\ UNCHANGED <<buttons, history>>)

FairSpec == Spec /\ Fairness

-----------------------------------------------------------------------------
(* Properties.                                                             *)

\* README.md:50-52: what the literal of button b is to make of the calendar n.
Effect(b, n) ==
  CASE b = 1 -> Wanted[1]
    [] b = 2 -> R!DatePart(n) * R!TimeSpan + R!TimePart(Wanted[2])
    [] b = 3 -> R!DatePart(Wanted[3]) * R!TimeSpan + R!TimePart(n)
    [] OTHER -> n

\* The calendars that the last update calls for when t seconds have passed, some
\* of them before it took effect.
CalledFor(t) ==
  {Effect(last.button, last.found + i) + (t - last.at - i) : i \in 0 .. t - last.at}

\* The fields in which the line is to show that.  Not the week: get_datetime_rtc
\* reads the units of the year with it (README.md:167 has week 41 for w=1).  And
\* not the year that set_date_rtc has written, until button 1 sets another
\* (README.md:166-167 has 2085 for 2025; DateSetReadsBack of RtcCodec).
ShownFields ==
  (R!Fields \ {"week"}) \ (IF last.button = 3 THEN {"year"} ELSE {})

\* A line of the log shows, in these fields, the calendar that the literals of the
\* buttons served so far call for, as it was at some second since its reading
\* began: never one from before the last update, whichever buttons were served in
\* this pass and wherever the handler has preempted the calls; the year that
\* set_date_rtc gets wrong spoils no other field, and no other update.  (The
\* fields of a line may be of different seconds.)
LineShowsUpdates ==
  pc = "log" => \A f \in ShownFields : \E t \in since .. ticks : \E n \in CalledFor(t) :
    result[f] = R!FieldOf(f, R!TimePart(n), R!DatePart(n))

\* As long as no two lines are pending at once, a press is in the end followed
\* by a line of the log that was read after its update.
PressReachesLog ==
  \A b \in 1 .. NButtons :
    (b \in unlogged /\ ~overlap) ~> (b \notin unlogged \/ overlap)

\* What Buttons takes for granted: seen from the buttons, a call of RTC.c is one
\* step that comes in the end, wherever the handler interrupts it.
ImplementsButtons == B!FairSpec
=============================================================================
