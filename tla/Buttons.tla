------------------------------- MODULE Buttons -------------------------------
(***************************************************************************)
(* The push buttons of uLoggerRTC, from the falling edge on a pin to the   *)
(* RTC update it asks for.                                                 *)
(*                                                                         *)
(* Three actors share the state:                                           *)
(*   - the user, whose press latches a bit of EXTI->PR at any instant;     *)
(*   - EXTI15_10_IRQHandler (button.c), which preempts the main program    *)
(*     and is not itself preempted;                                        *)
(*   - main() (main.c): start-up, then the super-loop that reads the RTC,  *)
(*     serves the event flags and sleeps.                                  *)
(*                                                                         *)
(* One button stands for one pin, its callback and its event flag: pin     *)
(* BUTTON_SWi_PIN is button i, swi_pressed_isr its callback, g_evt[i] the  *)
(* flag g_evt_set_datetime, g_evt_set_time, g_evt_set_date in that order,  *)
(* which is the order process_button_events looks at them.                 *)
(***************************************************************************)
EXTENDS Naturals

CONSTANTS
  NButtons,    \* MAX_BUTTONS of button.c
  MaxPresses   \* bound on the presses of each button, for model checking

ASSUME NButtonsAssumption   == NButtons \in Nat \ {0}
ASSUME MaxPressesAssumption == MaxPresses \in Nat

Button == 1 .. NButtons

VARIABLES
  \* The main program.
  pc,          \* where main() is
  k,           \* the button its current loop is at
  \* The interrupt hardware and the data shared with the handler.
  armed,       \* EXTI->FTSR and IMR: the lines whose edges are latched
  pr,          \* EXTI->PR
  callbacks,   \* entries of button_callbacks that are not NULL
  g_evt,       \* the three volatile event flags of main.c
  \* The interrupt handler.
  isr,         \* where EXTI15_10_IRQHandler is, "idle" when not running
  pin,         \* its loop variable
  seen,        \* PR as read by the read half of EXTI->PR |= bit
  \* History: what the properties compare the code with.
  presses,     \* presses of each button so far
  updates,     \* RTC updates made for each button so far
  owed,        \* buttons pressed since the last update made for them
  overlap,     \* two lines have been pending at the same instant
  age          \* super-loop passes an event flag has waited through

mainVars == <<pc, k, armed, callbacks>>
isrVars  == <<isr, pin, seen>>
history  == <<presses, updates, owed, overlap, age>>
vars     == <<pc, k, armed, callbacks, isr, pin, seen, pr, g_evt,
              presses, updates, owed, overlap, age>>

PcValues  == {"arm", "register", "read", "check", "clear", "update", "blink",
              "delay"}
IsrValues == {"idle", "check", "ackRead", "ackWrite", "call"}

Init ==
  /\ pc = "arm"
  /\ k = 1
  /\ armed = {}
  /\ pr = {}
  /\ callbacks = {}
  /\ g_evt = [b \in Button |-> FALSE]
  /\ isr = "idle"
  /\ pin = 1
  /\ seen = {}
  /\ presses = [b \in Button |-> 0]
  /\ updates = [b \in Button |-> 0]
  /\ owed = {}
  /\ overlap = FALSE
  /\ age = [b \in Button |-> 0]

-----------------------------------------------------------------------------
(* The user.                                                               *)

\* A falling edge on the pin of button b.  PR latches it once the line is
\* armed; from the moment the callback is registered an update is owed.
Press(b) ==
  /\ presses[b] < MaxPresses
  /\ presses' = [presses EXCEPT ![b] = @ + 1]
  /\ pr' = pr \cup ({b} \cap armed)
  /\ owed' = owed \cup ({b} \cap callbacks)
  /\ overlap' = (overlap \/ (b \in armed /\ pr \ {b} # {}))
  /\ UNCHANGED <<mainVars, isrVars, g_evt, updates, age>>

-----------------------------------------------------------------------------
(* EXTI15_10_IRQHandler.                                                   *)

\* Mutated NextPin: pin <= SW3 + 1.
NextPinTooFar ==
  IF pin <= NButtons
    THEN isr' = "check" /\ pin' = pin + 1
    ELSE isr' = "idle"  /\ pin' = 1

\* Mutated NextPin: pin < SW3.
NextPinStopsShort ==
  IF pin + 1 < NButtons
    THEN isr' = "check" /\ pin' = pin + 1
    ELSE isr' = "idle"  /\ pin' = 1

\* for (pin = SW1; pin <= SW3; ++pin): on to the next pin, or return.
NextPin ==
  IF pin < NButtons
    THEN isr' = "check" /\ pin' = pin + 1
    ELSE isr' = "idle"  /\ pin' = 1

\* The line is level-triggered by PR and IMR: any latched edge enters.
EnterIsr ==
  /\ isr = "idle"
  /\ pr \cap armed # {}
  /\ isr' = "check"
  /\ pin' = 1
  /\ UNCHANGED <<mainVars, seen, pr, g_evt, history>>

\* exti_check_pending(pin)
CheckPending ==
  /\ isr = "check"
  /\ IF pin \in pr THEN isr' = "ackRead" /\ pin' = pin ELSE NextPin
  /\ UNCHANGED <<mainVars, seen, pr, g_evt, history>>

\* exti_clear_pending(pin) is EXTI->PR |= 1 << pin: a read ...
AckRead ==
  /\ isr = "ackRead"
  /\ seen' = pr
  /\ isr' = "ackWrite"
  /\ UNCHANGED <<mainVars, pin, pr, g_evt, history>>

\* ... and a write.  PR is cleared by writing ones, so every bit that was
\* read as pending is acknowledged with it.
AckWrite ==
  /\ isr = "ackWrite"
  /\ pr' = pr \ (seen \cup {pin})
  /\ isr' = "call"
  /\ UNCHANGED <<mainVars, pin, seen, g_evt, history>>

\* handle_button_interrupt(pin): the registered callback sets its flag.
CallBack ==
  /\ isr = "call"
  /\ g_evt' = [g_evt EXCEPT ![pin] = @ \/ pin \in callbacks]
  /\ age' = [age EXCEPT ![pin] = IF g_evt[pin] THEN @ ELSE 0]
  /\ NextPin
  /\ UNCHANGED <<mainVars, seen, pr, presses, updates, owed, overlap>>

IsrStep == EnterIsr \/ CheckPending \/ AckRead \/ AckWrite \/ CallBack

-----------------------------------------------------------------------------
(* main().  It runs only while the handler does not.                       *)

\* The next iteration of a loop over the buttons, or what follows the loop.
NextButton(again, after) ==
  IF k < NButtons
    THEN pc' = again /\ k' = k + 1
    ELSE pc' = after /\ k' = 1

\* init_buttons: configure_gpio_exti for pin k selects the edge, unmasks the
\* line, clears its pending bit with a plain write and enables the IRQ.
ArmButton ==
  /\ isr = "idle" /\ pc = "arm"
  /\ armed' = armed \cup {k}
  /\ pr' = pr \ {k}
  /\ NextButton("arm", "register")
  /\ UNCHANGED <<callbacks, isrVars, g_evt, history>>

\* init_buttons_callbacks: register_button_callback(k, swk_pressed_isr).
RegisterCallback ==
  /\ isr = "idle" /\ pc = "register"
  /\ callbacks' = callbacks \cup {k}
  /\ NextButton("register", "read")
  /\ UNCHANGED <<armed, isrVars, pr, g_evt, history>>

\* Top of the super-loop: get_datetime_rtc and the log line.
ReadClock ==
  /\ isr = "idle" /\ pc = "read"
  /\ pc' = "check"
  /\ UNCHANGED <<k, armed, callbacks, isrVars, pr, g_evt, history>>

\* process_button_events: if (g_evt_...) of button k.
CheckFlag ==
  /\ isr = "idle" /\ pc = "check"
  /\ IF g_evt[k] THEN pc' = "clear" /\ k' = k ELSE NextButton("check", "delay")
  /\ UNCHANGED <<armed, callbacks, isrVars, pr, g_evt, history>>

\* Mutated ClearFlag: the flag is never reset.
ClearFlagForgotten ==
  /\ isr = "idle" /\ pc = "clear"
  /\ pc' = "update"
  /\ UNCHANGED <<k, armed, callbacks, isrVars, pr, g_evt, history>>

\* g_evt_... = 0, before the work is done.
ClearFlag ==
  /\ isr = "idle" /\ pc = "clear"
  /\ g_evt' = [g_evt EXCEPT ![k] = FALSE]
  /\ age' = [age EXCEPT ![k] = 0]
  /\ pc' = "update"
  /\ UNCHANGED <<k, armed, callbacks, isrVars, pr,
                 presses, updates, owed, overlap>>

\* set_datetime_rtc, set_time_rtc or set_date_rtc; the literals of main.c pass
\* their range checks, so the failure branches are never taken.
Update ==
  /\ isr = "idle" /\ pc = "update"
  /\ updates' = [updates EXCEPT ![k] = @ + 1]
  /\ owed' = owed \ {k}
  /\ pc' = "blink"
  /\ UNCHANGED <<k, armed, callbacks, isrVars, pr, g_evt, presses, overlap, age>>

\* Mutated Blink: the flag is reset once the work is done.
BlinkThenClear ==
  /\ isr = "idle" /\ pc = "blink"
  /\ g_evt' = [g_evt EXCEPT ![k] = FALSE]
  /\ NextButton("check", "delay")
  /\ UNCHANGED <<armed, callbacks, isrVars, pr, history>>

\* Mutated Blink: the three tests are an if / else if chain.
BlinkElseIf ==
  /\ isr = "idle" /\ pc = "blink"
  /\ pc' = "delay" /\ k' = 1
  /\ UNCHANGED <<armed, callbacks, isrVars, pr, g_evt, history>>

\* The log line and led_timed_blink(15, 1, 120), during which buttons may be
\* pressed, and on to the next flag.
Blink ==
  /\ isr = "idle" /\ pc = "blink"
  /\ NextButton("check", "delay")
  /\ UNCHANGED <<armed, callbacks, isrVars, pr, g_evt, history>>

\* delay_timer(3000) and back to the top of the super-loop.
Delay ==
  /\ isr = "idle" /\ pc = "delay"
  /\ pc' = "read"
  /\ age' = [b \in Button |-> IF g_evt[b] THEN age[b] + 1 ELSE age[b]]
  /\ UNCHANGED <<k, armed, callbacks, isrVars, pr, g_evt,
                 presses, updates, owed, overlap>>

MainStep ==
  \/ ArmButton
  \/ RegisterCallback
  \/ ReadClock
  \/ CheckFlag
  \/ ClearFlag
  \/ Update
  \/ Blink
  \/ Delay

-----------------------------------------------------------------------------
Next ==
  \/ \E b \in Button : Press(b)
  \/ IsrStep
  \/ MainStep

Spec == Init /\ [][Next]_vars

\* The processor executes: neither the handler nor the main program stops.
\* Nothing is assumed of the user.
Fairness == WF_vars(IsrStep) /\ WF_vars(MainStep)

FairSpec == Spec /\ Fairness

-----------------------------------------------------------------------------
(* Properties.                                                             *)

\* The type invariant.  A latched bit belongs to an armed line, and a button
\* owes an update only once its callback is in the table.
TypeOK ==
  /\ pc \in PcValues /\ k \in Button
  /\ armed \subseteq Button /\ pr \subseteq armed
  /\ callbacks \subseteq Button /\ owed \subseteq callbacks
  /\ g_evt \in [Button -> BOOLEAN]
  /\ isr \in IsrValues /\ pin \in Button /\ seen \subseteq Button
  /\ presses \in [Button -> Nat] /\ updates \in [Button -> Nat]
  /\ overlap \in BOOLEAN /\ age \in [Button -> Nat]

\* Where a press of button b can be between the edge and the RTC update: the
\* pending bit, the acknowledged pin whose callback is still to be called, the
\* event flag, or the update about to be made.
Represented(b) ==
  \/ b \in pr
  \/ isr = "call" /\ pin = b
  \/ g_evt[b]
  \/ pc = "update" /\ k = b

\* README.md:54: a press of any button is handled and updates the RTC, so a
\* press that has not been followed by its update is always on its way.
EveryPressRepresented == \A b \in owed : Represented(b)

\* What the code does guarantee: a press is lost only if two lines have been
\* pending at once.  The handler, the callback and the super-loop hand it over
\* without a gap: EXTI->PR is acknowledged before the callback, and the flag
\* is cleared before the RTC is written.
NoPressLost == ~overlap => EveryPressRepresented

\* The places where presses of b wait for main() to take them.
Waiting(b) ==
  (IF b \in pr THEN 1 ELSE 0)
  + (IF isr = "call" /\ pin = b THEN 1 ELSE 0)
  + (IF g_evt[b] THEN 1 ELSE 0)

\* Presses of b that can still turn into an update.
OnTheWay(b) == Waiting(b) + (IF pc = "update" /\ k = b THEN 1 ELSE 0)

\* The RTC is never updated without a press of its own: presses may be merged
\* or lost but one press never produces two updates, whatever the handler
\* interrupts.
UpdatesJustified == \A b \in Button : updates[b] + OnTheWay(b) <= presses[b]

\* process_button_events looks at every flag on every pass: a flag waits
\* through at most one delay_timer(3000) before it is served.
ServedByNextPass == \A b \in Button : age[b] <= 1

\* As long as no two lines are pending at once, every press is eventually
\* followed by its RTC update.
PressServed ==
  \A b \in Button : (b \in owed /\ ~overlap) ~> (b \notin owed \/ overlap)

\* The buttons as an event register: an event is pending from the latched edge
\* to the cleared flag, and taken until the RTC is updated.
Register == INSTANCE EventRegister WITH
  Source    <- Button,
  listening <- callbacks,
  pending   <- [b \in Button |-> Waiting(b)],
  taken     <- IF pc = "update" THEN {k} ELSE {},
  handled   <- updates

\* The buttons implement the register: they merge presses, they lose one only
\* while they keep another, they take an event once, and nothing stays pending.
ImplementsRegister == Register!LiveSpec

-----------------------------------------------------------------------------
(* The strengthenings that make the invariants inductive.                  *)

\* The pin being acknowledged is pending until the acknowledgement.
AckedIsPending == isr \in {"ackRead", "ackWrite"} => pin \in pr

\* Without an overlap there is at most one pending bit to read back.
NoOverlapMeansOne ==
  ~overlap => /\ \A a, b \in pr : a = b
              /\ isr = "ackWrite" => seen \subseteq {pin}

\* All lines are armed before the first callback is registered, main clears a
\* flag it has seen set, and its loops start from the first button.
MainInPhase ==
  /\ pc = "arm" => callbacks = {} /\ armed = 1 .. (k - 1)
  /\ pc # "arm" => armed = Button
  /\ pc = "clear" => g_evt[k]
  /\ pc \in {"read", "delay"} => k = 1

\* The current pass has yet to look at the flag of b.
StillToCheck(b) ==
  \/ pc = "read"
  \/ pc \in {"check", "clear"} /\ k <= b
  \/ pc \in {"update", "blink"} /\ k < b

\* A flag that has waited through one delay is ahead of the loop.
AgedIsAhead == \A b \in Button : g_evt[b] /\ age[b] = 1 => StillToCheck(b)

IInv ==
  /\ TypeOK
  /\ AckedIsPending
  /\ NoOverlapMeansOne
  /\ MainInPhase
  /\ NoPressLost
  /\ UpdatesJustified
  /\ ServedByNextPass
  /\ AgedIsAhead
=============================================================================
