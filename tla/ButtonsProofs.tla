---------------------------- MODULE ButtonsProofs ----------------------------
(***************************************************************************)
(* Proofs about Buttons, for any number of buttons and presses.            *)
(*                                                                         *)
(* One lemma per part of the inductive invariant IInv: a step from an IInv *)
(* state establishes the part again.  The theorems combine them.           *)
(***************************************************************************)
EXTENDS Buttons, TLAPS

\* The two loop counters stay on a button and end up on the first one.
LEMMA NextPinType ==
  ASSUME pin \in Button, NextPin
  PROVE  pin' \in Button /\ isr' \in {"check", "idle"}
BY NButtonsAssumption DEF NextPin, Button

\* The loops of main() step over the buttons.
LEMMA NextButtonType ==
  ASSUME k \in Button, NEW again, NEW after, NextButton(again, after)
  PROVE  /\ k' \in Button
         /\ \/ pc' = again /\ k' = k + 1
            \/ pc' = after /\ k' = 1 /\ k = NButtons
BY NButtonsAssumption DEF NextButton, Button

\* The initial states satisfy the invariant.
LEMMA InitIInv == Init => IInv
<1> SUFFICES ASSUME Init PROVE IInv
  OBVIOUS
<1>1. TypeOK
  <2>1. 1 \in Button
    BY NButtonsAssumption DEF Button
  <2>2. g_evt \in [Button -> BOOLEAN] /\ overlap \in BOOLEAN
    BY Zenon DEF Init
  <2> QED
    BY <2>1, <2>2 DEF Init, TypeOK, PcValues, IsrValues
<1>2. UpdatesJustified
  BY DEF Init, UpdatesJustified, OnTheWay, Waiting
<1>3. ServedByNextPass /\ AgedIsAhead
  BY DEF Init, ServedByNextPass, AgedIsAhead
<1>4. AckedIsPending /\ NoOverlapMeansOne /\ MainInPhase
  BY DEF Init, AckedIsPending, NoOverlapMeansOne, MainInPhase
<1>5. NoPressLost
  BY DEF Init, NoPressLost, EveryPressRepresented
<1> QED
  BY <1>1, <1>2, <1>3, <1>4, <1>5 DEF IInv

\* Type correctness of a step.
LEMMA StepTypeOK == IInv /\ [Next]_vars => TypeOK'
<1> SUFFICES ASSUME IInv, [Next]_vars PROVE TypeOK'
  OBVIOUS
<1> USE NButtonsAssumption DEF IInv, TypeOK, history, isrVars, mainVars
<1>1. ASSUME NEW b \in Button, Press(b) PROVE TypeOK'
  BY <1>1 DEF Press
<1>2. CASE EnterIsr
  BY <1>2, SMTT(30) DEF EnterIsr, IsrValues, Button
<1>3. CASE CheckPending
  BY <1>3, NextPinType DEF CheckPending, IsrValues
<1>4. CASE AckRead
  BY <1>4 DEF AckRead, IsrValues
<1>5. CASE AckWrite
  BY <1>5 DEF AckWrite, IsrValues
<1>6. CASE CallBack
  BY <1>6, NextPinType DEF CallBack, IsrValues
<1>7. CASE ArmButton
  <2>1. pr' \subseteq armed'
    BY <1>7 DEF ArmButton
  <2> QED
    BY <1>7, <2>1, NextButtonType DEF ArmButton, PcValues
<1>8. CASE RegisterCallback
  BY <1>8, NextButtonType DEF RegisterCallback, PcValues
<1>9. CASE ReadClock
  BY <1>9 DEF ReadClock, PcValues
<1>10. CASE CheckFlag
  BY <1>10, NextButtonType DEF CheckFlag, PcValues
<1>11. CASE ClearFlag
  BY <1>11 DEF ClearFlag, PcValues
<1>12. CASE Update
  BY <1>12 DEF Update, PcValues
<1>13. CASE Blink
  BY <1>13, NextButtonType DEF Blink, PcValues
<1>14. CASE Delay
  BY <1>14 DEF Delay, PcValues
<1>15. CASE UNCHANGED vars
  BY <1>15 DEF vars
<1> QED
  BY <1>1, <1>2, <1>3, <1>4, <1>5, <1>6, <1>7, <1>8, <1>9, <1>10, <1>11,
     <1>12, <1>13, <1>14, <1>15 DEF Next, IsrStep, MainStep

-----------------------------------------------------------------------------
(* The parts of the invariant that NoPressLost rests on.                   *)

\* Nobody clears the pin that is being acknowledged.
LEMMA StepAckedIsPending == IInv /\ [Next]_vars => AckedIsPending'
<1> SUFFICES ASSUME IInv, [Next]_vars PROVE AckedIsPending'
  OBVIOUS
<1> USE DEF IInv, TypeOK, AckedIsPending
<1>1. ASSUME NEW b \in Button, Press(b) PROVE AckedIsPending'
  BY <1>1 DEF Press, isrVars
<1>2. CASE CheckPending
  BY <1>2, NextPinType DEF CheckPending
<1>3. CASE AckRead
  BY <1>3 DEF AckRead
<1>4. CASE EnterIsr \/ AckWrite
  BY <1>4 DEF EnterIsr, AckWrite
<1>5. CASE CallBack
  BY <1>5, NextPinType DEF CallBack
<1>6. CASE MainStep
  BY <1>6 DEF MainStep, ArmButton, RegisterCallback, ReadClock, CheckFlag,
              ClearFlag, Update, Blink, Delay, isrVars
<1>7. CASE UNCHANGED vars
  BY <1>7 DEF vars
<1> QED
  BY <1>1, <1>2, <1>3, <1>4, <1>5, <1>6, <1>7 DEF Next, IsrStep

\* Two lines that are pending at once are an overlap.
LEMMA StepNoOverlapMeansOne == IInv /\ [Next]_vars => NoOverlapMeansOne'
<1> SUFFICES ASSUME IInv, [Next]_vars PROVE NoOverlapMeansOne'
  OBVIOUS
<1> USE DEF IInv, TypeOK, NoOverlapMeansOne
<1>1. ASSUME NEW b \in Button, Press(b) PROVE NoOverlapMeansOne'
  <2>1. CASE b \notin armed
    BY <1>1, <2>1 DEF Press, isrVars
  <2>2. CASE b \in armed /\ pr \ {b} = {}
    BY <1>1, <2>2 DEF Press, isrVars
  <2>3. CASE b \in armed /\ pr \ {b} # {}
    BY <1>1, <2>3 DEF Press
  <2> QED
    BY <2>1, <2>2, <2>3
<1>2. CASE EnterIsr
  BY <1>2 DEF EnterIsr, history
<1>3. CASE CheckPending
  BY <1>3, NextPinType DEF CheckPending, history
<1>4. CASE AckRead
  BY <1>4 DEF AckRead, AckedIsPending, history
<1>5. CASE AckWrite
  BY <1>5 DEF AckWrite, history
<1>6. CASE CallBack
  BY <1>6, NextPinType DEF CallBack
<1>7. CASE MainStep
  BY <1>7 DEF MainStep, ArmButton, RegisterCallback, ReadClock, CheckFlag,
              ClearFlag, Update, Blink, Delay, isrVars, history
<1>8. CASE UNCHANGED vars
  BY <1>8 DEF vars
<1> QED
  BY <1>1, <1>2, <1>3, <1>4, <1>5, <1>6, <1>7, <1>8 DEF Next, IsrStep

\* main() goes through its loops in order.
LEMMA StepMainInPhase == IInv /\ [Next]_vars => MainInPhase'
<1> SUFFICES ASSUME IInv, [Next]_vars PROVE MainInPhase'
  OBVIOUS
<1> USE DEF IInv, TypeOK, MainInPhase, mainVars, isrVars
<1>1. ASSUME NEW b \in Button, Press(b) PROVE MainInPhase'
  BY <1>1 DEF Press
<1>2. CASE EnterIsr \/ CheckPending \/ AckRead \/ AckWrite
  BY <1>2 DEF EnterIsr, CheckPending, AckRead, AckWrite
<1>9. CASE CallBack
  <2>1. \A b \in Button : g_evt[b] => g_evt'[b]
    BY <1>9 DEF CallBack
  <2> QED
    BY <1>9, <2>1 DEF CallBack
<1>3. CASE ArmButton
  <2>1. armed' = 1 .. k
    BY <1>3 DEF ArmButton, Button
  <2>2. CASE pc' = "arm" /\ k' = k + 1
    BY <1>3, <2>1, <2>2 DEF ArmButton, Button
  <2>3. CASE pc' = "register" /\ k = NButtons
    BY <1>3, <2>1, <2>3 DEF ArmButton, Button
  <2> QED
    BY <1>3, <2>2, <2>3, NextButtonType DEF ArmButton
<1>8. CASE RegisterCallback
  BY <1>8, NextButtonType DEF RegisterCallback
<1>4. CASE ReadClock \/ ClearFlag \/ Update \/ Delay
  BY <1>4 DEF ReadClock, ClearFlag, Update, Delay
<1>5. CASE CheckFlag
  BY <1>5, NextButtonType DEF CheckFlag
<1>6. CASE Blink
  BY <1>6, NextButtonType DEF Blink
<1>7. CASE UNCHANGED vars
  BY <1>7 DEF vars
<1> QED
  BY <1>1, <1>2, <1>3, <1>4, <1>5, <1>6, <1>7, <1>8, <1>9
     DEF Next, IsrStep, MainStep

-----------------------------------------------------------------------------
(* No press is lost without an overlap.                                    *)

\* A press that is on its way stays so, or is served, or is the victim of an
\* overlap.
LEMMA StepNoPressLost == IInv /\ [Next]_vars => NoPressLost'
<1> SUFFICES ASSUME IInv, [Next]_vars, ~overlap',
                    NEW c \in Button, c \in owed'
             PROVE  Represented(c)'
  BY StepTypeOK DEF NoPressLost, EveryPressRepresented, TypeOK
<1> USE DEF IInv, TypeOK, Represented, history, isrVars, mainVars
<1>1. ASSUME NEW b \in Button, Press(b) PROVE Represented(c)'
  <2>1. ~overlap
    BY <1>1 DEF Press
  <2>2. CASE c \in owed
    BY <1>1, <2>1, <2>2 DEF Press, NoPressLost, EveryPressRepresented
  <2>3. CASE c \notin owed
    <3>1. c = b /\ b \in armed
      BY <1>1, <2>3 DEF Press, MainInPhase
    <3> QED
      BY <1>1, <3>1 DEF Press
  <2> QED
    BY <2>2, <2>3
<1>2. CASE EnterIsr
  BY <1>2 DEF EnterIsr, NoPressLost, EveryPressRepresented
<1>3. CASE CheckPending
  BY <1>3, NextPinType DEF CheckPending, NoPressLost, EveryPressRepresented
<1>4. CASE AckRead
  BY <1>4 DEF AckRead, NoPressLost, EveryPressRepresented
<1>5. CASE AckWrite
  BY <1>5 DEF AckWrite, NoPressLost, EveryPressRepresented, NoOverlapMeansOne
<1>6. CASE CallBack
  BY <1>6 DEF CallBack, NoPressLost, EveryPressRepresented
<1>7. CASE ArmButton
  BY <1>7 DEF ArmButton, MainInPhase
<1>8. CASE RegisterCallback \/ ReadClock \/ Delay
  BY <1>8 DEF RegisterCallback, ReadClock, Delay,
              NoPressLost, EveryPressRepresented
<1>9. CASE CheckFlag
  BY <1>9, NextButtonType DEF CheckFlag, NoPressLost, EveryPressRepresented
<1>10. CASE ClearFlag
  BY <1>10 DEF ClearFlag, NoPressLost, EveryPressRepresented
<1>11. CASE Update
  BY <1>11 DEF Update, NoPressLost, EveryPressRepresented
<1>12. CASE Blink
  BY <1>12, NextButtonType DEF Blink, NoPressLost, EveryPressRepresented
<1>13. CASE UNCHANGED vars
  BY <1>13 DEF vars, NoPressLost, EveryPressRepresented
<1> QED
  BY <1>1, <1>2, <1>3, <1>4, <1>5, <1>6, <1>7, <1>8, <1>9, <1>10, <1>11,
     <1>12, <1>13 DEF Next, IsrStep, MainStep

-----------------------------------------------------------------------------
(* An update needs a press of its own.                                     *)

\* A press is handed over and never doubled.
LEMMA StepUpdatesJustified == IInv /\ [Next]_vars => UpdatesJustified'
<1> SUFFICES ASSUME IInv, [Next]_vars, NEW c \in Button
             PROVE  (updates[c] + OnTheWay(c) <= presses[c])'
  BY DEF UpdatesJustified
<1>0. updates[c] + OnTheWay(c) <= presses[c]
  BY DEF IInv, UpdatesJustified
<1> USE DEF IInv, TypeOK, OnTheWay, Waiting, history, isrVars, mainVars
<1> DEFINE Goal == (updates[c] + OnTheWay(c) <= presses[c])'
<1>1. ASSUME NEW b \in Button, Press(b) PROVE Goal
  BY <1>0, <1>1 DEF Press
<1>2. CASE EnterIsr
  BY <1>0, <1>2 DEF EnterIsr
<1>3. CASE CheckPending
  BY <1>0, <1>3, NextPinType DEF CheckPending
<1>4. CASE AckRead
  BY <1>0, <1>4 DEF AckRead
<1>5. CASE AckWrite
  BY <1>0, <1>5 DEF AckWrite, AckedIsPending
<1>6. CASE CallBack
  BY <1>0, <1>6, NextPinType DEF CallBack
<1>7. CASE ArmButton
  BY <1>0, <1>7, NextButtonType DEF ArmButton
<1>8. CASE RegisterCallback
  BY <1>0, <1>8, NextButtonType DEF RegisterCallback
<1>9. CASE ReadClock \/ Delay
  BY <1>0, <1>9 DEF ReadClock, Delay
<1>10. CASE CheckFlag
  BY <1>0, <1>10, NextButtonType DEF CheckFlag
<1>11. CASE ClearFlag
  BY <1>0, <1>11 DEF ClearFlag, MainInPhase
<1>12. CASE Update
  BY <1>0, <1>12 DEF Update
<1>13. CASE Blink
  BY <1>0, <1>13, NextButtonType DEF Blink
<1>14. CASE UNCHANGED vars
  BY <1>0, <1>14 DEF vars
<1> QED
  BY <1>1, <1>2, <1>3, <1>4, <1>5, <1>6, <1>7, <1>8, <1>9, <1>10, <1>11,
     <1>12, <1>13, <1>14 DEF Next, IsrStep, MainStep

-----------------------------------------------------------------------------
(* A flag is served by the next pass of the super-loop.                    *)

\* A flag that is set behind the loop waits through one delay.
LEMMA StepServed == IInv /\ [Next]_vars => (ServedByNextPass /\ AgedIsAhead)'
<1> SUFFICES ASSUME IInv, [Next]_vars, NEW c \in Button
             PROVE  /\ (age[c] <= 1)'
                    /\ (g_evt[c] /\ age[c] = 1 => StillToCheck(c))'
  BY DEF ServedByNextPass, AgedIsAhead
<1>0. age[c] \in {0, 1} /\ (g_evt[c] /\ age[c] = 1 => StillToCheck(c))
  BY DEF IInv, TypeOK, ServedByNextPass, AgedIsAhead
<1> USE DEF IInv, TypeOK, StillToCheck, history, isrVars, mainVars
<1> DEFINE Goal == /\ (age[c] <= 1)'
                   /\ (g_evt[c] /\ age[c] = 1 => StillToCheck(c))'
<1>1. ASSUME NEW b \in Button, Press(b) PROVE Goal
  BY <1>0, <1>1 DEF Press
<1>2. CASE EnterIsr \/ CheckPending \/ AckRead \/ AckWrite
  BY <1>0, <1>2 DEF EnterIsr, CheckPending, AckRead, AckWrite
<1>3. CASE CallBack
  BY <1>0, <1>3 DEF CallBack
<1>4. CASE ArmButton
  BY <1>0, <1>4, NextButtonType DEF ArmButton
<1>5. CASE RegisterCallback
  BY <1>0, <1>5, NextButtonType DEF RegisterCallback
<1>6. CASE ReadClock
  BY <1>0, <1>6 DEF ReadClock, MainInPhase, Button
<1>7. CASE CheckFlag
  BY <1>0, <1>7, NextButtonType DEF CheckFlag, Button
<1>8. CASE ClearFlag
  BY <1>0, <1>8 DEF ClearFlag, Button
<1>9. CASE Update
  BY <1>0, <1>9 DEF Update, Button
<1>10. CASE Blink
  BY <1>0, <1>10, NextButtonType, NButtonsAssumption, SMTT(30) DEF Blink, Button
<1>11. CASE Delay
  BY <1>0, <1>11 DEF Delay
<1>12. CASE UNCHANGED vars
  BY <1>0, <1>12 DEF vars
<1> QED
  BY <1>1, <1>2, <1>3, <1>4, <1>5, <1>6, <1>7, <1>8, <1>9, <1>10, <1>11,
     <1>12 DEF Next, IsrStep, MainStep

-----------------------------------------------------------------------------
\* IInv is an invariant of the buttons.
THEOREM Invariance == Spec => []IInv
<1>1. IInv /\ [Next]_vars => IInv'
  BY StepTypeOK, StepAckedIsPending, StepNoOverlapMeansOne, StepMainInPhase,
     StepNoPressLost, StepUpdatesJustified, StepServed DEF IInv
<1> QED
  BY InitIInv, <1>1, PTL DEF Spec

\* The buttons are type correct.
THEOREM TypeCorrect == Spec => []TypeOK
<1>1. IInv => TypeOK
  BY DEF IInv
<1> QED
  BY Invariance, <1>1, PTL

\* However the handler interleaves with main() and with the user, a press is
\* on its way to its update unless two lines have been pending at once.
THEOREM NoPressIsLost == Spec => []NoPressLost
<1>1. IInv => NoPressLost
  BY DEF IInv
<1> QED
  BY Invariance, <1>1, PTL

\* No update is made without a press of its own.
THEOREM UpdatesAreJustified == Spec => []UpdatesJustified
<1>1. IInv => UpdatesJustified
  BY DEF IInv
<1> QED
  BY Invariance, <1>1, PTL

\* A flag waits through at most one delay of the super-loop.
THEOREM FlagsAreServed == Spec => []ServedByNextPass
<1>1. IInv => ServedByNextPass
  BY DEF IInv
<1> QED
  BY Invariance, <1>1, PTL

-----------------------------------------------------------------------------
(* The buttons implement the event register.                               *)

\* The initial states map to the register's.
LEMMA InitRefines == Init => Register!Init
BY DEF Init, Register!Init, Waiting

\* Every step is a step of the register or leaves it alone.
LEMMA StepRefines == IInv /\ [Next]_vars => [Register!Next]_Register!vars
<1> SUFFICES ASSUME IInv, [Next]_vars
             PROVE  Register!Next \/ UNCHANGED Register!vars
  OBVIOUS
<1> USE DEF IInv, TypeOK, history, isrVars, mainVars
<1> DEFINE P == [b \in Button |-> Waiting(b)]
           T == IF pc = "update" THEN {k} ELSE {}
<1>n. \A b \in Button : Waiting(b) \in Nat /\ Waiting(b)' \in Nat
  BY DEF Waiting
<1>t. P \in [Button -> Nat] /\ P' \in [Button -> Nat]
  BY DEF Waiting
<1>s. ASSUME UNCHANGED <<callbacks, T, updates>>,
             \A b \in Button : Waiting(b)' = Waiting(b)
      PROVE  UNCHANGED Register!vars
  BY <1>s DEF Register!vars
<1>1. ASSUME NEW b \in Button, Press(b)
      PROVE  Register!Next \/ UNCHANGED Register!vars
  <2>1. CASE b \in armed /\ b \notin pr
    <3>0. /\ Waiting(b)' = Waiting(b) + 1
          /\ \A c \in Button \ {b} : Waiting(c)' = Waiting(c)
      BY <1>1, <2>1 DEF Press, Waiting
    <3>1. P' = [P EXCEPT ![b] = @ + 1]
      BY <3>0
    <3>2. Register!Raise(b)
      BY <1>1, <3>1 DEF Press, Register!Raise
    <3> QED
      BY <3>2 DEF Register!Next
  <2>2. CASE b \notin armed \/ b \in pr
    BY <1>1, <2>2, <1>s DEF Press, Waiting
  <2> QED
    BY <2>1, <2>2
<1>2. CASE EnterIsr \/ AckRead
  BY <1>2, <1>s DEF EnterIsr, AckRead, Waiting
<1>3. CASE CheckPending
  BY <1>3, <1>s, NextPinType DEF CheckPending, Waiting
<1>4. CASE AckWrite
  <2>1. P'[pin] > 0 /\ \A b \in Button : P'[b] <= P[b]
    BY <1>4 DEF AckWrite, AckedIsPending, Waiting
  <2>2. Register!Lose
    BY <1>4, <1>t, <2>1 DEF AckWrite, Register!Lose
  <2> QED
    BY <2>2 DEF Register!Next
<1>5. CASE CallBack
  <2>a. pin \in callbacks => g_evt' = [g_evt EXCEPT ![pin] = TRUE]
    BY <1>5 DEF CallBack
  <2>b. pin \notin callbacks => g_evt' = g_evt
    <3>1. pin \notin callbacks => g_evt' = [g_evt EXCEPT ![pin] = g_evt[pin]]
      BY <1>5, Zenon DEF CallBack
    <3> QED
      BY <3>1
  <2>c. isr = "call" /\ isr' # "call" /\ pr' = pr
    BY <1>5, NextPinType DEF CallBack
  <2>1. CASE pin \in callbacks /\ ~g_evt[pin]
    <3>1. \A b \in Button : Waiting(b)' = Waiting(b)
      BY <2>a, <2>c, <2>1 DEF Waiting
    <3> QED
      BY <1>5, <3>1, <1>s DEF CallBack
  <2>2. CASE pin \in callbacks /\ g_evt[pin]
    <3>1. P'[pin] > 0 /\ \A b \in Button : P'[b] <= P[b]
      BY <2>a, <2>c, <2>2 DEF Waiting
    <3>2. Register!Lose
      BY <1>5, <1>t, <3>1 DEF CallBack, Register!Lose
    <3> QED
      BY <3>2 DEF Register!Next
  <2>3. CASE pin \notin callbacks
    <3>0. \A c \in Button :
            IF c = pin THEN Waiting(c) > 0 /\ Waiting(c)' = Waiting(c) - 1
                       ELSE Waiting(c)' = Waiting(c)
      <4>1. g_evt' = g_evt /\ pr' = pr /\ isr = "call" /\ isr' # "call"
        BY <2>b, <2>c, <2>3
      <4> QED
        BY <4>1 DEF Waiting
    <3>1. P[pin] > 0 /\ P' = [P EXCEPT ![pin] = @ - 1]
      BY <3>0, <1>n
    <3>2. Register!Ignore(pin)
      BY <1>5, <2>3, <3>1 DEF CallBack, Register!Ignore
    <3> QED
      BY <3>2 DEF Register!Next
  <2> QED
    BY <2>1, <2>2, <2>3
<1>6. CASE ArmButton
  <2>1. k \notin pr
    BY <1>6 DEF ArmButton, MainInPhase, Button
  <2> QED
    BY <1>6, <2>1, <1>s, NextButtonType DEF ArmButton, Waiting
<1>7. CASE RegisterCallback
  <2>1. P' = P
    BY <1>7 DEF RegisterCallback, Waiting
  <2>2. Register!Listen(k)
    BY <1>7, <2>1, NextButtonType DEF RegisterCallback, Register!Listen
  <2> QED
    BY <2>2 DEF Register!Next
<1>8. CASE ReadClock \/ Delay
  BY <1>8, <1>s DEF ReadClock, Delay, Waiting
<1>9. CASE CheckFlag \/ Blink
  BY <1>9, <1>s, NextButtonType DEF CheckFlag, Blink, Waiting
<1>10. CASE ClearFlag
  <2>0. \A c \in Button :
          IF c = k THEN Waiting(c) > 0 /\ Waiting(c)' = Waiting(c) - 1
                   ELSE Waiting(c)' = Waiting(c)
    BY <1>10 DEF ClearFlag, MainInPhase, Waiting
  <2>1. P[k] > 0 /\ P' = [P EXCEPT ![k] = @ - 1]
    BY <2>0, <1>n
  <2>2. Register!Take(k)
    BY <1>10, <2>1 DEF ClearFlag, Register!Take
  <2> QED
    BY <2>2 DEF Register!Next
<1>11. CASE Update
  <2>1. P' = P
    BY <1>11 DEF Update, Waiting
  <2>2. Register!Handle(k)
    BY <1>11, <2>1 DEF Update, Register!Handle
  <2> QED
    BY <2>2 DEF Register!Next
<1>12. CASE UNCHANGED vars
  BY <1>12, <1>s DEF vars, Waiting
<1> QED
  BY <1>1, <1>2, <1>3, <1>4, <1>5, <1>6, <1>7, <1>8, <1>9, <1>10, <1>11,
     <1>12 DEF Next, IsrStep, MainStep

\* The buttons, for any number of them, implement the safety part of the
\* event register.
THEOREM ImplementsEventRegister == Spec => Register!Spec
<1> QED
  BY Invariance, InitRefines, StepRefines, PTL DEF Spec, Register!Spec
=============================================================================
