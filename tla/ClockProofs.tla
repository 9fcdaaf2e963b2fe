----------------------------- MODULE ClockProofs -----------------------------
(***************************************************************************)
(* Proofs about Clock, for every length of the wait for the crystal.       *)
(*                                                                         *)
(* An attempt may be given up at any of its steps, and the next one finds  *)
(* what it has left.  The inductive invariant IInv says what that can be:  *)
(* until an attempt selects its clock the processor runs from HSI, and     *)
(* what it selects has been running since.                                 *)
(***************************************************************************)
EXTENDS Clock, TLAPS

PllSteps == {"osc", "waitOsc", "clearLatency", "setLatency", "pllOff", "waitPllOff",
             "pllCfg", "pllOn", "waitPll"}
Before   == PllSteps \cup {"setup", "select", "selectClear", "selectSet"}
Selected == {"lower", "hseOff", "hsiPllOff", "divClear", "divApb1", "divApb2", "divAhb"}
              \cup AfterRcc

\* What the attempt selects: Config.clock, and the divisors that go with it.
Chosen   == IF attempt = 3 THEN "HSI" ELSE "PLL"
OnPll    == sw = "PLL" \/ sws = "PLL"
WithPll  == attempt # 3 /\ pc # "halted"

PllRuns  == pllOn /\ pllRdy /\ (pllSrc = "HSE" => hseOn /\ hseRdy)

\* The steps of the configurations, and the clock that each has selected.
Selection ==
  /\ pc \in Before => ~OnPll /\ cur \in {0, 16}
  /\ pc \in PllSteps \cup {"lower"} => attempt # 3
  /\ pc \in {"hseOff", "hsiPllOff"} => attempt = 3
  /\ pc \in Selected \cup {"waitSws"} => sw = Chosen
  /\ pc \in Selected => sws = Chosen
  /\ sw # "HSE" /\ sws # "HSE"
  /\ cur # 168 /\ pc # "rccError"

\* The PLL, which the first attempt finds off and each attempt turns off before
\* it changes it.
Pll ==
  /\ \/ pllSrc = "HSE" /\ pllM = 25
     \/ pllSrc = "HSI" /\ pllM = 16
  /\ OnPll => PllRuns
  /\ WithPll => (hseRdy => hseOn) /\ (pllRdy /\ pllSrc = "HSE" => hseOn /\ hseRdy)
  /\ attempt = 1 /\ pc \in {"setup", "osc", "waitOsc", "clearLatency", "setLatency", "pllOff"} =>
       ~pllOn /\ ~pllRdy
  /\ attempt = 1 => pc # "waitPllOff"
  /\ pc \in {"setup", "osc", "waitOsc", "clearLatency", "setLatency", "pllOff"} =>
       attempt = 3 \/ (pllRdy => pllOn)
  /\ pc = "waitPllOff" => ~pllOn
  /\ pc \in {"pllCfg", "pllOn"} => ~pllOn /\ ~pllRdy
  /\ pc \in {"waitPll", "select", "selectClear", "selectSet"} => attempt = 3 \/ pllOn
  /\ pc \in {"selectClear", "selectSet"} => attempt = 3 \/ pllRdy

\* The wait states and the divisors that go with the clock.
Settings ==
  /\ OnPll => latency = 5
  /\ pc \notin {"setup", "osc", "waitOsc", "clearLatency", "setLatency", "halted"} =>
       attempt = 3 \/ latency = 5
  /\ hpre = 1
  /\ pc \in {"divApb2", "divAhb"} \cup AfterRcc => ppre1 = (IF attempt = 3 THEN 1 ELSE 4)
  /\ pc \in {"divAhb"} \cup AfterRcc => ppre2 = (IF attempt = 3 THEN 1 ELSE 2)
  /\ pc = "rtcWait" => timeout >= 0

IInv == TypeOK /\ Selection /\ Pll /\ Settings


-----------------------------------------------------------------------------
\* The three configurations.
LEMMA ConfigIs ==
  ASSUME attempt \in 1 .. 3
  PROVE  /\ Config.clock = IF attempt = 3 THEN "HSI" ELSE "PLL"
         /\ Config.osc = IF attempt = 1 THEN "HSE" ELSE "HSI"
         /\ Config.m = IF attempt = 1 THEN 25 ELSE 16
         /\ Config.hpre = 1
         /\ Config.ppre1 = IF attempt = 3 THEN 1 ELSE 4
         /\ Config.ppre2 = IF attempt = 3 THEN 1 ELSE 2
BY DEF Config, Attempts

\* The PLL makes 168 MHz of either oscillator.
LEMMA PllFreqIs == PllFreq("HSE", 25) = 168 /\ PllFreq("HSI", 16) = 168
BY DEF PllFreq, OscFreq

\* What the next step of the program is about to use.
LEMMA Rates ==
  ASSUME IInv
  PROVE  /\ Sysclk = IF sws = "PLL" THEN 168 ELSE 16
         /\ attempt # 3 => Target = 168
         /\ LatencyFor(168) = 5
<1>1. Sysclk = IF sws = "PLL" THEN 168 ELSE 16
  BY PllFreqIs DEF Sysclk, OscFreq, IInv, TypeOK, Selection, Pll
<1>2. attempt # 3 => Target = 168
  BY ConfigIs, PllFreqIs DEF Target, IInv, TypeOK
<1> QED
  BY <1>1, <1>2 DEF LatencyFor

\* The invariant holds after a reset.
LEMMA InitIInv == Init => IInv
<1> SUFFICES ASSUME Init PROVE IInv
  OBVIOUS
<1>1. TypeOK
  <2>1. pllOn \in BOOLEAN /\ pllRdy \in BOOLEAN /\ hseOn \in BOOLEAN /\ hseRdy \in BOOLEAN /\
        rtcEn \in BOOLEAN
    BY Zenon DEF Init
  <2> QED
    BY <2>1, RtcTimeoutAssumption DEF Init, TypeOK, PcValues
<1>2. Selection
  BY DEF Init, Selection, Before, PllSteps, Selected, AfterRcc, OnPll
<1>3. Pll /\ Settings
  BY DEF Init, Pll, Settings, OnPll, WithPll, AfterRcc
<1> QED
  BY <1>1, <1>2, <1>3 DEF IInv

\* Type correctness of a step.
LEMMA StepTypeOK == IInv /\ [Next]_vars => TypeOK'
<1> SUFFICES ASSUME IInv, [Next]_vars PROVE TypeOK'
  OBVIOUS
<1> USE RtcTimeoutAssumption, ConfigIs, Rates DEF IInv, TypeOK, PcValues, At, Goto, Fail, program, selector, pll, hse, dividers, board
<1>1. CASE Setup
  BY <1>1 DEF Setup
<1>2. CASE StartOsc
  BY <1>2 DEF StartOsc
<1>3. CASE OscReady
  BY <1>3 DEF OscReady
<1>4. CASE OscTimeout
  BY <1>4 DEF OscTimeout
<1>5. CASE ClearLatency
  BY <1>5 DEF ClearLatency
<1>6. CASE SetLatency
  BY <1>6 DEF SetLatency, Selection, PllSteps
<1>7. CASE PllOff
  BY <1>7 DEF PllOff
<1>8. CASE PllIsOff
  BY <1>8 DEF PllIsOff
<1>9. CASE PllOffTimeout
  BY <1>9 DEF PllOffTimeout
<1>10. CASE ConfigurePll
  BY <1>10 DEF ConfigurePll
<1>11. CASE PllStart
  BY <1>11 DEF PllStart
<1>12. CASE PllReady
  BY <1>12 DEF PllReady
<1>13. CASE PllTimeout
  BY <1>13 DEF PllTimeout
<1>14. CASE Select
  BY <1>14 DEF Select
<1>15. CASE SelectClear
  BY <1>15 DEF SelectClear
<1>16. CASE SelectSet
  BY <1>16 DEF SelectSet
<1>17. CASE WaitSws
  BY <1>17 DEF WaitSws
<1>18. CASE LowerLatency
  BY <1>18 DEF LowerLatency, Selection, PllSteps
<1>19. CASE HseOff
  <2>1. hseOn' \in BOOLEAN
    BY <1>19, Zenon DEF HseOff
  <2> QED
    BY <1>19, <2>1 DEF HseOff
<1>20. CASE HsiPllOff
  <2>1. pllOn' \in BOOLEAN
    BY <1>20, Zenon DEF HsiPllOff
  <2> QED
    BY <1>20, <2>1 DEF HsiPllOff
<1>21. CASE DivClear
  BY <1>21 DEF DivClear
<1>22. CASE DivApb1
  BY <1>22 DEF DivApb1
<1>23. CASE DivApb2
  BY <1>23 DEF DivApb2
<1>24. CASE DivAhb
  BY <1>24 DEF DivAhb
<1>25. CASE ResetBackupDomain
  <2>1. rtcEn' \in BOOLEAN
    BY <1>25, Zenon DEF ResetBackupDomain
  <2> QED
    BY <1>25, <2>1 DEF ResetBackupDomain
<1>26. CASE RtcOsc
  BY <1>26 DEF RtcOsc
<1>27. CASE RtcWait
  BY <1>27 DEF RtcWait, Settings
<1>28. CASE RtcSelect
  BY <1>28 DEF RtcSelect
<1>29. CASE RtcInit
  BY <1>29 DEF RtcInit
<1>30. CASE HseStarts
  BY <1>30 DEF HseStarts
<1>31. CASE HseStops
  <2>1. hseRdy' \in BOOLEAN
    BY <1>31, Zenon DEF HseStops
  <2> QED
    BY <1>31, <2>1 DEF HseStops
<1>32. CASE PllLocks
  BY <1>32 DEF PllLocks
<1>33. CASE PllStops
  <2>1. pllRdy' \in BOOLEAN
    BY <1>33, Zenon DEF PllStops
  <2> QED
    BY <1>33, <2>1 DEF PllStops
<1>34. CASE Switch
  BY <1>34 DEF Switch
<1>35. CASE HseFails
  <2>1. hseOn' \in BOOLEAN /\ hseRdy' \in BOOLEAN
    BY <1>35, Zenon DEF HseFails
  <2>2. pllOn' \in BOOLEAN /\ pllRdy' \in BOOLEAN
    BY <1>35, Zenon DEF HseFails
  <2> QED
    BY <1>35, <2>1, <2>2 DEF HseFails
<1>36. CASE UNCHANGED vars
  BY <1>36 DEF vars
<1> QED
  BY <1>1, <1>2, <1>3, <1>4, <1>5, <1>6, <1>7, <1>8, <1>9, <1>10, <1>11,
     <1>12, <1>13, <1>14, <1>15, <1>16, <1>17, <1>18, <1>19, <1>20, <1>21, <1>22,
     <1>23, <1>24, <1>25, <1>26, <1>27, <1>28, <1>29, <1>30, <1>31, <1>32, <1>33,
     <1>34, <1>35, <1>36
     DEF Next, SetupStep, RtcStep, Hardware

\* A clock is selected once, and stays.
LEMMA StepSelection == IInv /\ [Next]_vars => Selection'
<1> SUFFICES ASSUME IInv, [Next]_vars PROVE Selection'
  OBVIOUS
<1> USE ConfigIs, Rates DEF IInv, TypeOK, Selection, Before, PllSteps, Selected, AfterRcc, Chosen, OnPll, At, Goto, Fail, program, selector, pll, hse, dividers, board
<1>1. CASE Setup
  BY <1>1 DEF Setup
<1>2. CASE StartOsc
  BY <1>2 DEF StartOsc
<1>3. CASE OscReady
  BY <1>3 DEF OscReady
<1>4. CASE OscTimeout
  BY <1>4 DEF OscTimeout
<1>5. CASE ClearLatency
  BY <1>5 DEF ClearLatency
<1>6. CASE SetLatency
  BY <1>6 DEF SetLatency
<1>7. CASE PllOff
  BY <1>7 DEF PllOff
<1>8. CASE PllIsOff
  BY <1>8 DEF PllIsOff
<1>9. CASE PllOffTimeout
  BY <1>9 DEF PllOffTimeout
<1>10. CASE ConfigurePll
  BY <1>10 DEF ConfigurePll
<1>11. CASE PllStart
  BY <1>11 DEF PllStart
<1>12. CASE PllReady
  BY <1>12 DEF PllReady
<1>13. CASE PllTimeout
  BY <1>13 DEF PllTimeout
<1>14. CASE Select
  BY <1>14 DEF Select
<1>15. CASE SelectClear
  BY <1>15 DEF SelectClear
<1>16. CASE SelectSet
  BY <1>16 DEF SelectSet
<1>17. CASE WaitSws
  BY <1>17 DEF WaitSws
<1>18. CASE LowerLatency
  BY <1>18 DEF LowerLatency
<1>19. CASE HseOff
  BY <1>19 DEF HseOff
<1>20. CASE HsiPllOff
  BY <1>20 DEF HsiPllOff
<1>21. CASE DivClear
  BY <1>21 DEF DivClear
<1>22. CASE DivApb1
  BY <1>22 DEF DivApb1
<1>23. CASE DivApb2
  BY <1>23 DEF DivApb2
<1>24. CASE DivAhb
  BY <1>24 DEF DivAhb
<1>25. CASE ResetBackupDomain
  BY <1>25 DEF ResetBackupDomain
<1>26. CASE RtcOsc
  BY <1>26 DEF RtcOsc
<1>27. CASE RtcWait
  BY <1>27 DEF RtcWait
<1>28. CASE RtcSelect
  BY <1>28 DEF RtcSelect
<1>29. CASE RtcInit
  BY <1>29 DEF RtcInit
<1>30. CASE HseStarts
  BY <1>30 DEF HseStarts
<1>31. CASE HseStops
  BY <1>31 DEF HseStops
<1>32. CASE PllLocks
  BY <1>32 DEF PllLocks
<1>33. CASE PllStops
  BY <1>33 DEF PllStops
<1>34. CASE Switch
  BY <1>34 DEF Switch
<1>35. CASE HseFails
  BY <1>35 DEF HseFails
<1>36. CASE UNCHANGED vars
  BY <1>36 DEF vars
<1> QED
  BY <1>1, <1>2, <1>3, <1>4, <1>5, <1>6, <1>7, <1>8, <1>9, <1>10, <1>11,
     <1>12, <1>13, <1>14, <1>15, <1>16, <1>17, <1>18, <1>19, <1>20, <1>21, <1>22,
     <1>23, <1>24, <1>25, <1>26, <1>27, <1>28, <1>29, <1>30, <1>31, <1>32, <1>33,
     <1>34, <1>35, <1>36
     DEF Next, SetupStep, RtcStep, Hardware

\* The PLL is off when it is changed, and on when it is used.
LEMMA StepPll == IInv /\ [Next]_vars => Pll'
<1> SUFFICES ASSUME IInv, [Next]_vars PROVE Pll'
  OBVIOUS
<1> USE ConfigIs DEF IInv, TypeOK, Selection, Before, PllSteps, Selected, AfterRcc, Chosen, OnPll, WithPll, PllRuns, Pll, At, Goto, Fail, program, selector, pll, hse, dividers, board
<1>1. CASE Setup
  BY <1>1 DEF Setup
<1>2. CASE StartOsc
  BY <1>2 DEF StartOsc
<1>3. CASE OscReady
  BY <1>3 DEF OscReady
<1>4. CASE OscTimeout
  BY <1>4 DEF OscTimeout
<1>5. CASE ClearLatency
  BY <1>5 DEF ClearLatency
<1>6. CASE SetLatency
  BY <1>6 DEF SetLatency
<1>7. CASE PllOff
  BY <1>7 DEF PllOff
<1>8. CASE PllIsOff
  BY <1>8 DEF PllIsOff
<1>9. CASE PllOffTimeout
  BY <1>9 DEF PllOffTimeout
<1>10. CASE ConfigurePll
  BY <1>10 DEF ConfigurePll
<1>11. CASE PllStart
  BY <1>11 DEF PllStart
<1>12. CASE PllReady
  BY <1>12 DEF PllReady
<1>13. CASE PllTimeout
  BY <1>13 DEF PllTimeout
<1>14. CASE Select
  BY <1>14 DEF Select
<1>15. CASE SelectClear
  BY <1>15 DEF SelectClear
<1>16. CASE SelectSet
  BY <1>16 DEF SelectSet
<1>17. CASE WaitSws
  BY <1>17 DEF WaitSws
<1>18. CASE LowerLatency
  BY <1>18 DEF LowerLatency
<1>19. CASE HseOff
  BY <1>19 DEF HseOff
<1>20. CASE HsiPllOff
  BY <1>20 DEF HsiPllOff
<1>21. CASE DivClear
  BY <1>21 DEF DivClear
<1>22. CASE DivApb1
  BY <1>22 DEF DivApb1
<1>23. CASE DivApb2
  BY <1>23 DEF DivApb2
<1>24. CASE DivAhb
  BY <1>24 DEF DivAhb
<1>25. CASE ResetBackupDomain
  BY <1>25 DEF ResetBackupDomain
<1>26. CASE RtcOsc
  BY <1>26 DEF RtcOsc
<1>27. CASE RtcWait
  BY <1>27 DEF RtcWait
<1>28. CASE RtcSelect
  BY <1>28 DEF RtcSelect
<1>29. CASE RtcInit
  BY <1>29 DEF RtcInit
<1>30. CASE HseStarts
  BY <1>30 DEF HseStarts
<1>31. CASE HseStops
  BY <1>31 DEF HseStops
<1>32. CASE PllLocks
  BY <1>32 DEF PllLocks
<1>33. CASE PllStops
  BY <1>33 DEF PllStops
<1>34. CASE Switch
  BY <1>34 DEF Switch
<1>35. CASE HseFails
  BY <1>35 DEF HseFails
<1>36. CASE UNCHANGED vars
  BY <1>36 DEF vars
<1> QED
  BY <1>1, <1>2, <1>3, <1>4, <1>5, <1>6, <1>7, <1>8, <1>9, <1>10, <1>11,
     <1>12, <1>13, <1>14, <1>15, <1>16, <1>17, <1>18, <1>19, <1>20, <1>21, <1>22,
     <1>23, <1>24, <1>25, <1>26, <1>27, <1>28, <1>29, <1>30, <1>31, <1>32, <1>33,
     <1>34, <1>35, <1>36
     DEF Next, SetupStep, RtcStep, Hardware

\* The wait states come before the clock.
LEMMA StepSettings == IInv /\ [Next]_vars => Settings'
<1> SUFFICES ASSUME IInv, [Next]_vars PROVE Settings'
  OBVIOUS
<1> USE ConfigIs, Rates, RtcTimeoutAssumption DEF IInv, TypeOK, Selection, Before, PllSteps, Selected, AfterRcc, Chosen, OnPll, Settings, At, Goto, Fail, program, selector, pll, hse, dividers, board
<1>1. CASE Setup
  BY <1>1 DEF Setup
<1>2. CASE StartOsc
  BY <1>2 DEF StartOsc
<1>3. CASE OscReady
  BY <1>3 DEF OscReady
<1>4. CASE OscTimeout
  BY <1>4 DEF OscTimeout
<1>5. CASE ClearLatency
  BY <1>5 DEF ClearLatency
<1>6. CASE SetLatency
  BY <1>6 DEF SetLatency
<1>7. CASE PllOff
  BY <1>7 DEF PllOff
<1>8. CASE PllIsOff
  BY <1>8 DEF PllIsOff
<1>9. CASE PllOffTimeout
  BY <1>9 DEF PllOffTimeout
<1>10. CASE ConfigurePll
  BY <1>10 DEF ConfigurePll
<1>11. CASE PllStart
  BY <1>11 DEF PllStart
<1>12. CASE PllReady
  BY <1>12 DEF PllReady
<1>13. CASE PllTimeout
  BY <1>13 DEF PllTimeout
<1>14. CASE Select
  BY <1>14 DEF Select
<1>15. CASE SelectClear
  BY <1>15 DEF SelectClear
<1>16. CASE SelectSet
  BY <1>16 DEF SelectSet
<1>17. CASE WaitSws
  BY <1>17 DEF WaitSws
<1>18. CASE LowerLatency
  BY <1>18 DEF LowerLatency
<1>19. CASE HseOff
  BY <1>19 DEF HseOff
<1>20. CASE HsiPllOff
  BY <1>20 DEF HsiPllOff
<1>21. CASE DivClear
  BY <1>21 DEF DivClear
<1>22. CASE DivApb1
  BY <1>22 DEF DivApb1
<1>23. CASE DivApb2
  BY <1>23 DEF DivApb2
<1>24. CASE DivAhb
  BY <1>24 DEF DivAhb
<1>25. CASE ResetBackupDomain
  BY <1>25 DEF ResetBackupDomain
<1>26. CASE RtcOsc
  BY <1>26 DEF RtcOsc
<1>27. CASE RtcWait
  BY <1>27 DEF RtcWait
<1>28. CASE RtcSelect
  BY <1>28 DEF RtcSelect
<1>29. CASE RtcInit
  BY <1>29 DEF RtcInit
<1>30. CASE HseStarts
  BY <1>30 DEF HseStarts
<1>31. CASE HseStops
  BY <1>31 DEF HseStops
<1>32. CASE PllLocks
  BY <1>32 DEF PllLocks
<1>33. CASE PllStops
  BY <1>33 DEF PllStops
<1>34. CASE Switch
  BY <1>34 DEF Switch
<1>35. CASE HseFails
  BY <1>35 DEF HseFails
<1>36. CASE UNCHANGED vars
  BY <1>36 DEF vars
<1> QED
  BY <1>1, <1>2, <1>3, <1>4, <1>5, <1>6, <1>7, <1>8, <1>9, <1>10, <1>11,
     <1>12, <1>13, <1>14, <1>15, <1>16, <1>17, <1>18, <1>19, <1>20, <1>21, <1>22,
     <1>23, <1>24, <1>25, <1>26, <1>27, <1>28, <1>29, <1>30, <1>31, <1>32, <1>33,
     <1>34, <1>35, <1>36
     DEF Next, SetupStep, RtcStep, Hardware

\* The invariant holds: it is inductive.
THEOREM Invariance == Spec => []IInv
<1>1. IInv /\ [Next]_vars => IInv'
  BY StepTypeOK, StepSelection, StepPll, StepSettings DEF IInv
<1> QED
  BY InitIInv, <1>1, PTL DEF Spec

\* Every variable keeps its type: the divisors and the wait states are those that
\* the registers can hold.
THEOREM TypeCorrect == Spec => []TypeOK
<1>1. IInv => TypeOK
  BY DEF IInv
<1> QED
  BY Invariance, <1>1, PTL

\* set_flash_latency comes early enough and late enough: the flash has the wait
\* states of HCLK at every instant, whatever attempts are given up.
THEOREM FlashIsFastEnough == Spec => []FlashKeepsUp
<1>1. IInv => FlashKeepsUp
  <2> SUFFICES ASSUME IInv PROVE FlashKeepsUp
    OBVIOUS
  <2>1. Hclk = IF sws = "PLL" THEN 168 ELSE 16
    BY Rates DEF Hclk, IInv, Settings
  <2>2. latency \in Nat /\ (sws = "PLL" => latency = 5)
    BY DEF IInv, TypeOK, Settings, OnPll
  <2>3. (168 - 1) \div 30 = 5 /\ (16 - 1) \div 30 = 0
    BY SMT
  <2> QED
    BY <2>1, <2>2, <2>3 DEF FlashKeepsUp, WaitStatesNeeded
<1> QED
  BY Invariance, <1>1, PTL

\* select_sys_clock and switch_to_hsi_rcc never leave the processor with a clock
\* that is stopped, and the PLL that drives it has its input.
THEOREM ProcessorHasItsClock == Spec => []SysclkRuns
<1>1. IInv => SysclkRuns
  BY DEF IInv, Pll, OnPll, PllRuns, SysclkRuns
<1> QED
  BY Invariance, <1>1, PTL

\* configure_pll_rcc never leaves a source and a divisor that do not go together.
THEOREM PllIsFedInRange == Spec => []PllInputInRange
<1>1. IInv => PllInputInRange
  BY DEF IInv, Pll, PllInputInRange, OscFreq
<1> QED
  BY Invariance, <1>1, PTL

\* init_rcc does not fail: its third attempt has nothing to wait for.
THEOREM RccAlwaysSucceeds == Spec => []RccSucceeds
<1>1. IInv => RccSucceeds
  BY DEF IInv, Selection, RccSucceeds
<1> QED
  BY Invariance, <1>1, PTL

-----------------------------------------------------------------------------
(* What is derived from the clocks.                                        *)

\* A quotient is at least what fits into the dividend.
LEMMA DivAtLeast ==
  ASSUME NEW s \in Nat \ {0}, NEW q \in Nat, NEW n \in Nat, q * s <= n
  PROVE  n \div s \in Nat /\ q <= n \div s
OBVIOUS

\* A prescaler that is too small leaves PREDIV_S more than 15 bits.
LEMMA NotFits ==
  ASSUME NEW f \in Nat, NEW a \in Nat, 32769 * (a + 1) <= f
  PROVE  ~Fits(f, a)
<1> SUFFICES ASSUME Fits(f, a) PROVE FALSE
  OBVIOUS
<1>1. PICK q \in Nat : q = f \div (a + 1) /\ 32769 <= q
  <2>1. a + 1 \in Nat \ {0}
    OBVIOUS
  <2> QED
    BY <2>1, DivAtLeast, SMT
<1>2. q - 1 <= PREDIV_S_MAX
  <2>1. PREDIV_S_MAX \in Int
    BY DEF PREDIV_S_MAX
  <2>2. q - 1 \in 0 .. PREDIV_S_MAX
    BY <1>1, SMT DEF Fits
  <2> QED
    BY <2>1, <2>2, SMT
<1> QED
  BY <1>1, <1>2, SMT DEF PREDIV_S_MAX

\* What calculate_prescalers_rtc finds for 1 MHz.
LEMMA Prescalers == PredivA(1000000) = 30 /\ PredivS(1000000) = 32257
<1>1. ASSUME NEW b \in 0 .. 29 PROVE ~Fits(1000000, b)
  <2>1. b \in Nat /\ 32769 * (b + 1) <= 1000000 /\ 1000000 \in Nat
    BY SMT
  <2> QED
    BY <2>1, NotFits, SMT
<1>2. Fits(1000000, 30)
  BY SMT DEF Fits, PREDIV_S_MAX
<1>3. PredivA(1000000) = 30
  BY <1>1, <1>2, SMT DEF PredivA
<1> QED
  BY <1>2, <1>3, SMT DEF PredivS

\* The bounds of Within, one at a time.
LEMMA WithinBounds ==
  ASSUME NEW value \in Int, NEW wanted \in Nat, NEW parts \in Nat,
         parts * (value - wanted) <= wanted, -wanted <= parts * (value - wanted)
  PROVE  Within(value, wanted, parts)
BY DEF Within

\* calculate_USART_BRR for the two clocks of APB2.
LEMMA BaudRate ==
  /\ Pclk2 = 84 => Within((Pclk2 * 1000000) \div Brr, UartBaud, 100)
  /\ Pclk2 = 16 => Within((Pclk2 * 1000000) \div Brr, UartBaud, 100)
<1>1. ASSUME Pclk2 = 84 PROVE Within((Pclk2 * 1000000) \div Brr, UartBaud, 100)
  <2>1. BrrMantissa = 45
    BY <1>1, SMT DEF BrrMantissa, UartBaud
  <2>2. BrrFraction = 9
    BY <1>1, <2>1, SMT DEF BrrFraction, UartBaud
  <2>3. (Pclk2 * 1000000) \div Brr = 115226
    BY <1>1, <2>1, <2>2, SMT DEF Brr
  <2> QED
    BY <2>3, WithinBounds, SMT DEF UartBaud
<1>2. ASSUME Pclk2 = 16 PROVE Within((Pclk2 * 1000000) \div Brr, UartBaud, 100)
  <2>1. BrrMantissa = 8
    BY <1>2, SMT DEF BrrMantissa, UartBaud
  <2>2. BrrFraction = 11
    BY <1>2, <2>1, SMT DEF BrrFraction, UartBaud
  <2>3. (Pclk2 * 1000000) \div Brr = 115107
    BY <1>2, <2>1, <2>2, SMT DEF Brr
  <2> QED
    BY <2>3, WithinBounds, SMT DEF UartBaud
<1> QED
  BY <1>1, <1>2, SMT

\* init_uart, init_rtc and init_sdio compute what they need from the
\* clocks that init_rcc has set up, by whichever attempt.
THEOREM RatesAreInRange == Spec => []RatesInRange
<1>1. IInv => RatesInRange
  <2> SUFFICES ASSUME IInv, pc \in AfterRcc PROVE RatesInRange
    BY DEF RatesInRange
  <2>1. /\ sws = Chosen /\ attempt \in 1 .. 3 /\ hpre = 1
        /\ ppre1 = IF attempt = 3 THEN 1 ELSE 4
        /\ ppre2 = IF attempt = 3 THEN 1 ELSE 2
    BY DEF IInv, TypeOK, Selection, Selected, Settings
  <2>2. Hclk = IF attempt = 3 THEN 16 ELSE 168
    BY <2>1, Rates DEF Hclk, Chosen
  <2>3. /\ Pclk1 = IF attempt = 3 THEN 16 ELSE 42
        /\ Pclk2 = IF attempt = 3 THEN 16 ELSE 84
    BY <2>1, <2>2 DEF Pclk1, Pclk2
  <2>4. Within((Pclk2 * 1000000) \div Brr, UartBaud, 100)
    BY <2>3, BaudRate, SMT
  <2>5. RtcClk = 1000000
    BY SMT DEF RtcClk, OscFreq
  <2>6. RtcClk - ((PredivA(RtcClk) + 1) * (PredivS(RtcClk) + 1)) = 2
    BY <2>5, Prescalers, SMT
  <2>7. Pll48clk = 48
    BY SMT DEF Pll48clk, OscFreq, IInv, Pll
  <2>8. Pll48clk * 1000 <= FREQ_400kHZ * (ClkDiv(FREQ_400kHZ) + 2)
    BY <2>7, SMT DEF ClkDiv, FREQ_400kHZ
  <2> QED
    BY <2>3, <2>4, <2>6, <2>8, SMT DEF RatesInRange
<1> QED
  BY Invariance, <1>1, PTL
=============================================================================
