-------------------------------- MODULE Clock --------------------------------
(***************************************************************************)
(* Start-up of the clock tree: init_rcc (main.c) with its three attempts,  *)
(* setup_system_config_rcc and what it calls (rcc.c), then the RTC clock   *)
(* that init_rtc asks for, up to the super-loop.                           *)
(*                                                                         *)
(* Two actors: the program, one register access per action; and the clock  *)
(* hardware, whose oscillator and PLL become ready late or never, and      *)
(* whose security system stops the program when the crystal fails.         *)
(*                                                                         *)
(* The internal oscillator HSI is on and ready from reset and no statement *)
(* that init_rcc reaches turns it off.  Frequencies are in MHz.            *)
(***************************************************************************)
EXTENDS Integers, Sequences

CONSTANT RtcTimeout   \* iterations of the wait for HSE of the RTC clock

ASSUME RtcTimeoutAssumption == RtcTimeout \in Nat \ {0}

VARIABLES
  \* The program.
  pc,        \* its next register access
  attempt,   \* the configuration being tried, 1 to 3
  cur,       \* SYSCLK when switch_to_pll_rcc read it
  timeout,   \* counter of the wait for HSE; -1 stands for 2^32 - 1
  \* Registers of RCC, FLASH and the backup domain.
  sw, sws,   \* the selected and the effective system clock
  pllOn, pllRdy, pllSrc, pllM,
  hseOn, hseRdy,
  hpre, ppre1, ppre2,   \* divisors of AHB, APB1 and APB2
  latency,   \* FLASH->ACR wait states
  rtcEn,     \* BDCR.RTCEN with RTCSEL = HSE
  \* The board.
  crystal,   \* "works" or "dead"
  pllWorks   \* whether the PLL can lock

program  == <<pc, attempt, cur, timeout>>
selector == <<sw, sws>>
pll      == <<pllOn, pllRdy, pllSrc, pllM>>
hse      == <<hseOn, hseRdy>>
dividers == <<hpre, ppre1, ppre2>>
board    == <<crystal, pllWorks>>
vars == <<pc, attempt, cur, timeout, sw, sws, pllOn, pllRdy, pllSrc, pllM,
          hseOn, hseRdy, hpre, ppre1, ppre2, latency, rtcEn, crystal, pllWorks>>

\* Mutated Attempts: the divisors of the second attempt are exchanged.
AttemptsExchanged ==
  << [clock |-> "PLL", osc |-> "HSE", m |-> 25, hpre |-> 1, ppre1 |-> 4, ppre2 |-> 2],
     [clock |-> "PLL", osc |-> "HSI", m |-> 16, hpre |-> 1, ppre1 |-> 2, ppre2 |-> 4],
     [clock |-> "HSI", osc |-> "HSI", m |-> 16, hpre |-> 1, ppre1 |-> 1, ppre2 |-> 1] >>

\* The three configurations of init_rcc.
Attempts ==
  << [clock |-> "PLL", osc |-> "HSE", m |-> 25, hpre |-> 1, ppre1 |-> 4, ppre2 |-> 2],
     [clock |-> "PLL", osc |-> "HSI", m |-> 16, hpre |-> 1, ppre1 |-> 4, ppre2 |-> 2],
     [clock |-> "HSI", osc |-> "HSI", m |-> 16, hpre |-> 1, ppre1 |-> 1, ppre2 |-> 1] >>

Config == Attempts[attempt]

OscFreq(osc) == IF osc = "HSE" THEN 25 ELSE 16

\* (input / PLLM) * PLLN / PLLP: PLLN is 336 and PLLP is 2 in every attempt.
PllFreq(osc, m) == ((OscFreq(osc) \div m) * 336) \div 2

Target == PllFreq(Config.osc, Config.m)

\* get_clock_frequencies
Sysclk == CASE sws = "HSI" -> OscFreq("HSI")
            [] sws = "HSE" -> OscFreq("HSE")
            [] sws = "PLL" -> PllFreq(pllSrc, pllM)
Hclk  == Sysclk \div hpre
Pclk1 == Hclk \div ppre1
Pclk2 == Hclk \div ppre2

\* calculate_USART_BRR, from APB2: a mantissa and sixteenths, the latter rounded
\* and cut to their four bits.
UartBaud == 115200
BrrMantissa == (Pclk2 * 1000000) \div (16 * UartBaud)
BrrFraction ==
  ((2 * Pclk2 * 1000000 + UartBaud) \div (2 * UartBaud) - 16 * BrrMantissa) % 16
Brr == 16 * BrrMantissa + BrrFraction

\* get_rtc_clock_freq in Hz: HSE by RTCPRE, which is 25 in every attempt.
RtcClk == (OscFreq("HSE") * 1000000) \div 25

\* calculate_prescalers_rtc: the first PREDIV_A that leaves PREDIV_S 15 bits.  In
\* an uint32_t 0 - 1 does not fit either.
PREDIV_S_MAX == 32767
Fits(f, a) == (f \div (a + 1)) - 1 \in 0 .. PREDIV_S_MAX
PredivA(f) ==
  IF \E a \in 0 .. 127 : Fits(f, a)
    THEN CHOOSE a \in 0 .. 127 : Fits(f, a) /\ \A b \in 0 .. a - 1 : ~Fits(f, b)
    ELSE 127
PredivS(f) == IF Fits(f, PredivA(f)) THEN (f \div (PredivA(f) + 1)) - 1 ELSE PREDIV_S_MAX

\* get_pll48clk_freq: PLLQ is 7 in every attempt.  It reads PLLCFGR only, whether
\* or not the PLL runs.
Pll48clk == ((OscFreq(pllSrc) \div pllM) * 336) \div 7

\* sdio_calc_clkcr_div, for a target in kHz: the divisor is CLKDIV + 2.
FREQ_400kHZ == 400
ClkDiv(target) ==
  LET div == (Pll48clk * 1000) \div target - 2 IN
    IF div < 0 THEN 0 ELSE IF div > 255 THEN 255 ELSE div

\* Mutated LatencyFor: the comparison with the limits is off by one row.
LatencyForOffByOne(f) ==
  CASE f <= 60 -> 0 [] f <= 90 -> 1 [] f <= 120 -> 2 [] f <= 150 -> 3
    [] f <= 168 -> 4 [] OTHER -> 5

\* set_flash_latency
LatencyFor(f) ==
  CASE f <= 30 -> 0 [] f <= 60 -> 1 [] f <= 90 -> 2 [] f <= 120 -> 3
    [] f <= 150 -> 4 [] f <= 168 -> 5 [] OTHER -> 6

\* Wait states that the flash needs at a clock of f MHz: one per 30 MHz begun,
\* the first excepted (2.7 V to 3.6 V).
WaitStatesNeeded(f) == (f - 1) \div 30

PcValues ==
  {"setup", "osc", "waitOsc", "clearLatency", "setLatency", "pllOff",
   "waitPllOff", "pllCfg", "pllOn", "waitPll", "select", "selectClear",
   "selectSet", "waitSws", "lower", "hseOff", "hsiPllOff", "divClear",
   "divApb1", "divApb2", "divAhb", "bdrst", "rtcOsc", "rtcWait", "rtcSel",
   "rtcInit", "running", "rccError", "rtcError", "halted"}

\* After a reset of the processor.
Init ==
  /\ pc = "setup" /\ attempt = 1 /\ cur = 0 /\ timeout = 0
  /\ sw = "HSI" /\ sws = "HSI"
  /\ pllOn = FALSE /\ pllRdy = FALSE /\ pllSrc = "HSI" /\ pllM = 16
  /\ hseOn = FALSE /\ hseRdy = FALSE
  /\ hpre = 1 /\ ppre1 = 1 /\ ppre2 = 1 /\ latency = 0 /\ rtcEn = FALSE
  /\ crystal \in {"works", "dead"} /\ pllWorks \in BOOLEAN

-----------------------------------------------------------------------------
(* The hardware.                                                           *)

HseStarts ==
  /\ hseOn /\ ~hseRdy /\ crystal = "works"
  /\ hseRdy' = TRUE
  /\ UNCHANGED <<program, selector, pll, hseOn, dividers, latency, rtcEn, board>>

HseStops ==
  /\ ~hseOn /\ hseRdy
  /\ hseRdy' = FALSE
  /\ UNCHANGED <<program, selector, pll, hseOn, dividers, latency, rtcEn, board>>

PllLocks ==
  /\ pllOn /\ ~pllRdy /\ pllWorks
  /\ pllSrc = "HSE" => hseRdy
  /\ pllRdy' = TRUE
  /\ UNCHANGED <<program, selector, pllOn, pllSrc, pllM, hse, dividers, latency,
                 rtcEn, board>>

PllStops ==
  /\ ~pllOn /\ pllRdy
  /\ pllRdy' = FALSE
  /\ UNCHANGED <<program, selector, pllOn, pllSrc, pllM, hse, dividers, latency,
                 rtcEn, board>>

\* SWS follows SW.
Switch ==
  /\ sws # sw
  /\ sws' = sw
  /\ UNCHANGED <<program, sw, pll, hse, dividers, latency, rtcEn, board>>

\* Mutated HseFails: CSSON is never set, nothing notices the failure.
HseFailsUnnoticed ==
  /\ hseRdy /\ hseOn
  /\ crystal' = "dead" /\ hseRdy' = FALSE
  /\ UNCHANGED <<program, selector, pll, hseOn, dividers, latency, rtcEn, pllWorks>>

\* The crystal fails.  The security system, enabled by CSSON before HSE is,
\* stops HSE and a PLL fed by it, falls back to HSI and raises the NMI, which
\* the startup file leaves to Default_Handler, an endless loop.
HseFails ==
  /\ hseRdy /\ hseOn
  /\ crystal' = "dead" /\ hseOn' = FALSE /\ hseRdy' = FALSE
  /\ IF pllSrc = "HSE"
       THEN /\ pllOn' = FALSE /\ pllRdy' = FALSE
            /\ sw' = "HSI" /\ sws' = "HSI"
       ELSE UNCHANGED <<pllOn, pllRdy, sw, sws>>
  /\ pc' = "halted"
  /\ UNCHANGED <<attempt, cur, timeout, pllSrc, pllM, dividers, latency, rtcEn, pllWorks>>

Hardware == HseStarts \/ HseStops \/ PllLocks \/ PllStops \/ Switch

-----------------------------------------------------------------------------
(* init_rcc and setup_system_config_rcc.                                   *)

At(label) == pc = label
Goto(label) == pc' = label /\ UNCHANGED <<attempt, cur, timeout>>

\* Mutated Fail: the last attempt is not made.
FailTwice ==
  /\ IF attempt < 2
       THEN pc' = "setup" /\ attempt' = attempt + 1
       ELSE pc' = "rccError" /\ UNCHANGED attempt
  /\ UNCHANGED <<cur, timeout>>

\* A status other than 0: init_rcc tries the next configuration; after the
\* last one init_board turns the LED on and main() stops.
Fail ==
  /\ IF attempt < 3
       THEN pc' = "setup" /\ attempt' = attempt + 1
       ELSE pc' = "rccError" /\ UNCHANGED attempt
  /\ UNCHANGED <<cur, timeout>>

\* The peripheral clocks are stopped and CSSON is set.
Setup ==
  /\ At("setup")
  /\ Goto(IF Config.clock = "PLL" THEN "osc" ELSE "select")
  /\ UNCHANGED <<selector, pll, hse, dividers, latency, rtcEn, board>>

\* switch_to_pll_rcc turns the oscillator of the PLL on unless it is on.
StartOsc ==
  /\ At("osc")
  /\ LET off == Config.osc = "HSE" /\ ~hseOn IN
       /\ hseOn' = (hseOn \/ off)
       /\ cur' = Sysclk
       /\ pc' = CASE off               -> "waitOsc"
                  [] Target > Sysclk   -> "clearLatency"
                  [] OTHER             -> "pllOff"
  /\ UNCHANGED <<attempt, timeout, selector, pll, hseRdy, dividers, latency,
                 rtcEn, board>>

\* wait_for_flags(HSERDY): ready in time ...
OscReady ==
  /\ At("waitOsc") /\ hseRdy
  /\ Goto(IF Target > Sysclk THEN "clearLatency" ELSE "pllOff")
  /\ UNCHANGED <<selector, pll, hse, dividers, latency, rtcEn, board>>

\* ... or not; the flag may still come later.
OscTimeout ==
  /\ At("waitOsc") /\ ~hseRdy
  /\ Fail
  /\ UNCHANGED <<selector, pll, hse, dividers, latency, rtcEn, board>>

\* set_flash_latency: ACR &= ~7, then ACR |= latency.
ClearLatency ==
  /\ At("clearLatency") /\ Goto("setLatency")
  /\ latency' = 0
  /\ UNCHANGED <<selector, pll, hse, dividers, rtcEn, board>>

SetLatency ==
  /\ At("setLatency") /\ Goto("pllOff")
  /\ latency' = LatencyFor(Target)
  /\ UNCHANGED <<selector, pll, hse, dividers, rtcEn, board>>

\* A PLL that is on is turned off, which the hardware ignores while it drives
\* the system clock.
PllOff ==
  /\ At("pllOff") /\ Goto(IF pllOn THEN "waitPllOff" ELSE "pllCfg")
  /\ pllOn' = (pllOn /\ (sw = "PLL" \/ sws = "PLL"))
  /\ UNCHANGED <<selector, pllRdy, pllSrc, pllM, hse, dividers, latency, rtcEn, board>>

PllIsOff ==
  /\ At("waitPllOff") /\ ~pllRdy /\ Goto("pllCfg")
  /\ UNCHANGED <<selector, pll, hse, dividers, latency, rtcEn, board>>

PllOffTimeout ==
  /\ At("waitPllOff") /\ pllRdy /\ Fail
  /\ UNCHANGED <<selector, pll, hse, dividers, latency, rtcEn, board>>

\* Mutated ConfigurePll: the old value of PLLM is not cleared before the new
\* one is or-ed in (25 is 16 + 8 + 1).
ConfigurePllOverOld ==
  /\ At("pllCfg")
  /\ IF pllOn THEN Fail /\ UNCHANGED <<pllSrc, pllM>>
              ELSE /\ Goto("pllOn") /\ pllSrc' = Config.osc
                   /\ pllM' = IF 25 \in {pllM, Config.m} THEN 25 ELSE 16
  /\ UNCHANGED <<selector, pllOn, pllRdy, hse, dividers, latency, rtcEn, board>>

\* configure_pll_rcc refuses to change a PLL that is on.
ConfigurePll ==
  /\ At("pllCfg")
  /\ IF pllOn THEN Fail /\ UNCHANGED <<pllSrc, pllM>>
              ELSE Goto("pllOn") /\ pllSrc' = Config.osc /\ pllM' = Config.m
  /\ UNCHANGED <<selector, pllOn, pllRdy, hse, dividers, latency, rtcEn, board>>

PllStart ==
  /\ At("pllOn") /\ Goto("waitPll")
  /\ pllOn' = TRUE
  /\ UNCHANGED <<selector, pllRdy, pllSrc, pllM, hse, dividers, latency, rtcEn, board>>

PllReady ==
  /\ At("waitPll") /\ pllRdy /\ Goto("select")
  /\ UNCHANGED <<selector, pll, hse, dividers, latency, rtcEn, board>>

PllTimeout ==
  /\ At("waitPll") /\ ~pllRdy /\ Fail
  /\ UNCHANGED <<selector, pll, hse, dividers, latency, rtcEn, board>>

\* select_sys_clock: only a clock that is ready is selected ...
Select ==
  /\ At("select")
  /\ IF Config.clock = "PLL" /\ ~pllRdy THEN Fail ELSE Goto("selectClear")
  /\ UNCHANGED <<selector, pll, hse, dividers, latency, rtcEn, board>>

\* ... with CFGR &= ~SW, which selects HSI ...
SelectClear ==
  /\ At("selectClear") /\ Goto("selectSet")
  /\ sw' = "HSI"
  /\ UNCHANGED <<sws, pll, hse, dividers, latency, rtcEn, board>>

\* ... and CFGR |= SW(src).
SelectSet ==
  /\ At("selectSet") /\ Goto("waitSws")
  /\ sw' = Config.clock
  /\ UNCHANGED <<sws, pll, hse, dividers, latency, rtcEn, board>>

\* The wait for SWS, of 1410065408 turns, outlasts any switch.
WaitSws ==
  /\ At("waitSws") /\ sws = Config.clock
  /\ Goto(IF Config.clock = "PLL" THEN "lower" ELSE "hseOff")
  /\ UNCHANGED <<selector, pll, hse, dividers, latency, rtcEn, board>>

\* switch_to_pll_rcc lowers the latency if the clock has become slower.
LowerLatency ==
  /\ At("lower") /\ Goto("divClear")
  /\ latency' = IF Target < cur THEN LatencyFor(Target) ELSE latency
  /\ UNCHANGED <<selector, pll, hse, dividers, rtcEn, board>>

\* switch_to_hsi_rcc turns HSE and the PLL off.
HseOff ==
  /\ At("hseOff") /\ Goto("hsiPllOff")
  /\ hseOn' = FALSE
  /\ UNCHANGED <<selector, pll, hseRdy, dividers, latency, rtcEn, board>>

HsiPllOff ==
  /\ At("hsiPllOff") /\ Goto("divClear")
  /\ pllOn' = FALSE
  /\ UNCHANGED <<selector, pllRdy, pllSrc, pllM, hse, dividers, latency, rtcEn, board>>

\* set_bus_dividers_rcc: the divisors are cleared together and set in turn.
DivClear ==
  /\ At("divClear") /\ Goto("divApb1")
  /\ hpre' = 1 /\ ppre1' = 1 /\ ppre2' = 1
  /\ UNCHANGED <<selector, pll, hse, latency, rtcEn, board>>

DivApb1 ==
  /\ At("divApb1") /\ Goto("divApb2")
  /\ ppre1' = Config.ppre1
  /\ UNCHANGED <<selector, pll, hse, hpre, ppre2, latency, rtcEn, board>>

DivApb2 ==
  /\ At("divApb2") /\ Goto("divAhb")
  /\ ppre2' = Config.ppre2
  /\ UNCHANGED <<selector, pll, hse, hpre, ppre1, latency, rtcEn, board>>

\* HPRE and RTCPRE; init_rcc has succeeded.  The LEDs, the timer, the UART and
\* the log come next.
DivAhb ==
  /\ At("divAhb") /\ Goto("bdrst")
  /\ hpre' = Config.hpre
  /\ UNCHANGED <<selector, pll, hse, ppre1, ppre2, latency, rtcEn, board>>

-----------------------------------------------------------------------------
(* init_rtc: configure_rtc_clock_rcc(RTC_SRC_HSE), then the wait for INITF. *)

\* The loop of 100000 turns, which outlasts the few cycles HSERDY takes to
\* follow HSEON; then BDCR |= BDRST; BDCR &= ~BDRST.
ResetBackupDomain ==
  /\ At("bdrst") /\ (hseRdy => hseOn) /\ Goto("rtcOsc")
  /\ rtcEn' = FALSE
  /\ UNCHANGED <<selector, pll, hse, dividers, latency, board>>

\* if (!HSERDY) CR |= HSEON
RtcOsc ==
  /\ At("rtcOsc")
  /\ pc' = IF hseRdy THEN "rtcSel" ELSE "rtcWait"
  /\ hseOn' = (hseOn \/ ~hseRdy)
  /\ timeout' = RtcTimeout
  /\ UNCHANGED <<attempt, cur, selector, pll, hseRdy, dividers, latency, rtcEn, board>>

\* Mutated RtcWait: while (!HSERDY && timeout-- >= 0), with a signed counter.
RtcWaitTooLong ==
  /\ At("rtcWait")
  /\ timeout' = IF hseRdy THEN timeout ELSE timeout - 1
  /\ pc' = CASE ~hseRdy /\ timeout >= 0 -> "rtcWait"
             [] timeout' = 0            -> "rtcError"
             [] OTHER                   -> "rtcSel"
  /\ UNCHANGED <<attempt, cur, selector, pll, hse, dividers, latency, rtcEn, board>>

\* One turn of while (!HSERDY && timeout--); the counter passes zero when the
\* loop gives up, and is zero when HSE has come at the last turn.
RtcWait ==
  /\ At("rtcWait")
  /\ timeout' = IF hseRdy THEN timeout ELSE timeout - 1
  /\ pc' = CASE ~hseRdy /\ timeout > 0 -> "rtcWait"
             [] timeout' = 0           -> "rtcError"
             [] OTHER                  -> "rtcSel"
  /\ UNCHANGED <<attempt, cur, selector, pll, hse, dividers, latency, rtcEn, board>>

\* Mutated RtcSelect: RTCEN is not set.
RtcSelectOnly ==
  /\ At("rtcSel") /\ Goto("rtcInit")
  /\ UNCHANGED <<rtcEn, selector, pll, hse, dividers, latency, board>>

\* RTCSEL = HSE, RTCEN = 1
RtcSelect ==
  /\ At("rtcSel") /\ Goto("rtcInit")
  /\ rtcEn' = TRUE
  /\ UNCHANGED <<selector, pll, hse, dividers, latency, board>>

\* while (!INITF): the RTC answers only while its clock runs.
RtcInit ==
  /\ At("rtcInit") /\ rtcEn /\ hseRdy /\ Goto("running")
  /\ UNCHANGED <<selector, pll, hse, dividers, latency, rtcEn, board>>

SetupStep ==
  \/ Setup
  \/ StartOsc
  \/ OscReady \/ OscTimeout
  \/ ClearLatency \/ SetLatency
  \/ PllOff \/ PllIsOff \/ PllOffTimeout
  \/ ConfigurePll
  \/ PllStart \/ PllReady \/ PllTimeout
  \/ Select \/ SelectClear \/ SelectSet \/ WaitSws
  \/ LowerLatency
  \/ HseOff \/ HsiPllOff
  \/ DivClear \/ DivApb1 \/ DivApb2 \/ DivAhb

RtcStep ==
  \/ ResetBackupDomain
  \/ RtcOsc
  \/ RtcWait
  \/ RtcSelect
  \/ RtcInit

Next == SetupStep \/ RtcStep \/ Hardware \/ HseFails

Spec == Init /\ [][Next]_vars

\* The processor executes, and hardware that works gets ready in the end.
Fairness ==
  /\ WF_vars(SetupStep \/ RtcStep)
  /\ WF_vars(HseStarts) /\ WF_vars(HseStops) /\ WF_vars(Switch)

FairSpec == Spec /\ Fairness

-----------------------------------------------------------------------------
(* Properties.                                                             *)

TypeOK ==
  /\ pc \in PcValues /\ attempt \in 1 .. 3 /\ cur \in {0, 16, 25, 168}
  /\ timeout \in -1 .. RtcTimeout
  /\ sw \in {"HSI", "HSE", "PLL"} /\ sws \in {"HSI", "HSE", "PLL"}
  /\ pllOn \in BOOLEAN /\ pllRdy \in BOOLEAN /\ pllSrc \in {"HSI", "HSE"}
  /\ pllM \in {16, 25}
  /\ hseOn \in BOOLEAN /\ hseRdy \in BOOLEAN
  /\ hpre \in {1} /\ ppre1 \in {1, 2, 4} /\ ppre2 \in {1, 2, 4}
  /\ latency \in 0 .. 7 /\ rtcEn \in BOOLEAN
  /\ crystal \in {"works", "dead"} /\ pllWorks \in BOOLEAN

\* The flash has enough wait states for HCLK at every instant, those between
\* the two writes of ACR and while an attempt is given up included.
FlashKeepsUp == latency >= WaitStatesNeeded(Hclk)

\* The clock that drives the processor is always one that runs.
SysclkRuns ==
  sws = "PLL" => pllOn /\ pllRdy /\ (pllSrc = "HSE" => hseOn /\ hseRdy)

\* The PLL is fed with 1 to 2 MHz whenever it is on, whichever attempts were
\* given up before and whatever they left in PLLCFGR.
PllInputInRange ==
  pllOn => pllM <= OscFreq(pllSrc) /\ OscFreq(pllSrc) <= 2 * pllM

\* init_rcc always ends with a clock: whatever fails, the third attempt works.
RccSucceeds == pc # "rccError"

\* What is derived from the clocks once init_rcc has succeeded, whichever attempt
\* it was and whatever those before it left in the registers: the buses keep their
\* limits (rcc.h:323-324); the baud rate is within 1 % of its value; a second of
\* the RTC is one to 10 parts per million; and the clock that init_sdio asks for is
\* no more than the 400 kHz of the identification of a card, if it runs.
AfterRcc == {"bdrst", "rtcOsc", "rtcWait", "rtcSel", "rtcInit", "running", "rtcError"}

Within(value, wanted, parts) == parts * (value - wanted) \in -wanted .. wanted

RatesInRange ==
  pc \in AfterRcc =>
    /\ Pclk1 <= 42 /\ Pclk2 <= 84
    /\ Within((Pclk2 * 1000000) \div Brr, UartBaud, 100)
    /\ LET second == (PredivA(RtcClk) + 1) * (PredivS(RtcClk) + 1) IN
         RtcClk - second \in 0 .. 10
    /\ pllOn /\ pllRdy => Pll48clk * 1000 <= FREQ_400kHZ * (ClkDiv(FREQ_400kHZ) + 2)

Concluded == pc \in {"running", "rccError", "rtcError", "halted"}

\* With a crystal that works, start-up ends in the super-loop or in a reported
\* error, whatever the PLL does and however late the crystal is.
StartupConcludes == <>(Concluded \/ crystal = "dead")

\* README.md:36 and main.c:102-106: a start-up that fails is reported by the
\* LED, so start-up ends with a dead crystal too.
FailureIsReported == <>Concluded
=============================================================================
