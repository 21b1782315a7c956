----------------------------- MODULE Supervisor -----------------------------
(***************************************************************************)
(* The Tiny1P5 supervisor FPGA: three heartbeat watchdogs and the safety    *)
(* state machine that drives secure_enable, zeroize_n and tiny_fault_n.     *)
(*                                                                          *)
(* One step is one cycle of clk_27m out of reset.  The two-flop             *)
(* synchronisers and the button debouncers only delay the asynchronous      *)
(* pins, so a cycle reads its conditioned inputs from the set Inputs;       *)
(* tick_ms_i is one of them.                                                *)
(***************************************************************************)
EXTENDS Naturals

CONSTANTS
  HB_TIMEOUT_MS,         \* silent ticks that make a heartbeat time out
  STARTUP_ZEROIZE_MS,    \* ticks the start-up zeroize lasts
  STARTUP_GRACE_MS,      \* uptime at which the watchdogs are armed
  QUALIFY_MS,            \* healthy ticks required before secure_enable
  ZEROIZE_HOLD_MS,       \* ticks the fault zeroize is held
  RECOVERY_QUALIFY_MS,   \* clean ticks required to clear a fault
  UPTIME_MOD,            \* 2^32 in the RTL: the uptime counter wraps
  MaxUpsets              \* bound on the corruptions of the state register

ASSUME SupervisorAssumption ==
  /\ {HB_TIMEOUT_MS, STARTUP_ZEROIZE_MS, QUALIFY_MS, ZEROIZE_HOLD_MS,
      RECOVERY_QUALIFY_MS} \subseteq Nat \ {0}
  /\ STARTUP_GRACE_MS \in Nat
  /\ UPTIME_MOD \in Nat /\ UPTIME_MOD > STARTUP_GRACE_MS + 1
  /\ MaxUpsets \in Nat

VARIABLES
  rst_n,        \* rst_ni_q: FALSE while the internal power-on reset runs
  state,        \* state_q
  uptime,       \* uptime_ms_q
  timer,        \* state_timer_ms_q
  error,        \* error_code_q
  firstTime,    \* first_fault_time_ms_q
  fault,        \* fault_latched_q
  age,          \* age_ms_q of each watchdog
  seen,         \* seen_o of each watchdog
  upsets,       \* state-register corruptions so far
  clean         \* history: ticks since a fault input or a sick heartbeat

vars == <<rst_n, state, uptime, timer, error, firstTime, fault, age, seen,
          upsets, clean>>

Channels == {"mcu", "pqc", "crypto"}

States == {"STARTUP", "QUALIFY", "MONITOR", "ZEROIZE", "SAFE_LOCKED",
           "RECOVERY_QUALIFY", "ILLEGAL"}

Errors == {"NONE", "TAMPER", "MANUAL_FAULT", "AUTH_THRESHOLD", "HB_MCU_TIMEOUT",
           "HB_PQC_TIMEOUT", "HB_CRYPTO_TIMEOUT", "SUP_ILLEGAL_STATE"}

(* What one clock cycle sees on its conditioned inputs; beats is the set of *)
(* heartbeat lines on which this cycle observes a transition.               *)
Inputs == [tick: BOOLEAN, beats: SUBSET Channels, tamper: BOOLEAN,
           manual: BOOLEAN, crypto: BOOLEAN, clear: BOOLEAN]

-----------------------------------------------------------------------------
(* Heartbeat watchdogs. *)

Armed == uptime >= STARTUP_GRACE_MS

(* Mutant: compares past the value at which age_ms_q saturates. *)
TimedOut_OffByOne(c) == Armed /\ age[c] > HB_TIMEOUT_MS

TimedOut(c) == Armed /\ age[c] >= HB_TIMEOUT_MS

Healthy(c) == seen[c] /\ ~TimedOut(c)

AllHealthy == \A c \in Channels : Healthy(c)

(* Mutant: the age counter does not saturate. *)
Watch_NoSaturation(in) ==
  /\ age' = [c \in Channels |-> IF c \in in.beats THEN 0
                                ELSE IF in.tick THEN age[c] + 1 ELSE age[c]]
  /\ seen' = [c \in Channels |-> seen[c] \/ c \in in.beats]

Watch(in) ==
  /\ age' = [c \in Channels |->
               CASE c \in in.beats -> 0
                 [] c \notin in.beats /\ in.tick /\ age[c] < HB_TIMEOUT_MS -> age[c] + 1
                 [] OTHER -> age[c]]
  /\ seen' = [c \in Channels |-> seen[c] \/ c \in in.beats]

-----------------------------------------------------------------------------
(* Fatal requests, in the fixed priority of the combinational encoder. *)

FaultInput(in) == in.tamper \/ in.manual \/ in.crypto

FatalRequest(in) == FaultInput(in) \/ \E c \in Channels : TimedOut(c)

FatalCode(in) ==
  CASE in.tamper -> "TAMPER"
    [] ~in.tamper /\ in.manual -> "MANUAL_FAULT"
    [] ~in.tamper /\ ~in.manual /\ in.crypto -> "AUTH_THRESHOLD"
    [] ~FaultInput(in) /\ TimedOut("mcu") -> "HB_MCU_TIMEOUT"
    [] ~FaultInput(in) /\ ~TimedOut("mcu") /\ TimedOut("pqc") -> "HB_PQC_TIMEOUT"
    [] OTHER -> "HB_CRYPTO_TIMEOUT"

(* Mutant: a later fault overwrites the capture registers. *)
Latch_Overwrites(code) == fault' = TRUE /\ error' = code /\ firstTime' = uptime

(* The first fatal code and its time stay until recovery clears them. *)
Latch(code) ==
  /\ fault' = TRUE
  /\ IF fault THEN UNCHANGED <<error, firstTime>>
              ELSE error' = code /\ firstTime' = uptime

EnterZeroize(code) ==
  /\ Latch(code)
  /\ state' = "ZEROIZE"
  /\ timer' = 0

Stay == UNCHANGED <<state, fault, error, firstTime>>

(* The state timer counts ticks; its last tick of a phase of n ticks. *)
LastTick(in, n) == in.tick /\ (n <= 1 \/ timer >= n - 1)

Count(in) == timer' = IF in.tick THEN timer + 1 ELSE timer

-----------------------------------------------------------------------------
(* One action per state of the machine. *)

(* Mutant: the start-up zeroize is released straight into MONITOR. *)
Startup_Enables(in) ==
  /\ state = "STARTUP"
  /\ \/ FatalRequest(in) /\ EnterZeroize(FatalCode(in))
     \/ /\ ~FatalRequest(in) /\ LastTick(in, STARTUP_ZEROIZE_MS)
        /\ state' = "MONITOR" /\ timer' = 0
        /\ UNCHANGED <<fault, error, firstTime>>
     \/ ~FatalRequest(in) /\ ~LastTick(in, STARTUP_ZEROIZE_MS) /\ Count(in) /\ Stay

Startup(in) ==
  /\ state = "STARTUP"
  /\ \/ FatalRequest(in) /\ EnterZeroize(FatalCode(in))
     \/ /\ ~FatalRequest(in) /\ LastTick(in, STARTUP_ZEROIZE_MS)
        /\ state' = "QUALIFY" /\ timer' = 0
        /\ UNCHANGED <<fault, error, firstTime>>
     \/ ~FatalRequest(in) /\ ~LastTick(in, STARTUP_ZEROIZE_MS) /\ Count(in) /\ Stay

(* Mutant: the qualification counts ticks before the heartbeats are seen. *)
Qualify_AnyTick(in) ==
  /\ state = "QUALIFY"
  /\ \/ FatalRequest(in) /\ EnterZeroize(FatalCode(in))
     \/ /\ ~FatalRequest(in) /\ AllHealthy /\ Armed /\ LastTick(in, QUALIFY_MS)
        /\ state' = "MONITOR" /\ timer' = 0
        /\ UNCHANGED <<fault, error, firstTime>>
     \/ /\ ~FatalRequest(in) /\ ~(AllHealthy /\ Armed /\ LastTick(in, QUALIFY_MS))
        /\ Count(in) /\ Stay

Qualify(in) ==
  /\ state = "QUALIFY"
  /\ \/ FatalRequest(in) /\ EnterZeroize(FatalCode(in))
     \/ ~FatalRequest(in) /\ ~(Armed /\ AllHealthy) /\ timer' = 0 /\ Stay
     \/ /\ ~FatalRequest(in) /\ Armed /\ AllHealthy /\ LastTick(in, QUALIFY_MS)
        /\ state' = "MONITOR" /\ timer' = 0
        /\ UNCHANGED <<fault, error, firstTime>>
     \/ /\ ~FatalRequest(in) /\ Armed /\ AllHealthy /\ ~LastTick(in, QUALIFY_MS)
        /\ Count(in) /\ Stay

Monitor(in) ==
  /\ state = "MONITOR"
  /\ \/ FatalRequest(in) /\ EnterZeroize(FatalCode(in))
     \/ ~FatalRequest(in) /\ UNCHANGED timer /\ Stay

Zeroize(in) ==
  /\ state = "ZEROIZE"
  /\ UNCHANGED <<fault, error, firstTime>>
  /\ \/ LastTick(in, ZEROIZE_HOLD_MS) /\ state' = "SAFE_LOCKED" /\ timer' = 0
     \/ ~LastTick(in, ZEROIZE_HOLD_MS) /\ state' = state /\ Count(in)

(* Mutant: the clear pulse resumes monitoring without recovery. *)
SafeLocked_Resumes(in) ==
  /\ state = "SAFE_LOCKED"
  /\ timer' = 0
  /\ UNCHANGED <<fault, error, firstTime>>
  /\ state' = IF in.clear /\ ~FaultInput(in) /\ AllHealthy THEN "MONITOR" ELSE state

SafeLocked(in) ==
  /\ state = "SAFE_LOCKED"
  /\ timer' = 0
  /\ UNCHANGED <<fault, error, firstTime>>
  /\ state' = IF in.clear /\ ~FaultInput(in) /\ AllHealthy
              THEN "RECOVERY_QUALIFY" ELSE state

(* Mutant: recovery forgets to clear the latched fault. *)
RecoveryQualify_KeepsFault(in) ==
  /\ state = "RECOVERY_QUALIFY"
  /\ state' = IF LastTick(in, RECOVERY_QUALIFY_MS) THEN "STARTUP" ELSE state
  /\ timer' = IF LastTick(in, RECOVERY_QUALIFY_MS) THEN 0 ELSE timer + 1
  /\ UNCHANGED <<fault, error, firstTime>>

(* Mutant: recovery does not watch its inputs while it counts. *)
RecoveryQualify_Blind(in) ==
  /\ state = "RECOVERY_QUALIFY"
  /\ \/ /\ LastTick(in, RECOVERY_QUALIFY_MS)
        /\ fault' = FALSE /\ error' = "NONE" /\ firstTime' = 0
        /\ state' = "STARTUP" /\ timer' = 0
     \/ ~LastTick(in, RECOVERY_QUALIFY_MS) /\ Count(in) /\ Stay

RecoveryQualify(in) ==
  /\ state = "RECOVERY_QUALIFY"
  /\ LET sick == FaultInput(in) \/ ~AllHealthy IN
     \/ /\ sick /\ state' = "SAFE_LOCKED" /\ timer' = 0
        /\ UNCHANGED <<fault, error, firstTime>>
     \/ /\ ~sick /\ LastTick(in, RECOVERY_QUALIFY_MS)
        /\ fault' = FALSE /\ error' = "NONE" /\ firstTime' = 0
        /\ state' = "STARTUP" /\ timer' = 0
     \/ ~sick /\ ~LastTick(in, RECOVERY_QUALIFY_MS) /\ Count(in) /\ Stay

(* The default arm of the case: an encoding no legal state has. *)
IllegalState(in) ==
  /\ state = "ILLEGAL"
  /\ EnterZeroize("SUP_ILLEGAL_STATE")

Clock(in) ==
  /\ rst_n
  /\ \/ Startup(in) \/ Qualify(in) \/ Monitor(in) \/ Zeroize(in)
     \/ SafeLocked(in) \/ RecoveryQualify(in) \/ IllegalState(in)
  /\ Watch(in)
  /\ uptime' = IF in.tick THEN (uptime + 1) % UPTIME_MOD ELSE uptime
  /\ clean' = CASE FaultInput(in) \/ ~AllHealthy -> 0
                [] ~(FaultInput(in) \/ ~AllHealthy) /\ in.tick
                     /\ clean < QUALIFY_MS + RECOVERY_QUALIFY_MS -> clean + 1
                [] OTHER -> clean
  /\ UNCHANGED <<rst_n, upsets>>

(* The power-on reset counter of supervisor_top runs out. *)
PowerOnReset == ~rst_n /\ rst_n' = TRUE /\ UNCHANGED
  <<state, uptime, timer, error, firstTime, fault, age, seen, upsets, clean>>

(* External: a disturbed state register, which the default arm contains. *)
Upset ==
  /\ rst_n /\ upsets < MaxUpsets
  /\ state' = "ILLEGAL" /\ upsets' = upsets + 1
  /\ UNCHANGED <<rst_n, uptime, timer, error, firstTime, fault, age, seen, clean>>

Init ==
  /\ rst_n = FALSE
  /\ state = "STARTUP" /\ uptime = 0 /\ timer = 0
  /\ error = "NONE" /\ firstTime = 0 /\ fault = FALSE
  /\ age = [c \in Channels |-> 0] /\ seen = [c \in Channels |-> FALSE]
  /\ upsets = 0 /\ clean = 0

Next == PowerOnReset \/ Upset \/ \E in \in Inputs : Clock(in)

Spec == Init /\ [][Next]_vars

(* The clock and its millisecond tick never stop; every tick moves the      *)
(* uptime, and a tick is possible in every state.                           *)
FairSpec == Spec /\ []<><<uptime' # uptime>>_vars

-----------------------------------------------------------------------------
(* Output pins. *)

SecureEnable == state = "MONITOR"
KeyZeroize == state \notin {"QUALIFY", "MONITOR"}
TinyFaultLow == ~rst_n \/ fault \/ state = "ILLEGAL"

(* The three lines as TinyLines sees them. *)
Lines == INSTANCE TinyLines WITH fatal <- fault, zeroizeN <- ~KeyZeroize,
                                 enable <- SecureEnable

-----------------------------------------------------------------------------
(* Properties. *)

(* Every register of the supervisor stays within its range; the state timer *)
(* of a phase never counts past the phase's last tick.                      *)
TypeOK ==
  /\ rst_n \in BOOLEAN /\ state \in States /\ fault \in BOOLEAN
  /\ uptime \in 0..(UPTIME_MOD - 1) /\ firstTime \in 0..(UPTIME_MOD - 1)
  /\ timer \in Nat /\ error \in Errors /\ upsets \in 0..MaxUpsets
  /\ age \in [Channels -> 0..HB_TIMEOUT_MS] /\ seen \in [Channels -> BOOLEAN]
  /\ clean \in Nat

(* The strengthening that makes the safety properties inductive: which      *)
(* states hold a latched fault, and that the timers of the two qualifying   *)
(* phases never run ahead of the clean ticks actually observed.             *)
PhaseFault ==
  /\ state \in {"STARTUP", "QUALIFY", "MONITOR"} => ~fault
  /\ state \in {"ZEROIZE", "SAFE_LOCKED", "RECOVERY_QUALIFY"} => fault

PhaseTimer ==
  /\ state = "QUALIFY" => timer <= clean /\ timer < QUALIFY_MS
  /\ state = "RECOVERY_QUALIFY" => timer <= clean /\ timer < RECOVERY_QUALIFY_MS

PhaseSeen ==
  /\ state = "MONITOR" => rst_n /\ \A c \in Channels : seen[c]
  /\ clean <= QUALIFY_MS + RECOVERY_QUALIFY_MS

IInv == TypeOK /\ PhaseFault /\ PhaseTimer /\ PhaseSeen

(* secure_enable is never driven while a fault is latched, while zeroize is *)
(* requested or while tiny_fault_n is low, and only after every heartbeat   *)
(* has been seen, whatever faults, recoveries and corruptions came before.  *)
SecureImpliesNoFault ==
  SecureEnable => ~fault /\ ~KeyZeroize /\ ~TinyFaultLow /\ \A c \in Channels : seen[c]

(* A latched fault keeps the keys zeroized until recovery has cleared it:   *)
(* no path from a fault back to MONITOR skips zeroize and the recovery.     *)
FaultKeepsZeroize == fault => KeyZeroize

(* secure_enable rises only after QUALIFY_MS consecutive ticks without a    *)
(* fault input or a missing heartbeat (the timer of ST_QUALIFY restarts).   *)
QualifiedBeforeSecure ==
  [][~SecureEnable /\ SecureEnable' => clean' >= QUALIFY_MS]_vars

(* A latched fault clears only after RECOVERY_QUALIFY_MS consecutive clean  *)
(* ticks, and never straight into MONITOR.                                  *)
RecoveryQualified ==
  [][fault /\ ~fault' => clean' >= RECOVERY_QUALIFY_MS /\ ~SecureEnable']_vars

(* The supervisor implements the abstract TinyLines: whatever its timers,   *)
(* watchdogs and recovery do, a fault latches together with zeroize and     *)
(* without secure_enable, and every way back takes the three steps.         *)
ImplementsTinyLines == Lines!TinySpec

(* The first fault's code and time survive every later fault of the same    *)
(* episode (fault_latched_q gates the capture registers in every state).    *)
FirstFaultKept ==
  [][fault /\ fault' => error' = error /\ firstTime' = firstTime]_vars

(* A heartbeat that has timed out under secure_enable takes secure_enable   *)
(* away, unless it beats again: also when the uptime counter wraps and      *)
(* disarms the watchdogs for another grace period.                          *)
SilenceEndsSecure ==
  \A c \in Channels :
    (SecureEnable /\ age[c] >= HB_TIMEOUT_MS) ~> (~SecureEnable \/ age[c] = 0)

(* What the requirements say of the time-out ("Timeout 350 ms"): under      *)
(* secure_enable a heartbeat silent for HB_TIMEOUT_MS is fatal at once.     *)
SilenceIsFatal ==
  [][SecureEnable /\ rst_n /\ (\E c \in Channels : age[c] >= HB_TIMEOUT_MS)
       => ~SecureEnable']_vars
=============================================================================
