-------------------------- MODULE SupervisorProofs --------------------------
(* Safety of the Tiny1P5 supervisor for every choice of its time constants. *)
EXTENDS Supervisor, TLAPS

(* The initial state of the reset supervisor satisfies the invariant. *)
LEMMA InitIInv == Init => IInv
  <1> USE SupervisorAssumption DEF SupervisorAssumption, Init
  <1>1. Init => /\ uptime \in 0..(UPTIME_MOD - 1) /\ firstTime \in 0..(UPTIME_MOD - 1)
                /\ timer \in Nat /\ upsets \in 0..MaxUpsets /\ clean \in Nat
                /\ age \in [Channels -> 0..HB_TIMEOUT_MS]
                /\ clean <= QUALIFY_MS + RECOVERY_QUALIFY_MS
    OBVIOUS
  <1>2. Init => seen \in [Channels -> BOOLEAN] /\ rst_n \in BOOLEAN /\ fault \in BOOLEAN
    OBVIOUS
  <1>3. Init => state \in States /\ error \in Errors /\ state = "STARTUP" /\ ~fault
    BY DEF States, Errors
  <1> QED BY <1>1, <1>2, <1>3 DEF IInv, TypeOK, PhaseFault, PhaseTimer, PhaseSeen

(* One clock cycle keeps the registers that every state updates alike. *)
LEMMA ClockCommon ==
  ASSUME IInv, NEW in \in Inputs, Clock(in)
  PROVE  /\ rst_n /\ rst_n' = rst_n /\ upsets' = upsets
         /\ uptime' \in 0..(UPTIME_MOD - 1)
         /\ age' \in [Channels -> 0..HB_TIMEOUT_MS]
         /\ seen' \in [Channels -> BOOLEAN]
         /\ \A c \in Channels : seen[c] => seen'[c]
         /\ clean' \in Nat /\ clean' <= QUALIFY_MS + RECOVERY_QUALIFY_MS
         /\ ~FaultInput(in) /\ AllHealthy => clean' >= clean
         /\ ~FaultInput(in) /\ AllHealthy /\ in.tick =>
              clean' > clean \/ clean' = QUALIFY_MS + RECOVERY_QUALIFY_MS
  <1> USE SupervisorAssumption DEF SupervisorAssumption, IInv, TypeOK, PhaseSeen
  <1>1. /\ rst_n /\ rst_n' = rst_n /\ upsets' = upsets
    BY DEF Clock
  <1>2. uptime' \in 0..(UPTIME_MOD - 1)
    BY DEF Clock
  <1>3. /\ age' \in [Channels -> 0..HB_TIMEOUT_MS]
        /\ seen' \in [Channels -> BOOLEAN]
        /\ \A c \in Channels : seen[c] => seen'[c]
    <2>1. Watch(in)
      BY DEF Clock
    <2>2. ASSUME NEW c \in Channels PROVE age'[c] \in 0..HB_TIMEOUT_MS
      BY <2>1 DEF Watch
    <2>3. age' = [c \in Channels |-> age'[c]]
      BY <2>1 DEF Watch
    <2>4. ASSUME NEW c \in Channels PROVE seen'[c] \in BOOLEAN /\ (seen[c] => seen'[c])
      BY <2>1 DEF Watch
    <2>5. seen' = [c \in Channels |-> seen'[c]]
      BY <2>1 DEF Watch
    <2> QED BY <2>2, <2>3, <2>4, <2>5
  <1>4. clean' = CASE FaultInput(in) \/ ~AllHealthy -> 0
                   [] ~(FaultInput(in) \/ ~AllHealthy) /\ in.tick
                        /\ clean < QUALIFY_MS + RECOVERY_QUALIFY_MS -> clean + 1
                   [] OTHER -> clean
    BY DEF Clock
  <1>5. in.tick \in BOOLEAN
    BY DEF Inputs
  <1>6. CASE FaultInput(in) \/ ~AllHealthy
    BY <1>1, <1>2, <1>3, <1>4, <1>6
  <1>7. CASE /\ ~(FaultInput(in) \/ ~AllHealthy)
             /\ in.tick /\ clean < QUALIFY_MS + RECOVERY_QUALIFY_MS
    <2>1. clean' = clean + 1
      BY <1>4, <1>7
    <2> QED BY <2>1, <1>7, <1>1, <1>2, <1>3
  <1>8. CASE /\ ~(FaultInput(in) \/ ~AllHealthy)
             /\ ~(in.tick /\ clean < QUALIFY_MS + RECOVERY_QUALIFY_MS)
    <2>1. clean' = clean
      BY <1>4, <1>8
    <2> QED BY <2>1, <1>8, <1>1, <1>2, <1>3
  <1> QED BY <1>6, <1>7, <1>8

(* Latching keeps the capture registers in range. *)
LEMMA ZeroizeEntry ==
  ASSUME IInv, NEW code \in Errors, EnterZeroize(code)
  PROVE  /\ state' = "ZEROIZE" /\ timer' = 0 /\ fault'
         /\ fault' \in BOOLEAN /\ error' \in Errors /\ firstTime' \in 0..(UPTIME_MOD - 1)
  BY DEF IInv, TypeOK, EnterZeroize, Latch

(* The priority encoder of the fatal inputs returns an error code. *)
LEMMA FatalCodeType == ASSUME NEW in PROVE FatalCode(in) \in Errors
  BY DEF FatalCode, Errors

(* The state registers after one clock cycle, one step per state. *)
LEMMA ClockStep ==
  ASSUME IInv, NEW in \in Inputs, Clock(in)
  PROVE  IInv'
  <1> USE SupervisorAssumption DEF SupervisorAssumption
  <1>c. /\ rst_n /\ rst_n' = rst_n /\ upsets' = upsets
        /\ uptime' \in 0..(UPTIME_MOD - 1)
        /\ age' \in [Channels -> 0..HB_TIMEOUT_MS]
        /\ seen' \in [Channels -> BOOLEAN]
        /\ \A c \in Channels : seen[c] => seen'[c]
        /\ clean' \in Nat /\ clean' <= QUALIFY_MS + RECOVERY_QUALIFY_MS
        /\ ~FaultInput(in) /\ AllHealthy => clean' >= clean
        /\ ~FaultInput(in) /\ AllHealthy /\ in.tick =>
             clean' > clean \/ clean' = QUALIFY_MS + RECOVERY_QUALIFY_MS
    BY ClockCommon
  <1>t. rst_n \in BOOLEAN /\ upsets \in 0..MaxUpsets /\ timer \in Nat /\ clean \in Nat
        /\ fault \in BOOLEAN /\ error \in Errors /\ firstTime \in 0..(UPTIME_MOD - 1)
        /\ in.tick \in BOOLEAN
    BY DEF IInv, TypeOK, Inputs
  <1> SUFFICES /\ state' \in States /\ fault' \in BOOLEAN /\ timer' \in Nat
               /\ error' \in Errors /\ firstTime' \in 0..(UPTIME_MOD - 1)
               /\ PhaseFault' /\ PhaseTimer'
               /\ state' = "MONITOR" => \A c \in Channels : seen'[c]
    BY <1>c, <1>t DEF IInv, TypeOK, PhaseSeen
  <1>z. EnterZeroize(FatalCode(in)) \/ EnterZeroize("SUP_ILLEGAL_STATE") =>
               /\ state' \in States /\ fault' \in BOOLEAN /\ timer' \in Nat
               /\ error' \in Errors /\ firstTime' \in 0..(UPTIME_MOD - 1)
               /\ PhaseFault' /\ PhaseTimer' /\ state' # "MONITOR"
    BY ZeroizeEntry, FatalCodeType DEF Errors, States, PhaseFault, PhaseTimer
  <1>k. Count(in) => timer' \in Nat /\ (timer' = timer \/ (in.tick /\ timer' = timer + 1))
    BY <1>t DEF Count
  <1>s. Stay => state' = state /\ fault' = fault /\ error' = error /\ firstTime' = firstTime
    BY DEF Stay
  <1>1. CASE Startup(in)
    BY <1>1, <1>z, <1>k, <1>s, <1>t, <1>c
    DEF Startup, IInv, PhaseFault, PhaseTimer, States
  <1>2. CASE Qualify(in)
    <2> USE DEF States, PhaseFault, PhaseTimer
    <2>0. state = "QUALIFY" /\ ~fault /\ timer <= clean /\ timer < QUALIFY_MS
      BY <1>2 DEF Qualify, IInv
    <2>1. CASE FatalRequest(in) /\ EnterZeroize(FatalCode(in))
      BY <2>1, <1>z
    <2>2. CASE ~FatalRequest(in) /\ ~(Armed /\ AllHealthy) /\ timer' = 0 /\ Stay
      BY <2>0, <2>2, <1>s, <1>t, <1>c
    <2>3. CASE /\ ~FatalRequest(in) /\ Armed /\ AllHealthy /\ LastTick(in, QUALIFY_MS)
               /\ state' = "MONITOR" /\ timer' = 0 /\ UNCHANGED <<fault, error, firstTime>>
      BY <2>0, <2>3, <1>t, <1>c DEF AllHealthy, Healthy
    <2>4. CASE /\ ~FatalRequest(in) /\ Armed /\ AllHealthy /\ ~LastTick(in, QUALIFY_MS)
               /\ Count(in) /\ Stay
      <3>1. ~FaultInput(in)
        BY <2>4 DEF FatalRequest
      <3>2. in.tick => timer + 1 < QUALIFY_MS
        BY <2>4, <1>t DEF LastTick
      <3> QED BY <3>1, <3>2, <2>0, <2>4, <1>k, <1>s, <1>t, <1>c
    <2> QED BY <1>2, <2>1, <2>2, <2>3, <2>4 DEF Qualify
  <1>3. CASE Monitor(in)
    BY <1>3, <1>z, <1>s, <1>t, <1>c
    DEF Monitor, IInv, PhaseFault, PhaseTimer, PhaseSeen, States
  <1>4. CASE Zeroize(in)
    BY <1>4, <1>k, <1>t DEF Zeroize, IInv, PhaseFault, PhaseTimer, States
  <1>5. CASE SafeLocked(in)
    BY <1>5, <1>t, <1>c DEF SafeLocked, IInv, PhaseFault, PhaseTimer, States
  <1>6. CASE RecoveryQualify(in)
    <2> USE DEF States, Errors, PhaseFault, PhaseTimer
    <2>0. /\ state = "RECOVERY_QUALIFY" /\ fault
          /\ timer <= clean /\ timer < RECOVERY_QUALIFY_MS
      BY <1>6 DEF RecoveryQualify, IInv
    <2>1. CASE /\ FaultInput(in) \/ ~AllHealthy
               /\ state' = "SAFE_LOCKED" /\ timer' = 0 /\ UNCHANGED <<fault, error, firstTime>>
      BY <2>0, <2>1, <1>t
    <2>2. CASE /\ fault' = FALSE /\ error' = "NONE" /\ firstTime' = 0
               /\ state' = "STARTUP" /\ timer' = 0
      <3>1. firstTime' \in 0..(UPTIME_MOD - 1) /\ timer' \in Nat /\ error' \in Errors
        BY <2>2
      <3>2. ~fault' /\ fault' \in BOOLEAN
        BY <2>2
      <3> QED BY <3>1, <3>2, <2>2
    <2>3. CASE /\ ~FaultInput(in) /\ AllHealthy
               /\ ~LastTick(in, RECOVERY_QUALIFY_MS) /\ Count(in) /\ Stay
      <3>1. in.tick => timer + 1 < RECOVERY_QUALIFY_MS
        BY <2>3, <1>t DEF LastTick
      <3> QED BY <3>1, <2>0, <2>3, <1>k, <1>s, <1>t, <1>c
    <2> QED BY <1>6, <2>1, <2>2, <2>3 DEF RecoveryQualify
  <1>7. CASE IllegalState(in)
    BY <1>7, <1>z DEF IllegalState
  <1> QED BY <1>1, <1>2, <1>3, <1>4, <1>5, <1>6, <1>7 DEF Clock

(* Every step keeps the invariant. *)
LEMMA StepIInv == IInv /\ [Next]_vars => IInv'
  <1> SUFFICES ASSUME IInv, [Next]_vars PROVE IInv'
    OBVIOUS
  <1>1. CASE PowerOnReset
    BY <1>1 DEF PowerOnReset, IInv, TypeOK, PhaseFault, PhaseTimer, PhaseSeen
  <1>2. CASE Upset
    BY <1>2, SupervisorAssumption
    DEF SupervisorAssumption, Upset, IInv, TypeOK, PhaseFault, PhaseTimer, PhaseSeen, States
  <1>3. CASE \E in \in Inputs : Clock(in)
    BY <1>3, ClockStep
  <1>4. CASE UNCHANGED vars
    BY <1>4 DEF vars, IInv, TypeOK, PhaseFault, PhaseTimer, PhaseSeen
  <1> QED BY <1>1, <1>2, <1>3, <1>4 DEF Next

(* The supervisor's registers keep their types and the phase invariant      *)
(* holds in every reachable state, for all time constants.                  *)
THEOREM SupervisorInvariant == Spec => []IInv
  BY InitIInv, StepIInv, PTL DEF Spec

(* Every register of the supervisor stays within its range. *)
THEOREM TypeTheorem == Spec => []TypeOK
  <1>1. IInv => TypeOK
    BY DEF IInv
  <1> QED BY <1>1, SupervisorInvariant, PTL

(* secure_enable never coexists with a latched fault, a zeroize request or  *)
(* a low tiny_fault_n, and implies that every heartbeat has been seen.      *)
THEOREM SecureTheorem == Spec => []SecureImpliesNoFault
  <1>1. IInv => SecureImpliesNoFault
    BY DEF IInv, PhaseFault, PhaseSeen, SecureImpliesNoFault, SecureEnable,
           KeyZeroize, TinyFaultLow
  <1> QED BY <1>1, SupervisorInvariant, PTL

(* Keys stay zeroized as long as a fault is latched. *)
THEOREM ZeroizeTheorem == Spec => []FaultKeepsZeroize
  <1>1. IInv => FaultKeepsZeroize
    BY DEF IInv, PhaseFault, FaultKeepsZeroize, KeyZeroize
  <1> QED BY <1>1, SupervisorInvariant, PTL

(* secure_enable rises only after QUALIFY_MS consecutive clean ticks. *)
THEOREM QualifiedTheorem == Spec => QualifiedBeforeSecure
  <1>1. IInv /\ [Next]_vars =>
          [~SecureEnable /\ SecureEnable' => clean' >= QUALIFY_MS]_vars
    <2> SUFFICES ASSUME IInv, Next, state # "MONITOR", state' = "MONITOR"
                 PROVE  clean' >= QUALIFY_MS
      BY DEF SecureEnable, vars
    <2>1. PICK in \in Inputs : Clock(in)
      BY DEF Next, PowerOnReset, Upset
    <2>2. Qualify(in)
      BY <2>1 DEF Clock, Startup, Monitor, Zeroize, SafeLocked, RecoveryQualify,
                  IllegalState, EnterZeroize, Stay
    <2>3. ~FatalRequest(in) /\ AllHealthy /\ LastTick(in, QUALIFY_MS)
      BY <2>2 DEF Qualify, EnterZeroize, Stay
    <2>4. ~FaultInput(in) /\ in.tick
      BY <2>3 DEF FatalRequest, LastTick
    <2>5. clean' > clean \/ clean' = QUALIFY_MS + RECOVERY_QUALIFY_MS
      BY <2>1, <2>3, <2>4, ClockCommon
    <2>6. timer <= clean /\ timer >= QUALIFY_MS - 1 /\ clean \in Nat /\ timer \in Nat
      BY <2>2, <2>3, SupervisorAssumption
      DEF SupervisorAssumption, Qualify, LastTick, IInv, PhaseTimer, TypeOK
    <2>7. clean' \in Nat
      BY <2>1, ClockCommon
    <2> QED BY <2>5, <2>6, <2>7, SupervisorAssumption DEF SupervisorAssumption
  <1> QED BY <1>1, SupervisorInvariant, PTL DEF Spec, QualifiedBeforeSecure

(* A latched fault clears only after RECOVERY_QUALIFY_MS clean ticks. *)
THEOREM RecoveryTheorem == Spec => RecoveryQualified
  <1>1. IInv /\ [Next]_vars =>
          [fault /\ ~fault' => clean' >= RECOVERY_QUALIFY_MS /\ ~SecureEnable']_vars
    <2> SUFFICES ASSUME IInv, Next, fault, ~fault'
                 PROVE  clean' >= RECOVERY_QUALIFY_MS /\ state' # "MONITOR"
      BY DEF SecureEnable, vars
    <2>1. PICK in \in Inputs : Clock(in)
      BY DEF Next, PowerOnReset, Upset
    <2>2. RecoveryQualify(in)
      BY <2>1 DEF Clock, Startup, Qualify, Monitor, Zeroize, SafeLocked,
                  IllegalState, EnterZeroize, Latch, Stay
    <2>3. /\ ~FaultInput(in) /\ AllHealthy /\ LastTick(in, RECOVERY_QUALIFY_MS)
          /\ state' = "STARTUP"
      BY <2>2 DEF RecoveryQualify, Stay
    <2>4. in.tick
      BY <2>3 DEF LastTick
    <2>5. clean' > clean \/ clean' = QUALIFY_MS + RECOVERY_QUALIFY_MS
      BY <2>1, <2>3, <2>4, ClockCommon
    <2>6. timer <= clean /\ timer >= RECOVERY_QUALIFY_MS - 1 /\ clean \in Nat /\ timer \in Nat
      BY <2>2, <2>3, SupervisorAssumption
      DEF SupervisorAssumption, RecoveryQualify, LastTick, IInv, PhaseTimer, TypeOK
    <2>7. clean' \in Nat
      BY <2>1, ClockCommon
    <2> QED BY <2>3, <2>5, <2>6, <2>7, SupervisorAssumption DEF SupervisorAssumption
  <1> QED BY <1>1, SupervisorInvariant, PTL DEF Spec, RecoveryQualified

(* The registers that hold the first fault change only when it is cleared.  *)
THEOREM FirstFaultTheorem == Spec => FirstFaultKept
  <1>1. [Next]_vars => [fault /\ fault' => error' = error /\ firstTime' = firstTime]_vars
    <2> SUFFICES ASSUME Next, fault, fault'
                 PROVE  error' = error /\ firstTime' = firstTime
      BY DEF vars
    <2>1. CASE PowerOnReset \/ Upset
      BY <2>1 DEF PowerOnReset, Upset
    <2>2. ASSUME NEW in \in Inputs, Clock(in) PROVE error' = error /\ firstTime' = firstTime
      <3>1. \A code : EnterZeroize(code) => error' = error /\ firstTime' = firstTime
        BY DEF EnterZeroize, Latch
      <3> QED BY <2>2, <3>1 DEF Clock, Startup, Qualify, Monitor, Zeroize, SafeLocked,
                               RecoveryQualify, IllegalState, Stay
    <2> QED BY <2>1, <2>2 DEF Next
  <1> QED BY <1>1, PTL DEF Spec, FirstFaultKept

(* One clock cycle is a step of TinyLines or leaves its lines alone. *)
LEMMA ClockSimulates ==
  ASSUME IInv, NEW in \in Inputs, Clock(in)
  PROVE  [Lines!TinyNext]_(Lines!lines)
  <1> USE DEF Lines!TinyNext, Lines!Fault, Lines!Disturbed, Lines!Cleared,
              Lines!Released, Lines!Enabled, Lines!lines, SecureEnable, KeyZeroize
  <1>z. ASSUME NEW code, EnterZeroize(code) PROVE Lines!Fault
    BY <1>z DEF EnterZeroize, Latch
  <1>s. Stay => UNCHANGED Lines!lines
    BY DEF Stay
  <1>1. CASE Startup(in)
    BY <1>1, <1>z, <1>s DEF Startup, IInv, PhaseFault
  <1>2. CASE Qualify(in)
    BY <1>2, <1>z, <1>s DEF Qualify, IInv, PhaseFault
  <1>3. CASE Monitor(in)
    BY <1>3, <1>z, <1>s DEF Monitor
  <1>4. CASE Zeroize(in)
    BY <1>4 DEF Zeroize
  <1>5. CASE SafeLocked(in)
    BY <1>5 DEF SafeLocked
  <1>6. CASE RecoveryQualify(in)
    BY <1>6, <1>s DEF RecoveryQualify, IInv, PhaseFault
  <1>7. CASE IllegalState(in)
    BY <1>7, <1>z DEF IllegalState
  <1> QED BY <1>1, <1>2, <1>3, <1>4, <1>5, <1>6, <1>7 DEF Clock

(* The supervisor implements TinyLines, for all time constants: the system  *)
(* model may use the three abstract lines in its place.                     *)
THEOREM RefinementTheorem == Spec => ImplementsTinyLines
  <1>1. Init => Lines!TinyInit
    BY DEF Init, Lines!TinyInit, SecureEnable, KeyZeroize
  <1>2. IInv /\ [Next]_vars => [Lines!TinyNext]_(Lines!lines)
    <2> SUFFICES ASSUME IInv, [Next]_vars PROVE [Lines!TinyNext]_(Lines!lines)
      OBVIOUS
    <2> USE DEF Lines!lines, SecureEnable, KeyZeroize
    <2>1. CASE PowerOnReset \/ UNCHANGED vars
      BY <2>1 DEF PowerOnReset, vars
    <2>2. CASE Upset
      BY <2>2 DEF Upset, Lines!TinyNext, Lines!Disturbed
    <2>3. CASE \E in \in Inputs : Clock(in)
      BY <2>3, ClockSimulates
    <2> QED BY <2>1, <2>2, <2>3 DEF Next
  <1> QED BY <1>1, <1>2, SupervisorInvariant, PTL
          DEF Spec, ImplementsTinyLines, Lines!TinySpec
=============================================================================
