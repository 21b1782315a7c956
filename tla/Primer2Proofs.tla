--------------------------- MODULE Primer2Proofs ---------------------------
(* Safety of the Primer #2 command core, for any sets of identifiers, keys, *)
(* transactions and telemetry images, any bound on the frames and any       *)
(* bad-tag threshold.                                                       *)
(*                                                                          *)
(* A cycle is the receive path's progress from p2 to p followed by the      *)
(* request's assignments to p, so what must hold of the registers is stated *)
(* of any registers p, and what a cycle may do to the session's history as  *)
(* a relation between the registers before and after it.                    *)
EXTENDS Primer2, TLAPS

(* The engine that runs matches the session state, and what it works on. *)
P2Engines(p) ==
  /\ p.core = "ZEROIZE" => p.session = "ZEROIZE_BUSY"
  /\ p.core = "SELF_TEST" => p.session = "SELF_TEST_RUNNING" /\ p.ret \in P2Records
  /\ p.core = "ZEROIZE" /\ p.fromCommand => p.ret \in P2Records
  /\ p.core \in {"VALIDATE", "DECRYPT"} =>
       p.session = "ACTIVE" /\ p.active # None /\ p.result = None /\ p.cand # None
  /\ p.core = "DECRYPT" =>
       p.cand # Malformed /\ p.cand.id = p.active.id /\ p.cand.seq = p.last + 1

(* What each session state says of the banks, the result, the bad tags and  *)
(* the fault.                                                               *)
P2Banks(p) ==
  /\ p.session \notin {"STAGED", "COMMITTED_BLOCKED", "ACTIVE"} => p.staged = None
  /\ p.session \notin {"COMMITTED_BLOCKED", "ACTIVE"} => p.active = None
  /\ p.active = None => p.result = None
  /\ p.result # None =>
       /\ p.result.id = p.active.id /\ p.result.key = p.active.key
       /\ p.result.seq = p.last
  /\ p.active = None \/ p.result # None => p.bad = 0
  /\ p.fault => p.session # "ACTIVE"

P2Sound(p) == p \in P2Registers /\ P2Engines(p) /\ P2Banks(p)

(* A cycle ends the session, commits one, keeps its result, releases the    *)
(* result by the ACK that names it, or accepts the next frame.              *)
P2Move(p, r) ==
  \/ r.active = None
  \/ p.active = None /\ r.active # None /\ r.last = 0
  \/ r.active = p.active /\ r.last = p.last /\ r.result = p.result
  \/ /\ r.active = p.active /\ r.last = p.last /\ p.result # None /\ r.result = None
     /\ r.ack = [id |-> p.result.id, seq |-> p.result.seq]
  \/ /\ r.active = p.active /\ p.result = None /\ r.result # None
     /\ r.last = p.last + 1

P2Cycle == P2Sound(p2') /\ P2Move(p2, p2')

(* The inductive invariant. *)
P2IInv == P2TypeOK /\ P2Sound(p2) /\ twice = FALSE

-----------------------------------------------------------------------------
(* The values the handlers assign. *)
LEMMA P2Values ==
  /\ None \in P2Banked /\ None \in P2Candidates /\ None \in P2Results
  /\ None \in P2Acks /\ None \in P2Kept
  /\ P2Cores = {"IDLE", "VALIDATE", "DECRYPT", "SELF_TEST", "ZEROIZE"}
  /\ 0 \in 0..MaxSeq /\ 0 \in 0..(BadTagThreshold - 1)
  /\ P2Records \subseteq P2Kept /\ Material \subseteq P2Banked
  <1>1. 0 \in 0..MaxSeq /\ 0 \in 0..(BadTagThreshold - 1)
    BY PrimerAssumption, Primer2Assumption DEF PrimerAssumption, Primer2Assumption
  <1> QED BY <1>1 DEF P2Banked, P2Candidates, P2Results, P2Acks, P2Kept, P2Cores

(* The session states the handlers assign. *)
LEMMA P2States ==
  {"SELF_TEST_REQUIRED", "SELF_TEST_RUNNING", "READY_NO_SESSION", "STAGED",
   "COMMITTED_BLOCKED", "ACTIVE", "ZEROIZE_BUSY", "FAULT_LOCKED"} \subseteq SessionStates
  BY DEF SessionStates

(* The fields of the registers. *)
LEMMA P2Fields ==
  ASSUME NEW p \in P2Registers
  PROVE  /\ p.session \in SessionStates /\ p.core \in P2Cores /\ p.pass \in BOOLEAN
         /\ p.fault \in BOOLEAN /\ p.fromCommand \in BOOLEAN /\ p.dueToFault \in BOOLEAN
         /\ p.needsTest \in BOOLEAN /\ p.staged \in P2Banked /\ p.active \in P2Banked
         /\ p.last \in 0..MaxSeq /\ p.cand \in P2Candidates /\ p.result \in P2Results
         /\ p.bad \in 0..(BadTagThreshold - 1) /\ p.ack \in P2Acks /\ p.ret \in P2Kept
  BY DEF P2Registers

(* The wipe empties the banks, the candidate and the result, and nothing    *)
(* else.                                                                    *)
LEMMA P2Wiped ==
  ASSUME NEW p \in P2Registers
  PROVE  /\ P2Wipe(p) \in P2Registers
         /\ P2Wipe(p).staged = None /\ P2Wipe(p).active = None
         /\ P2Wipe(p).result = None /\ P2Wipe(p).bad = 0 /\ P2Wipe(p).fault = p.fault
  BY P2Values DEF P2Wipe, P2Registers

(* The registers as a wipe starts, with the fault and the record it leaves. *)
P2Entry(p, command, faulty, test, e, r) ==
  [P2EnterZeroize(p, command, faulty, test) EXCEPT !.fault = e, !.ret = r]

(* A wipe that starts leaves sound registers, whoever started it; one       *)
(* started by command has a record.                                         *)
LEMMA P2Entered ==
  ASSUME NEW p \in P2Registers, NEW command \in BOOLEAN, NEW faulty \in BOOLEAN, NEW test \in BOOLEAN,
         NEW e \in BOOLEAN, NEW r \in P2Kept, r \in P2Records \/ command = FALSE
  PROVE  /\ P2Sound(P2Entry(p, command, faulty, test, e, r))
         /\ P2Entry(p, command, faulty, test, e, r).active = None
  <1> DEFINE w == P2Wipe(p)
             z == P2Entry(p, command, faulty, test, e, r)
  <1>1. /\ w \in P2Registers /\ w.staged = None /\ w.active = None /\ w.result = None
        /\ w.bad = 0
    BY P2Wiped
  <1>2. z = [w EXCEPT !.session = "ZEROIZE_BUSY", !.core = "ZEROIZE",
                      !.fromCommand = command, !.dueToFault = faulty, !.needsTest = test,
                      !.fault = e, !.ret = r]
    BY DEF P2Entry, P2EnterZeroize
  <1> HIDE DEF w, z
  <1>3. z \in P2Registers
    <2>1. "ZEROIZE_BUSY" \in SessionStates /\ "ZEROIZE" \in P2Cores
      BY P2Values, P2States
    <2>2. [w EXCEPT !.session = "ZEROIZE_BUSY", !.core = "ZEROIZE",
                    !.fromCommand = command, !.dueToFault = faulty, !.needsTest = test,
                    !.fault = e, !.ret = r] \in P2Registers
      <3>1. w \in P2Registers
        BY <1>1
      <3> QED BY <2>1, <3>1 DEF P2Registers
    <2> QED BY <1>2, <2>2
  <1>4. /\ z.session = "ZEROIZE_BUSY" /\ z.core = "ZEROIZE" /\ z.fromCommand = command
        /\ z.staged = None /\ z.active = None /\ z.result = None /\ z.bad = 0 /\ z.ret = r
    <2>1. z.session = "ZEROIZE_BUSY" /\ z.core = "ZEROIZE" /\ z.fromCommand = command /\ z.ret = r
      BY <1>1, <1>2 DEF P2Registers
    <2>2. z.staged = None /\ z.active = None /\ z.result = None /\ z.bad = 0
      BY <1>1, <1>2 DEF P2Registers
    <2> QED BY <2>1, <2>2
  <1>5. P2Sound(z)
    BY <1>3, <1>4 DEF P2Sound, P2Engines, P2Banks
  <1> QED BY <1>4, <1>5 DEF z

(* Completing a record leaves a record, and a request of a retained command *)
(* starts one.                                                              *)
LEMMA P2Recorded ==
  /\ \A r \in P2Records, s \in {"SUCCEEDED", "FAILED", "ZEROIZED"} :
       Complete(r, s, None) \in P2Records
  /\ \A q : q.txid \in Txids /\ q.cmd \in P2Retained
              /\ q.arg \in Ids \cup {None, Malformed, Unsupported} => Begin(q) \in P2Records
  BY DEF P2Records, Retained, Complete, Begin

-----------------------------------------------------------------------------
(* The engines. *)

(* The supervisor's nets force a wipe, and with it the record is lost. *)
LEMMA P2ForceStep ==
  ASSUME P2IInv, P2ForceZeroize
  PROVE  P2Cycle
  <1>1. p2 \in P2Registers /\ fatal \in BOOLEAN /\ zeroizeN \in BOOLEAN /\ secure \in BOOLEAN
    BY DEF P2IInv, P2TypeOK
  <1> DEFINE faulty == fatal \/ p2.fault
             test == ~zeroizeN \/ (p2.session = "ACTIVE" /\ ~secure)
             w == P2Wipe(p2)
  <1>2. faulty \in BOOLEAN /\ test \in BOOLEAN
    OBVIOUS
  <1>3. w \in P2Registers /\ w.fault = p2.fault
    BY <1>1, P2Wiped
  <1>4. p2' = [[w EXCEPT !.session = "ZEROIZE_BUSY", !.core = "ZEROIZE",
                         !.fromCommand = FALSE, !.dueToFault = faulty, !.needsTest = test]
                 EXCEPT !.fault = @ \/ fatal, !.ret = None]
    BY DEF P2ForceZeroize, P2EnterZeroize
  <1>5. p2' = [P2EnterZeroize(p2, FALSE, faulty, test) EXCEPT !.fault = w.fault \/ fatal,
                                                              !.ret = None]
    <2> HIDE DEF faulty, test
    <2>1. p2' = [[w EXCEPT !.session = "ZEROIZE_BUSY", !.core = "ZEROIZE",
                           !.fromCommand = FALSE, !.dueToFault = faulty, !.needsTest = test]
                   EXCEPT !.fault = w.fault \/ fatal, !.ret = None]
      <3> HIDE DEF w
      <3> QED BY <1>3, <1>4 DEF P2Registers
    <2> QED BY <2>1 DEF P2EnterZeroize
  <1> DEFINE e == w.fault \/ fatal
  <1>6. e \in BOOLEAN /\ None \in P2Kept /\ FALSE \in BOOLEAN
    BY P2Values
  <1> HIDE DEF faulty, test, e
  <1>7. /\ P2Sound(P2Entry(p2, FALSE, faulty, test, e, None))
        /\ P2Entry(p2, FALSE, faulty, test, e, None).active = None
    <2>1. p2 \in P2Registers
      BY <1>1
    <2>2. /\ FALSE \in BOOLEAN /\ faulty \in BOOLEAN /\ test \in BOOLEAN /\ e \in BOOLEAN
          /\ None \in P2Kept
      BY <1>2, <1>6
    <2> QED BY <2>1, <2>2, P2Entered, ZenonT(60)
  <1>8. P2Sound(p2') /\ p2'.active = None
    BY <1>5, <1>7 DEF P2Entry, e
  <1> QED BY <1>8 DEF P2Cycle, P2Move

(* A committed session is released only without a fault. *)
LEMMA P2ReleaseStep ==
  ASSUME P2IInv, P2Release
  PROVE  P2Cycle
  <1>1. /\ p2 \in P2Registers /\ p2.session = "COMMITTED_BLOCKED" /\ ~p2.fault
        /\ P2Engines(p2) /\ P2Banks(p2) /\ p2' = [p2 EXCEPT !.session = "ACTIVE"]
    BY DEF P2IInv, P2TypeOK, P2Release, P2Sound
  <1>2. p2' \in P2Registers
    BY <1>1, P2States DEF P2Registers
  <1>3. /\ p2'.session = "ACTIVE" /\ p2'.core = p2.core /\ p2'.active = p2.active
        /\ p2'.last = p2.last /\ p2'.result = p2.result /\ p2'.bad = p2.bad
        /\ p2'.fault = p2.fault
    BY <1>1 DEF P2Registers
  <1>4. p2.core \notin {"ZEROIZE", "SELF_TEST", "VALIDATE", "DECRYPT"}
    BY <1>1 DEF P2Engines
  <1> QED BY <1>1, <1>2, <1>3, <1>4 DEF P2Cycle, P2Sound, P2Engines, P2Banks, P2Move

(* A wipe ends, by command with its record completed. *)
LEMMA P2ZeroizeDoneStep ==
  ASSUME P2IInv, P2ZeroizeDone
  PROVE  P2Cycle
  <1>1. /\ p2 \in P2Registers /\ p2.staged = None /\ p2.active = None /\ p2.result = None
        /\ p2.bad = 0
        /\ p2.fromCommand => p2.ret \in P2Records
    BY P2Fields DEF P2IInv, P2TypeOK, P2Sound, P2ZeroizeDone, P2Engines, P2Banks, P2Kept
  <1> DEFINE p == [p2 EXCEPT !.core = "IDLE", !.fromCommand = FALSE, !.dueToFault = FALSE,
                             !.needsTest = FALSE]
  <1>2. p \in P2Registers
    BY <1>1, P2Values DEF P2Registers
  <1>3. /\ p.core = "IDLE" /\ p.staged = None /\ p.active = None /\ p.result = None
        /\ p.bad = 0 /\ p.ret = p2.ret
    BY <1>1 DEF P2Registers
  <1>4. \/ p2.fromCommand /\ p2' = [p EXCEPT !.session = P2Idle,
                                              !.ret = Complete(@, "ZEROIZED", None)]
        \/ p2' = [p EXCEPT !.session = "FAULT_LOCKED"]
        \/ p2' = [p EXCEPT !.session = "SELF_TEST_REQUIRED", !.pass = FALSE]
        \/ p2' = [p EXCEPT !.session = "READY_NO_SESSION"]
    BY DEF P2ZeroizeDone
  <1>5. P2Idle \in {"READY_NO_SESSION", "SELF_TEST_REQUIRED"}
    BY DEF P2Idle
  <1> HIDE DEF p
  <1>6. /\ p2' \in P2Registers /\ p2'.core = "IDLE"
        /\ p2'.session \in {"READY_NO_SESSION", "SELF_TEST_REQUIRED", "FAULT_LOCKED"}
        /\ p2'.staged = None /\ p2'.active = None /\ p2'.result = None /\ p2'.bad = 0
    <2>1. CASE p2.fromCommand /\ p2' = [p EXCEPT !.session = P2Idle,
                                                 !.ret = Complete(@, "ZEROIZED", None)]
      <3>1. Complete(p.ret, "ZEROIZED", None) \in P2Kept
        BY <1>1, <1>3, <2>1, P2Recorded, P2Values
      <3>2. p2' \in P2Registers
        BY <1>2, <1>5, <2>1, <3>1, P2States DEF P2Registers
      <3> QED BY <1>2, <1>3, <1>5, <2>1, <3>2 DEF P2Registers
    <2>2. CASE p2' = [p EXCEPT !.session = "FAULT_LOCKED"]
      BY <1>2, <1>3, <2>2, P2States DEF P2Registers
    <2>3. CASE p2' = [p EXCEPT !.session = "SELF_TEST_REQUIRED", !.pass = FALSE]
      <3>1. p2' \in P2Registers
        BY <1>2, <2>3, P2States DEF P2Registers
      <3> QED BY <1>2, <1>3, <2>3, <3>1 DEF P2Registers
    <2>4. CASE p2' = [p EXCEPT !.session = "READY_NO_SESSION"]
      BY <1>2, <1>3, <2>4, P2States DEF P2Registers
    <2> QED BY <1>4, <2>1, <2>2, <2>3, <2>4
  <1> QED BY <1>6 DEF P2Cycle, P2Sound, P2Engines, P2Banks, P2Move

-----------------------------------------------------------------------------
(* The receive path. *)

(* A completed frame is taken only for an active session with no result     *)
(* pending.                                                                 *)
LEMMA P2CaptureProgress ==
  ASSUME P2Sound(p2), NEW f \in P2Frames \cup {None}, p2.core = "IDLE"
  PROVE  P2Sound(Capture(f)) /\ P2Move(p2, Capture(f))
  <1>1. p2 \in P2Registers
    BY DEF P2Sound
  <1>2. CASE f # None /\ RxAcceptEnable
    <2> DEFINE r == [p2 EXCEPT !.core = "VALIDATE", !.cand = f]
    <2>1. Capture(f) = r
      BY <1>2 DEF Capture
    <2>2. p2.session = "ACTIVE" /\ p2.active # None /\ p2.result = None
      BY <1>2 DEF RxAcceptEnable
    <2>3. r \in P2Registers
      BY <1>1, P2Values DEF P2Registers, P2Candidates
    <2>4. /\ r.core = "VALIDATE" /\ r.cand = f /\ r.session = p2.session
          /\ r.staged = p2.staged /\ r.active = p2.active /\ r.last = p2.last
          /\ r.result = p2.result /\ r.bad = p2.bad /\ r.fault = p2.fault
      BY <1>1 DEF P2Registers
    <2> HIDE DEF r
    <2>5. P2Sound(r) /\ P2Move(p2, r)
      BY <1>2, <2>2, <2>3, <2>4 DEF P2Sound, P2Engines, P2Banks, P2Move
    <2> QED BY <2>1, <2>5
  <1>3. CASE ~(f # None /\ RxAcceptEnable)
    <2>1. Capture(f) = p2
      BY <1>3 DEF Capture
    <2> QED BY <2>1 DEF P2Move
  <1> QED BY <1>2, <1>3

(* Validation lets only the next sequence number of the active session      *)
(* through to the decryption engine.                                        *)
LEMMA P2ValidateProgress ==
  ASSUME P2Sound(p2), p2.core = "VALIDATE"
  PROVE  P2Sound(Validate) /\ P2Move(p2, Validate)
  <1>1. p2 \in P2Registers
    BY DEF P2Sound
  <1>2. CASE Acceptable
    <2> DEFINE r == [p2 EXCEPT !.core = "DECRYPT"]
    <2>1. Validate = r
      BY <1>2 DEF Validate
    <2>2. r \in P2Registers
      BY <1>1, P2Values DEF P2Registers
    <2>3. /\ r.core = "DECRYPT" /\ r.cand = p2.cand /\ r.session = p2.session
          /\ r.staged = p2.staged /\ r.active = p2.active /\ r.last = p2.last
          /\ r.result = p2.result /\ r.bad = p2.bad /\ r.fault = p2.fault
      BY <1>1 DEF P2Registers
    <2> HIDE DEF r
    <2>4. P2Sound(r) /\ P2Move(p2, r)
      BY <1>2, <2>2, <2>3 DEF Acceptable, P2Sound, P2Engines, P2Banks, P2Move
    <2> QED BY <2>1, <2>4
  <1>3. CASE ~Acceptable
    <2> DEFINE r == [p2 EXCEPT !.core = "IDLE", !.cand = None]
    <2>1. Validate = r
      BY <1>3 DEF Validate
    <2>2. r \in P2Registers
      BY <1>1, P2Values DEF P2Registers
    <2>3. /\ r.core = "IDLE" /\ r.session = p2.session
          /\ r.staged = p2.staged /\ r.active = p2.active /\ r.last = p2.last
          /\ r.result = p2.result /\ r.bad = p2.bad /\ r.fault = p2.fault
      BY <1>1 DEF P2Registers
    <2> HIDE DEF r
    <2>4. P2Sound(r) /\ P2Move(p2, r)
      BY <2>2, <2>3 DEF P2Sound, P2Engines, P2Banks, P2Move
    <2> QED BY <2>1, <2>4
  <1> QED BY <1>2, <1>3

(* A frame whose tag is right becomes the result under the key of the       *)
(* active session; one whose tag is wrong is counted, up to the wipe.       *)
LEMMA P2DecryptProgress ==
  ASSUME P2Sound(p2), p2.core = "DECRYPT"
  PROVE  P2Sound(Decrypted) /\ P2Move(p2, Decrypted)
  <1>1. /\ p2 \in P2Registers /\ p2.session = "ACTIVE" /\ p2.active # None
        /\ p2.result = None /\ p2.cand # None /\ p2.cand # Malformed
        /\ p2.cand.id = p2.active.id /\ p2.cand.seq = p2.last + 1
    BY DEF P2Sound, P2Engines
  <1>2. /\ p2.active \in Material /\ p2.last \in 0..MaxSeq
        /\ p2.cand \in [id: Ids, key: Keys \cup {None}, seq: 0..MaxSeq, tel: Telemetry]
        /\ p2.bad \in 0..(BadTagThreshold - 1)
    BY <1>1, P2Fields DEF P2Banked, P2Candidates, P2Frames
  <1> DEFINE p == [p2 EXCEPT !.core = "IDLE", !.cand = None]
  <1>3. p \in P2Registers
    BY <1>1, P2Values DEF P2Registers
  <1>4. /\ p.core = "IDLE" /\ p.session = p2.session /\ p.staged = p2.staged
        /\ p.active = p2.active /\ p.last = p2.last /\ p.result = p2.result
        /\ p.fault = p2.fault /\ p.bad = p2.bad
    BY <1>1 DEF P2Registers
  <1>5. /\ TagValid => Decrypted = [p EXCEPT !.result = p2.cand, !.last = p2.cand.seq,
                                             !.bad = 0]
        /\ ~TagValid /\ p2.bad + 1 >= BadTagThreshold =>
             Decrypted = [P2EnterZeroize(p, FALSE, TRUE, FALSE) EXCEPT !.fault = TRUE,
                                                                       !.ret = None]
        /\ ~TagValid /\ ~(p2.bad + 1 >= BadTagThreshold) => Decrypted = [p EXCEPT !.bad = @ + 1]
    BY DEF Decrypted
  <1> HIDE DEF p
  <1>6. CASE TagValid
    <2>1. p2.cand.key \in Keys
      BY <1>2, <1>6 DEF TagValid, Material
    <2>2. p2.cand.seq \in 1..MaxSeq
      BY <1>1, <1>2, PrimerAssumption DEF PrimerAssumption
    <2>3. p2.cand \in Frames
      BY <1>2, <2>1, <2>2 DEF Frames
    <2> DEFINE r == [p EXCEPT !.result = p2.cand, !.last = p2.cand.seq, !.bad = 0]
    <2>4. p2.cand \in P2Results /\ p2.cand.seq \in 0..MaxSeq
      BY <1>2, <2>3 DEF P2Results
    <2>5. r \in P2Registers
      BY <1>3, <2>4, P2Values DEF P2Registers
    <2>6. /\ r.core = "IDLE" /\ r.session = p2.session /\ r.staged = p2.staged
          /\ r.active = p2.active /\ r.last = p2.cand.seq /\ r.result = p2.cand
          /\ r.bad = 0 /\ r.fault = p2.fault
      BY <1>3, <1>4 DEF P2Registers
    <2> HIDE DEF r
    <2>7. P2Sound(r)
      BY <1>1, <1>6, <2>5, <2>6 DEF P2Sound, P2Engines, P2Banks, TagValid
    <2>8. P2Move(p2, r)
      BY <1>1, <2>6 DEF P2Move
    <2> QED BY <1>5, <1>6, <2>7, <2>8 DEF r
  <1>7. CASE ~TagValid /\ p2.bad + 1 >= BadTagThreshold
    <2>1. /\ P2Sound(P2Entry(p, FALSE, TRUE, FALSE, TRUE, None))
          /\ P2Entry(p, FALSE, TRUE, FALSE, TRUE, None).active = None
      <3>1. TRUE \in BOOLEAN /\ FALSE \in BOOLEAN /\ None \in P2Kept
        BY P2Values
      <3> QED BY <1>3, <3>1, P2Entered, ZenonT(60)
    <2>2. Decrypted = P2Entry(p, FALSE, TRUE, FALSE, TRUE, None)
      BY <1>5, <1>7 DEF P2Entry
    <2> QED BY <2>1, <2>2 DEF P2Move
  <1>8. CASE ~TagValid /\ ~(p2.bad + 1 >= BadTagThreshold)
    <2> DEFINE r == [p EXCEPT !.bad = p2.bad + 1]
    <2>1. p2.bad + 1 \in 0..(BadTagThreshold - 1)
      BY <1>2, <1>8, Primer2Assumption DEF Primer2Assumption
    <2>2. r \in P2Registers
      BY <1>3, <2>1 DEF P2Registers
    <2>3. /\ r.core = "IDLE" /\ r.session = p2.session /\ r.staged = p2.staged
          /\ r.active = p2.active /\ r.last = p2.last /\ r.result = p2.result
          /\ r.fault = p2.fault
      BY <1>3, <1>4 DEF P2Registers
    <2>4. Decrypted = r
      BY <1>3, <1>4, <1>5, <1>8 DEF P2Registers
    <2> HIDE DEF r
    <2>5. P2Sound(r) /\ P2Move(p2, r)
      BY <1>1, <2>2, <2>3 DEF P2Sound, P2Engines, P2Banks, P2Move
    <2> QED BY <2>4, <2>5
  <1> QED BY <1>6, <1>7, <1>8

(* The self-test ends, passed or failed, and leaves no key. *)
LEMMA P2SelfTestProgress ==
  ASSUME P2Sound(p2), p2.core = "SELF_TEST", NEW p \in SelfTestEnds
  PROVE  P2Sound(p) /\ P2Move(p2, p)
  <1>1. /\ p2 \in P2Registers /\ p2.staged = None /\ p2.active = None /\ p2.result = None
        /\ p2.bad = 0 /\ p2.ret \in P2Records
    BY P2Fields DEF P2Sound, P2Engines, P2Banks, P2Kept
  <1>2. /\ Complete(p2.ret, "SUCCEEDED", None) \in P2Kept
        /\ Complete(p2.ret, "FAILED", None) \in P2Kept
    BY <1>1, P2Recorded, P2Values
  <1>3. /\ p \in P2Registers /\ p.core = "IDLE"
        /\ p.session \in {"READY_NO_SESSION", "FAULT_LOCKED"}
        /\ p.staged = None /\ p.active = None /\ p.result = None /\ p.bad = 0
    <2>1. CASE p = [p2 EXCEPT !.core = "IDLE", !.pass = TRUE, !.session = "READY_NO_SESSION",
                              !.ret = Complete(@, "SUCCEEDED", None)]
      <3>1. p \in P2Registers
        BY <1>1, <1>2, <2>1, P2Values, P2States DEF P2Registers
      <3> QED BY <1>1, <2>1, <3>1 DEF P2Registers
    <2>2. CASE p = [p2 EXCEPT !.core = "IDLE", !.fault = TRUE, !.session = "FAULT_LOCKED",
                              !.ret = Complete(@, "FAILED", None)]
      <3>1. p \in P2Registers
        BY <1>1, <1>2, <2>2, P2Values, P2States DEF P2Registers
      <3> QED BY <1>1, <2>2, <3>1 DEF P2Registers
    <2> QED BY <2>1, <2>2 DEF SelfTestEnds
  <1> QED BY <1>3 DEF P2Sound, P2Engines, P2Banks, P2Move

(* Whatever the receive path does in a cycle, its registers stay sound; in  *)
(* an idle cycle without a frame it does nothing.                           *)
LEMMA P2Progressed ==
  ASSUME P2Sound(p2), P2Open, NEW f \in P2Frames \cup {None}, NEW p \in Progress(f)
  PROVE  /\ P2Sound(p) /\ P2Move(p2, p)
         /\ p2.core = "IDLE" /\ f = None => p = p2
  <1>1. p2.core \in {"IDLE", "VALIDATE", "DECRYPT", "SELF_TEST"}
    BY P2Fields DEF P2Sound, P2Open, P2Cores
  <1>2. P2Move(p2, p2)
    BY DEF P2Move
  <1>3. CASE p2.core = "IDLE"
    BY <1>3, P2CaptureProgress DEF Progress, Capture
  <1>4. CASE p2.core = "VALIDATE"
    BY <1>4, P2ValidateProgress DEF Progress
  <1>5. CASE p2.core = "DECRYPT"
    BY <1>2, <1>5, P2DecryptProgress DEF Progress
  <1>6. CASE p2.core = "SELF_TEST"
    BY <1>2, <1>6, P2SelfTestProgress DEF Progress
  <1> QED BY <1>1, <1>3, <1>4, <1>5, <1>6

-----------------------------------------------------------------------------
(* The requests. *)

(* What every answered cycle leaves: sound registers, a known code, and no  *)
(* transaction run twice.                                                   *)
P2Served == P2Cycle /\ reply' \in Codes /\ UNCHANGED nets /\ twice' = FALSE

(* What a request of each kind carries. *)
LEMMA P2RequestTypes ==
  ASSUME NEW q \in P2Requests
  PROVE  /\ q.txid \in Txids
         /\ q.cmd \in {"RUN_SELF_TEST", "ZEROIZE"} => q.arg \in {None, Unsupported, Malformed}
         /\ q.cmd = "STAGE_SESSION" /\ q.arg # Malformed => q.arg \in Material
         /\ q.cmd = "COMMIT_SESSION" => q.arg \in Ids \cup {Malformed}
         /\ q.cmd = "ACK_AUTH_RESULT" /\ q.arg # Malformed => q.arg \in [id: Ids, seq: 1..MaxSeq]
  BY DEF P2Requests, CommonRequests, Request

(* The codes the handlers answer with. *)
LEMMA P2Answers ==
  /\ {"OK", "BAD_LENGTH", "BAD_STATE", "BAD_SESSION", "NOT_SUPPORTED", "BUSY",
      "BAD_COMMAND", "RESULT_NOT_READY", "COMMIT_REJECTED", "SESSION_ID_COLLISION",
      "BAD_CRC"} \subseteq Codes
  /\ \A q : P2TxnCode(q) \in Codes
  /\ \A r, q : RetainedCode(r, q) \in Codes
  BY DEF Codes, P2TxnCode, RetainedCode

(* An answer without an effect leaves what the receive path left. *)
LEMMA P2ReplyStep ==
  ASSUME twice = FALSE, NEW p, P2Sound(p), P2Move(p2, p), NEW code \in Codes, P2Reply(p, code)
  PROVE  P2Served
  BY DEF P2Reply, Answer, P2Served, P2Cycle

(* ZEROIZE overrides whatever the receive path did, under a transaction     *)
(* that is not the retained one.                                            *)
LEMMA P2StartZeroizeStep ==
  ASSUME NEW p, P2Sound(p), NEW q \in P2Requests, q.cmd = "ZEROIZE",
         p2.ret = None \/ q.txid # p2.ret.txid, P2StartZeroize(p, q)
  PROVE  P2Served
  <1> DEFINE r == Begin(q)
             e == p.fault
  <1>1. p \in P2Registers /\ r \in P2Records
    BY P2RequestTypes, P2Recorded DEF P2Retained, P2Sound
  <1>2. r \in P2Kept /\ e \in BOOLEAN /\ TRUE \in BOOLEAN /\ FALSE \in BOOLEAN
    BY <1>1, P2Values, P2Fields
  <1>3. p2' = [P2EnterZeroize(p, TRUE, FALSE, FALSE) EXCEPT !.ret = r]
    BY DEF P2StartZeroize
  <1>4. p2' = P2Entry(p, TRUE, FALSE, FALSE, e, r)
    <2> DEFINE w == P2Wipe(p)
    <2>1. w \in P2Registers /\ w.fault = e
      BY <1>1, P2Wiped
    <2>2. p2' = [w EXCEPT !.session = "ZEROIZE_BUSY", !.core = "ZEROIZE",
                          !.fromCommand = TRUE, !.dueToFault = FALSE, !.needsTest = FALSE,
                          !.ret = r]
      BY <1>3 DEF P2EnterZeroize
    <2>3. P2Entry(p, TRUE, FALSE, FALSE, e, r) =
            [w EXCEPT !.session = "ZEROIZE_BUSY", !.core = "ZEROIZE",
                      !.fromCommand = TRUE, !.dueToFault = FALSE, !.needsTest = FALSE,
                      !.fault = e, !.ret = r]
      BY DEF P2Entry, P2EnterZeroize
    <2> HIDE DEF w, r, e
    <2>4. [w EXCEPT !.fault = e] = w
      BY <2>1 DEF P2Registers
    <2>5. [w EXCEPT !.session = "ZEROIZE_BUSY", !.core = "ZEROIZE",
                    !.fromCommand = TRUE, !.dueToFault = FALSE, !.needsTest = FALSE,
                    !.fault = e, !.ret = r]
            = [[w EXCEPT !.fault = e] EXCEPT !.session = "ZEROIZE_BUSY", !.core = "ZEROIZE",
                      !.fromCommand = TRUE, !.dueToFault = FALSE, !.needsTest = FALSE,
                      !.ret = r]
      BY <2>1 DEF P2Registers
    <2> QED BY <2>2, <2>3, <2>4, <2>5
  <1> HIDE DEF r, e
  <1>5. /\ P2Sound(P2Entry(p, TRUE, FALSE, FALSE, e, r))
        /\ P2Entry(p, TRUE, FALSE, FALSE, e, r).active = None
    BY <1>1, <1>2, P2Entered, ZenonT(60)
  <1>6. P2Cycle
    BY <1>4, <1>5 DEF P2Cycle, P2Move
  <1> QED BY <1>6, P2Answers DEF P2StartZeroize, P2Begun, Answer, P2Served

(* RUN_SELF_TEST, from a state without a session. *)
LEMMA P2SelfTestStep ==
  ASSUME P2Sound(p2), twice = FALSE, NEW q \in P2Requests, P2RunSelfTest(p2, q), p2.ret = None
  PROVE  P2Served
  <1>1. CASE P2Reply(p2, "NOT_SUPPORTED") \/ P2Reply(p2, "BAD_STATE")
    <2>1. P2Move(p2, p2)
      BY DEF P2Move
    <2> QED BY <1>1, <2>1, P2ReplyStep, P2Answers
  <1>2. CASE /\ p2.session \in {"SELF_TEST_REQUIRED", "READY_NO_SESSION"}
             /\ p2' = [p2 EXCEPT !.session = "SELF_TEST_RUNNING", !.core = "SELF_TEST",
                                 !.ret = Begin(q)]
             /\ P2Begun(q) /\ Answer("OK") /\ UNCHANGED nets
    <2>1. Begin(q) \in P2Records /\ Begin(q) \in P2Kept
      BY P2RequestTypes, P2Recorded, P2Values DEF P2RunSelfTest, P2Retained
    <2>2. /\ p2 \in P2Registers /\ p2.staged = None /\ p2.active = None
          /\ p2.result = None /\ p2.bad = 0
      BY <1>2 DEF P2Sound, P2Banks
    <2>3. p2' \in P2Registers
      BY <1>2, <2>1, <2>2, P2Values, P2States DEF P2Registers
    <2>4. /\ p2'.session = "SELF_TEST_RUNNING" /\ p2'.core = "SELF_TEST"
          /\ p2'.ret \in P2Records /\ p2'.staged = None /\ p2'.active = None
          /\ p2'.result = None /\ p2'.bad = 0
      BY <1>2, <2>1, <2>2 DEF P2Registers
    <2>5. P2Cycle
      BY <2>3, <2>4 DEF P2Cycle, P2Sound, P2Engines, P2Banks, P2Move
    <2> QED BY <1>2, <2>5, P2Answers DEF P2Begun, Answer, P2Served
  <1> QED BY <1>1, <1>2 DEF P2RunSelfTest

(* RETIRE_TXN_RESULT: the core is idle, so no engine loses its record. *)
LEMMA P2RetireStep ==
  ASSUME P2Sound(p2), twice = FALSE, NEW q \in P2Requests, P2Retire(p2, q), p2.core = "IDLE"
  PROVE  P2Served
  <1>1. /\ p2 \in P2Registers /\ UNCHANGED <<nets, twice>> /\ reply' \in Codes
        /\ p2' = [p2 EXCEPT !.ret = IF P2TxnCode(q) = "OK" THEN None ELSE @]
    BY P2Answers DEF P2Sound, P2Retire, Answer
  <1>2. PICK r \in {None, p2.ret} : p2' = [p2 EXCEPT !.ret = r]
    BY <1>1
  <1>3. r \in P2Kept
    BY <1>1, <1>2, P2Values, P2Fields
  <1>4. p2' \in P2Registers
    BY <1>1, <1>2, <1>3 DEF P2Registers
  <1>5. /\ p2'.core = "IDLE" /\ p2'.session = p2.session /\ p2'.active = p2.active
        /\ p2'.staged = p2.staged /\ p2'.last = p2.last /\ p2'.result = p2.result
        /\ p2'.bad = p2.bad /\ p2'.fault = p2.fault
    BY <1>1, <1>2 DEF P2Registers
  <1>6. P2Cycle
    BY <1>4, <1>5 DEF P2Cycle, P2Sound, P2Engines, P2Banks, P2Move
  <1> QED BY <1>1, <1>6 DEF P2Served

(* STAGE_SESSION fills the staged bank only outside a committed session. *)
LEMMA P2StageStep ==
  ASSUME P2Sound(p2), twice = FALSE, NEW q \in P2Requests, P2Stage(p2, q), q.arg # Malformed,
         p2.core = "IDLE"
  PROVE  P2Served
  <1>1. CASE \E code \in {"BAD_STATE", "OK", "SESSION_ID_COLLISION"} : P2Reply(p2, code)
    <2>1. P2Move(p2, p2)
      BY DEF P2Move
    <2> QED BY <1>1, <2>1, P2ReplyStep, P2Answers
  <1>2. CASE /\ p2.session \in {"READY_NO_SESSION", "STAGED"}
             /\ p2' = [p2 EXCEPT !.staged = q.arg, !.session = "STAGED"]
             /\ Answer("OK") /\ UNCHANGED <<nets, twice>>
    <2>1. p2 \in P2Registers /\ p2.active = None /\ p2.result = None /\ p2.bad = 0
      BY <1>2 DEF P2Sound, P2Banks
    <2>2. q.arg \in P2Banked
      BY P2RequestTypes, P2Values DEF P2Stage
    <2>3. p2' \in P2Registers
      BY <1>2, <2>1, <2>2, P2States DEF P2Registers
    <2>4. /\ p2'.session = "STAGED" /\ p2'.core = "IDLE" /\ p2'.active = None
          /\ p2'.result = None /\ p2'.bad = 0
      BY <1>2, <2>1 DEF P2Registers
    <2>5. P2Cycle
      BY <2>3, <2>4 DEF P2Cycle, P2Sound, P2Engines, P2Banks, P2Move
    <2> QED BY <1>2, <2>5, P2Answers DEF Answer, P2Served
  <1> QED BY <1>1, <1>2 DEF P2Stage

(* COMMIT_SESSION activates the staged bank with no frame accepted. *)
LEMMA P2CommitStep ==
  ASSUME P2Sound(p2), twice = FALSE, NEW q \in P2Requests, P2Commit(p2, q), p2.core = "IDLE",
         p2.ret = None
  PROVE  P2Served
  <1>1. CASE P2Reply(p2, "COMMIT_REJECTED") \/ P2Reply(p2, "BAD_SESSION")
    <2>1. P2Move(p2, p2)
      BY DEF P2Move
    <2> QED BY <1>1, <2>1, P2ReplyStep, P2Answers
  <1>2. CASE /\ p2.session = "STAGED" /\ p2.staged # None
             /\ p2' = [p2 EXCEPT !.active = p2.staged, !.staged = None, !.last = 0,
                                 !.result = None, !.session = "COMMITTED_BLOCKED",
                                 !.ret = Complete(Begin(q), "SUCCEEDED", None)]
             /\ P2Begun(q) /\ Answer("OK") /\ UNCHANGED nets
    <2> DEFINE r == Complete(Begin(q), "SUCCEEDED", None)
    <2>1. r \in P2Kept
      BY P2RequestTypes, P2Recorded, P2Values DEF P2Commit, P2Retained
    <2>2. p2' = [p2 EXCEPT !.active = p2.staged, !.staged = None, !.last = 0,
                           !.result = None, !.session = "COMMITTED_BLOCKED", !.ret = r]
      BY <1>2
    <2> HIDE DEF r
    <2>3. p2 \in P2Registers /\ p2.active = None /\ p2.staged \in P2Banked
      BY <1>2, P2Fields DEF P2Sound, P2Banks
    <2>4. p2' \in P2Registers
      BY <2>1, <2>2, <2>3, P2Values, P2States DEF P2Registers
    <2>5. /\ p2'.session = "COMMITTED_BLOCKED" /\ p2'.core = "IDLE" /\ p2'.last = 0
          /\ p2'.active # None /\ p2'.result = None
      BY <1>2, <2>2, <2>3 DEF P2Registers
    <2>6. P2Cycle
      BY <2>3, <2>4, <2>5 DEF P2Cycle, P2Sound, P2Engines, P2Banks, P2Move
    <2> QED BY <1>2, <2>6, P2Answers DEF P2Begun, Answer, P2Served
  <1> QED BY <1>1, <1>2 DEF P2Commit

(* ABORT_SESSION overrides the receive path, also a wipe that the bad-tag   *)
(* threshold started in the same cycle.                                     *)
LEMMA P2AbortStep ==
  ASSUME twice = FALSE, NEW p, P2Sound(p), P2Move(p2, p), NEW q \in P2Requests, P2Abort(p, q)
  PROVE  P2Served
  <1>1. CASE P2Reply(p, "BAD_SESSION")
    BY <1>1, P2ReplyStep, P2Answers
  <1>2. CASE /\ p2' = [P2Wipe(p) EXCEPT !.session = P2Idle, !.core = "IDLE"]
             /\ Answer("OK") /\ UNCHANGED <<nets, twice>>
    <2> DEFINE w == P2Wipe(p)
    <2>1. /\ w \in P2Registers /\ w.staged = None /\ w.active = None /\ w.result = None
          /\ w.bad = 0
      BY P2Wiped DEF P2Sound
    <2>2. P2Idle \in {"READY_NO_SESSION", "SELF_TEST_REQUIRED"}
      BY DEF P2Idle
    <2>3. p2' = [w EXCEPT !.session = P2Idle, !.core = "IDLE"]
      BY <1>2
    <2> HIDE DEF w
    <2>4. p2' \in P2Registers
      <3>1. w \in P2Registers /\ P2Idle \in SessionStates /\ "IDLE" \in P2Cores
        BY <2>1, <2>2, P2Values, P2States
      <3> QED BY <2>3, <3>1 DEF P2Registers
    <2>5. /\ p2'.session \in {"READY_NO_SESSION", "SELF_TEST_REQUIRED"} /\ p2'.core = "IDLE"
          /\ p2'.staged = None /\ p2'.active = None /\ p2'.result = None /\ p2'.bad = 0
      BY <2>1, <2>2, <2>3 DEF P2Registers
    <2>6. P2Cycle
      BY <2>4, <2>5 DEF P2Cycle, P2Sound, P2Engines, P2Banks, P2Move
    <2> QED BY <1>2, <2>6, P2Answers DEF Answer, P2Served
  <1> QED BY <1>1, <1>2 DEF P2Abort

(* ACK_AUTH_RESULT releases the result it names and no other. *)
LEMMA P2AckStep ==
  ASSUME P2Sound(p2), twice = FALSE, NEW q \in P2Requests, P2Ack(p2, q), q.arg # Malformed,
         p2.core = "IDLE"
  PROVE  P2Served
  <1>1. CASE \E code \in {"BAD_SESSION", "OK", "RESULT_NOT_READY"} : P2Reply(p2, code)
    <2>1. P2Move(p2, p2)
      BY DEF P2Move
    <2> QED BY <1>1, <2>1, P2ReplyStep, P2Answers
  <1>2. CASE /\ p2.result # None /\ q.arg.id = p2.result.id /\ q.arg.seq = p2.result.seq
             /\ p2' = [p2 EXCEPT !.result = None, !.ack = q.arg]
             /\ Answer("OK") /\ UNCHANGED <<nets, twice>>
    <2>1. q.arg \in [id: Ids, seq: 1..MaxSeq]
      BY P2RequestTypes DEF P2Ack
    <2>2. p2 \in P2Registers /\ q.arg \in P2Acks
      BY <2>1 DEF P2Sound, P2Acks
    <2>3. p2' \in P2Registers
      BY <1>2, <2>2, P2Values DEF P2Registers
    <2>4. /\ p2'.core = "IDLE" /\ p2'.session = p2.session /\ p2'.active = p2.active
          /\ p2'.staged = p2.staged /\ p2'.last = p2.last /\ p2'.result = None
          /\ p2'.fault = p2.fault /\ p2'.ack = q.arg
      BY <1>2, <2>2 DEF P2Registers
    <2>5. q.arg = [id |-> p2.result.id, seq |-> p2.result.seq]
      BY <1>2, <2>1
    <2>6. P2Sound(p2')
      BY <1>2, <2>3, <2>4 DEF P2Sound, P2Engines, P2Banks
    <2>7. P2Move(p2, p2')
      BY <1>2, <2>4, <2>5 DEF P2Move
    <2> QED BY <1>2, <2>6, <2>7, P2Answers DEF P2Cycle, Answer, P2Served
  <1> QED BY <1>1, <1>2 DEF P2Ack

(* Every request, whatever the receive path does in the same cycle. *)
LEMMA P2RequestStep ==
  ASSUME P2Sound(p2), twice = FALSE, NEW f \in P2Frames \cup {None}, NEW q \in P2Requests,
         P2Request(f, q)
  PROVE  P2Served
  <1>1. PICK p \in Progress(f) : P2Serve(p, f, q)
    BY DEF P2Request
  <1>2. P2Sound(p) /\ P2Move(p2, p) /\ (p2.core = "IDLE" /\ f = None => p = p2)
    BY P2Progressed DEF P2Request
  <1>3. CASE P2Blocked(q) /\ P2Repeat(p, q)
    <2>1. CASE P2Reply(p, RetainedCode(p2.ret, q))
      BY <1>2, <2>1, P2ReplyStep, P2Answers
    <2>2. CASE q.txid # p2.ret.txid /\ q.cmd = "ZEROIZE" /\ P2StartZeroize(p, q)
      BY <1>2, <2>2, P2StartZeroizeStep
    <2> QED BY <1>3, <2>1, <2>2 DEF P2Repeat
  <1>4. CASE P2Reply(p, "BUSY") \/ P2Reply(p, "BAD_LENGTH")
    BY <1>2, <1>4, P2ReplyStep, P2Answers
  <1>5. CASE /\ ~P2Blocked(q) /\ ~((p2.core # "IDLE" \/ f # None) /\ q.cmd \notin Urgent)
             /\ q.arg # Malformed /\ P2Dispatch(p, q)
    <2>1. q.cmd \in P2Retained => p2.ret = None
      BY <1>5 DEF P2Blocked
    <2>2. q.cmd \notin Urgent => p2.core = "IDLE" /\ p = p2
      BY <1>2, <1>5
    <2>3. CASE P2Read(p, q)
      <3>1. PICK code \in Codes : P2Reply(p, code)
        BY <2>3, P2Answers DEF P2Read
      <3> QED BY <1>2, <3>1, P2ReplyStep
    <2>4. CASE P2RunSelfTest(p, q)
      BY <2>1, <2>2, <2>4, P2SelfTestStep DEF P2RunSelfTest, Urgent, P2Retained
    <2>5. CASE P2Retire(p, q)
      BY <2>2, <2>5, P2RetireStep DEF P2Retire, Urgent
    <2>6. CASE P2Zeroize(p, q)
      <3>1. CASE P2Reply(p, "NOT_SUPPORTED")
        BY <1>2, <3>1, P2ReplyStep, P2Answers
      <3>2. CASE P2StartZeroize(p, q)
        <4>1. q.cmd = "ZEROIZE"
          BY <2>6 DEF P2Zeroize
        <4>2. p2.ret = None
          BY <2>1, <4>1 DEF P2Retained
        <4> QED BY <1>2, <3>2, <4>1, <4>2, P2StartZeroizeStep
      <3> QED BY <2>6, <3>1, <3>2 DEF P2Zeroize
    <2>7. CASE P2Stage(p, q)
      BY <1>5, <2>2, <2>7, P2StageStep DEF P2Stage, Urgent
    <2>8. CASE P2Commit(p, q)
      BY <2>1, <2>2, <2>8, P2CommitStep DEF P2Commit, Urgent, P2Retained
    <2>9. CASE P2Abort(p, q)
      BY <1>2, <2>9, P2AbortStep
    <2>10. CASE P2Ack(p, q)
      BY <1>5, <2>2, <2>10, P2AckStep DEF P2Ack, Urgent
    <2> QED BY <1>5, <2>3, <2>4, <2>5, <2>6, <2>7, <2>8, <2>9, <2>10 DEF P2Dispatch
  <1> QED BY <1>1, <1>3, <1>4, <1>5 DEF P2Serve

-----------------------------------------------------------------------------
(* The invariant. *)

(* The registers after a power cycle. *)
LEMMA P2ResetSound == P2Sound(P2Reset) /\ P2Reset.active = None
  <1>1. P2Reset \in P2Registers
    BY P2Values, P2States DEF P2Reset, P2Registers
  <1>2. /\ P2Reset.core = "IDLE" /\ P2Reset.session = "SELF_TEST_REQUIRED"
        /\ P2Reset.staged = None /\ P2Reset.active = None /\ P2Reset.result = None
        /\ P2Reset.bad = 0
    BY DEF P2Reset
  <1> QED BY <1>1, <1>2 DEF P2Sound, P2Engines, P2Banks

(* The invariant holds out of reset. *)
LEMMA P2InitIInv == P2AloneInit => P2IInv
  <1> SUFFICES ASSUME P2AloneInit PROVE P2IInv
    OBVIOUS
  <1>1. /\ p2 = P2Reset /\ twice = FALSE /\ reply = "OK"
        /\ secure = FALSE /\ fatal = FALSE /\ zeroizeN = FALSE
    BY DEF P2AloneInit, P2Init
  <1>2. P2TypeOK
    BY <1>1, P2ResetSound, P2Answers DEF P2TypeOK, P2Sound
  <1> QED BY <1>1, <1>2, P2ResetSound DEF P2IInv

(* Every step but a change of the nets is a cycle of the core. *)
LEMMA P2CycleStep ==
  ASSUME P2IInv, P2Next, ~(Nets /\ UNCHANGED <<reply, p2vars>>)
  PROVE  P2Served
  <1>1. P2Sound(p2) /\ twice = FALSE /\ reply \in Codes
    BY DEF P2IInv, P2TypeOK
  <1>2. CASE P2Engine
    <2>1. P2Cycle
      BY <1>2, P2ForceStep, P2ReleaseStep, P2ZeroizeDoneStep DEF P2Engine
    <2>2. UNCHANGED <<nets, reply, twice>>
      BY <1>2 DEF P2Engine, P2ForceZeroize, P2Release, P2ZeroizeDone
    <2> QED BY <1>1, <1>2, <2>1, <2>2 DEF P2Served
  <1>3. CASE P2PowerCycle
    BY <1>1, <1>3, P2ResetSound DEF P2PowerCycle, P2Cycle, P2Move, P2Served
  <1>4. ASSUME NEW f \in P2Frames \cup {None}, P2Receive(f)
        PROVE  P2Served
    BY <1>1, <1>4, P2Progressed DEF P2Receive, P2Served, P2Cycle
  <1>5. ASSUME NEW f \in P2Frames \cup {None}, P2TransportError(f)
        PROVE  P2Served
    <2>1. PICK p \in Progress(f) : P2Reply(p, "BAD_CRC")
      BY <1>5 DEF P2TransportError
    <2>2. P2Sound(p) /\ P2Move(p2, p)
      BY <1>1, <1>5, P2Progressed DEF P2TransportError
    <2> QED BY <1>1, <2>1, <2>2, P2ReplyStep, P2Answers
  <1>6. ASSUME NEW f \in P2Frames \cup {None}, NEW q \in P2Requests, P2Request(f, q)
        PROVE  P2Served
    BY <1>1, <1>6, P2RequestStep
  <1> QED BY <1>2, <1>3, <1>4, <1>5, <1>6 DEF P2Next

(* The invariant is inductive. *)
LEMMA P2StepIInv == P2IInv /\ [P2Next]_P2Vars => P2IInv'
  <1> SUFFICES ASSUME P2IInv, [P2Next]_P2Vars PROVE P2IInv'
    OBVIOUS
  <1>1. CASE Nets /\ UNCHANGED <<reply, p2vars>>
    BY <1>1 DEF Nets, p2vars, P2IInv, P2TypeOK
  <1>2. CASE UNCHANGED P2Vars
    BY <1>2 DEF P2Vars, p2vars, nets, P2IInv, P2TypeOK
  <1>3. CASE P2Next /\ ~(Nets /\ UNCHANGED <<reply, p2vars>>)
    <2>1. P2Served
      BY <1>3, P2CycleStep
    <2>2. P2Sound(p2') /\ p2' \in P2Registers
      BY <2>1 DEF P2Served, P2Cycle, P2Sound
    <2>3. P2TypeOK'
      BY <2>1, <2>2 DEF P2IInv, P2TypeOK, P2Served, nets
    <2> QED BY <2>1, <2>2, <2>3 DEF P2IInv, P2Served
  <1> QED BY <1>1, <1>2, <1>3

(* The registers of the core stay sound in every reachable state, for any   *)
(* master, any supervisor and any frames.                                   *)
THEOREM P2Invariant == P2Spec => []P2IInv
  BY P2InitIInv, P2StepIInv, PTL DEF P2Spec

(* The type invariant: in particular the count of bad tags stays below the  *)
(* threshold.                                                               *)
THEOREM P2TypeTheorem == P2Spec => []P2TypeOK
  <1>1. P2IInv => P2TypeOK
    BY DEF P2IInv
  <1> QED BY <1>1, P2Invariant, PTL

(* A readable result was authenticated under the key of the session that is *)
(* active, with the last accepted sequence number, and no bad tag has been  *)
(* counted since.                                                           *)
THEOREM P2AuthenticTheorem == P2Spec => []P2ResultAuthentic
  <1>1. P2IInv => P2ResultAuthentic
    BY DEF P2IInv, P2Sound, P2Banks, P2ResultAuthentic
  <1> QED BY <1>1, P2Invariant, PTL

(* A latched fault excludes ACTIVE until reset. *)
THEOREM P2FaultTheorem == P2Spec => []P2FaultNeverActive
  <1>1. P2IInv => P2FaultNeverActive
    BY DEF P2IInv, P2Sound, P2Banks, P2FaultNeverActive
  <1> QED BY <1>1, P2Invariant, PTL

(* Outside a session the core holds neither keys nor plaintext, and the     *)
(* engine never works without a key; without a session no bad tag is        *)
(* counted.                                                                 *)
THEOREM P2KeysTheorem == P2Spec => []P2KeysGone
  <1>1. P2IInv => P2KeysGone
    BY DEF P2IInv, P2Sound, P2Engines, P2Banks, P2KeysGone
  <1> QED BY <1>1, P2Invariant, PTL

(* No retained transaction is ever run a second time. *)
THEOREM P2OnceTheorem == P2Spec => []P2ExecutedOnce
  <1>1. P2IInv => P2ExecutedOnce
    BY DEF P2IInv, P2ExecutedOnce
  <1> QED BY <1>1, P2Invariant, PTL

(* A pending result leaves only by the ACK that names it or together with   *)
(* its session.                                                             *)
THEOREM P2KeptTheorem == P2Spec => P2ResultKept
  <1>1. P2IInv /\ [P2Next]_P2Vars =>
          [p2.result # None /\ p2'.result # p2.result =>
             /\ p2'.result = None
             /\ \/ p2'.ack = [id |-> p2.result.id, seq |-> p2.result.seq]
                \/ p2'.active = None]_P2Vars
    <2> SUFFICES ASSUME P2IInv, P2Next, p2.result # None, p2'.result # p2.result
                 PROVE  /\ p2'.result = None
                        /\ \/ p2'.ack = [id |-> p2.result.id, seq |-> p2.result.seq]
                           \/ p2'.active = None
      OBVIOUS
    <2>1. P2Cycle
      BY P2CycleStep DEF p2vars, P2Served
    <2>2. p2.active # None
      BY DEF P2IInv, P2Sound, P2Banks
    <2> QED BY <2>1, <2>2 DEF P2Cycle, P2Move, P2Sound, P2Banks
  <1> QED BY <1>1, P2Invariant, PTL DEF P2Spec, P2ResultKept

(* Within a session no frame is accepted twice, for any number of frames;   *)
(* a new session starts from 0.                                             *)
THEOREM P2NoReplayTheorem == P2Spec => P2NoReplay
  <1>1. P2IInv /\ [P2Next]_P2Vars =>
          [/\ p2.active # None /\ p2'.active = p2.active =>
                /\ p2'.last >= p2.last
                /\ p2'.result \notin {None, p2.result} => p2'.last > p2.last
           /\ p2'.active \notin {None, p2.active} => p2'.last = 0]_P2Vars
    <2> SUFFICES ASSUME P2IInv, P2Next
                 PROVE  /\ p2.active # None /\ p2'.active = p2.active =>
                             /\ p2'.last >= p2.last
                             /\ p2'.result \notin {None, p2.result} => p2'.last > p2.last
                        /\ p2'.active \notin {None, p2.active} => p2'.last = 0
      OBVIOUS
    <2>1. p2.last \in 0..MaxSeq
      BY P2Fields DEF P2IInv, P2TypeOK
    <2>2. /\ p2.last >= p2.last /\ p2.last + 1 >= p2.last /\ p2.last + 1 > p2.last
      BY <2>1, PrimerAssumption DEF PrimerAssumption
    <2>3. CASE p2' = p2
      BY <2>2, <2>3
    <2>4. CASE p2' # p2
      <3>1. P2Move(p2, p2')
        BY <2>4, P2CycleStep DEF p2vars, P2Served, P2Cycle
      <3> QED BY <2>2, <3>1 DEF P2Move
    <2> QED BY <2>3, <2>4
  <1> QED BY <1>1, P2Invariant, PTL DEF P2Spec, P2NoReplay
=============================================================================
