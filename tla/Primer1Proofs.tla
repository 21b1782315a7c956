--------------------------- MODULE Primer1Proofs ---------------------------
(* Safety of the Primer #1 command core, for any sets of identifiers, keys, *)
(* transactions and telemetry images and any bound on the frames.           *)
EXTENDS Primer1, TLAPS

(* The values the handlers assign. *)
LEMMA Values ==
  /\ None \in P1Banked /\ None \in P1Images /\ None \in P1Results /\ 1 \in P1Seqs
  /\ P1Cores = {"IDLE", "SELF_TEST", "ASCON", "UART", "ZEROIZE"}
  /\ P1Records \subseteq P1Results /\ Material \subseteq P1Banked
  /\ Telemetry \subseteq P1Images
  BY PrimerAssumption
  DEF PrimerAssumption, P1Banked, P1Images, P1Results, P1Seqs, P1Cores

(* The session states that the modules name are states of a Primer. *)
LEMMA States ==
  {"SELF_TEST_REQUIRED", "SELF_TEST_RUNNING", "READY_NO_SESSION", "STAGED",
   "COMMITTED_BLOCKED", "ACTIVE", "ZEROIZE_BUSY", "FAULT_LOCKED"} \subseteq SessionStates
  BY DEF SessionStates

(* The fields of the registers. *)
LEMMA Fields ==
  ASSUME NEW p \in P1Registers
  PROVE  /\ p.session \in SessionStates /\ p.core \in P1Cores /\ p.pass \in BOOLEAN
         /\ p.fault \in BOOLEAN /\ p.fromCommand \in BOOLEAN /\ p.dueToFault \in BOOLEAN
         /\ p.staged \in P1Banked /\ p.active \in P1Banked /\ p.seq \in P1Seqs
         /\ p.tel \in P1Images /\ p.ret \in P1Results
  BY DEF P1Registers

(* The wipe keeps the registers in range and empties the banks. *)
LEMMA Wipe ==
  ASSUME NEW p \in P1Registers
  PROVE  /\ P1Wipe(p) \in P1Registers
         /\ P1Wipe(p).staged = None /\ P1Wipe(p).active = None
         /\ P1Wipe(p).tel = None /\ P1Wipe(p).seq = 1
         /\ P1Wipe(p).ret = p.ret /\ P1Wipe(p).fault = p.fault
         /\ P1Wipe(p).core = p.core /\ P1Wipe(p).session = p.session
         /\ P1Wipe(p).fromCommand = p.fromCommand
  BY Values DEF P1Wipe, P1Registers

(* Every assignment to the control registers keeps them in range. *)
LEMMA Control ==
  ASSUME NEW p \in P1Registers, NEW s \in SessionStates, NEW c \in P1Cores,
         NEW r \in P1Results, NEW f \in BOOLEAN, NEW g \in BOOLEAN, NEW h \in BOOLEAN
  PROVE  [p EXCEPT !.session = s, !.core = c, !.ret = r, !.fault = f,
                   !.dueToFault = g, !.fromCommand = h] \in P1Registers
  BY DEF P1Registers

(* A zeroize by the lines preserves the invariant. *)
LEMMA ForceStep ==
  ASSUME P1IInv, P1ForceZeroize, P1Record
  PROVE  P1IInv'
  <1>1. p1 \in P1Registers /\ fatal \in BOOLEAN
    BY DEF P1IInv, P1TypeOK
  <1> DEFINE w == P1Wipe(p1)
  <1>2. /\ w \in P1Registers /\ w.staged = None /\ w.active = None
        /\ w.tel = None /\ w.seq = 1
    BY <1>1, Wipe
  <1>3. p1' = [w EXCEPT !.session = "ZEROIZE_BUSY", !.core = "ZEROIZE",
                        !.ret = None, !.fault = @ \/ fatal,
                        !.dueToFault = fatal, !.fromCommand = FALSE]
    BY DEF P1ForceZeroize
  <1> HIDE DEF w
  <1>4. (w.fault \/ fatal) \in BOOLEAN
    BY <1>1, <1>2, Fields
  <1>5. p1' \in P1Registers
    <2> DEFINE e == w.fault \/ fatal
    <2>1. e \in BOOLEAN /\ fatal \in BOOLEAN /\ FALSE \in BOOLEAN
      BY <1>1, <1>4
    <2>2. "ZEROIZE_BUSY" \in SessionStates /\ "ZEROIZE" \in P1Cores /\ None \in P1Results
      BY Values, States
    <2>3. p1' = [w EXCEPT !.session = "ZEROIZE_BUSY", !.core = "ZEROIZE", !.ret = None,
                          !.fault = e, !.dueToFault = fatal, !.fromCommand = FALSE]
      BY <1>2, <1>3 DEF P1Registers
    <2> HIDE DEF e
    <2>4. [w EXCEPT !.session = "ZEROIZE_BUSY", !.core = "ZEROIZE", !.ret = None,
                    !.fault = e, !.dueToFault = fatal, !.fromCommand = FALSE] \in P1Registers
      BY <1>2, <2>1, <2>2, Control, ZenonT(60)
    <2> QED BY <2>3, <2>4
  <1>6. /\ p1'.session = "ZEROIZE_BUSY" /\ p1'.core = "ZEROIZE" /\ p1'.fromCommand = FALSE
        /\ p1'.staged = None /\ p1'.active = None /\ p1'.tel = None /\ p1'.ret = None
        /\ p1'.seq = 1
    BY <1>2, <1>3 DEF P1Registers
  <1>7. used' = {}
    BY <1>6 DEF P1Record, P1IInv, P1Banks
  <1>8. P1TypeOK'
    BY <1>5, <1>7 DEF P1IInv, P1TypeOK, P1ForceZeroize, nets
  <1> QED BY <1>6, <1>7, <1>8
          DEF P1IInv, P1KeysGone, P1EngineArmed, P1NoOrphan, P1CoreSession,
              P1CoreRecord, P1Banks, P1Fresh, P1NonceOnce

(* The core releases a committed session. *)
LEMMA ReleaseStep ==
  ASSUME P1IInv, P1Release, P1Record
  PROVE  P1IInv'
  <1>1. p1 \in P1Registers /\ p1.session = "COMMITTED_BLOCKED"
    BY DEF P1IInv, P1TypeOK, P1Release
  <1>2. p1' = [p1 EXCEPT !.session = "ACTIVE"] /\ UNCHANGED <<nets, reply, air, again>>
    BY DEF P1Release
  <1>3. p1' \in P1Registers
    BY <1>1, <1>2, States DEF P1Registers
  <1>4. /\ p1'.session = "ACTIVE" /\ p1'.core = p1.core /\ p1'.active = p1.active
        /\ p1'.seq = p1.seq /\ p1'.tel = p1.tel /\ p1'.ret = p1.ret
    BY <1>1, <1>2 DEF P1Registers
  <1>5. used' = used
    BY <1>4 DEF P1Record
  <1>6. P1TypeOK'
    BY <1>2, <1>3, <1>5 DEF P1IInv, P1TypeOK, nets
  <1>7. p1.core \notin {"SELF_TEST", "ZEROIZE", "ASCON", "UART"}
    BY <1>1 DEF P1IInv, P1CoreSession, P1EngineArmed
  <1> QED BY <1>4, <1>5, <1>6, <1>7
          DEF P1IInv, P1KeysGone, P1EngineArmed, P1NoOrphan, P1CoreSession,
              P1CoreRecord, P1Banks, P1Fresh, P1NonceOnce

(* Completing a record leaves a terminal record. *)
LEMMA Completed ==
  ASSUME NEW r \in P1Records, NEW s \in {"SUCCEEDED", "FAILED", "ZEROIZED"},
         NEW d \in {None} \cup (Ids \X (1..MaxSeq))
  PROVE  /\ Complete(r, s, d) \in P1Records /\ Complete(r, s, d) \in P1Results
         /\ Terminal(Complete(r, s, d))
  BY DEF P1Records, P1Results, Retained, Complete, Terminal

(* A new record is running. *)
LEMMA Begun ==
  ASSUME NEW q, q.txid \in Txids, q.cmd \in P1Retained, q.arg \in Ids \cup {None}
  PROVE  /\ Begin(q) \in P1Records /\ Begin(q) \in P1Results
         /\ Begin(q).state = "RUNNING"
  BY DEF P1Records, P1Results, Retained, Begin

(* A wipe ends, by command or not. *)
LEMMA ZeroizeDoneStep ==
  ASSUME P1IInv, P1ZeroizeDone, P1Record
  PROVE  P1IInv'
  <1>1. /\ p1 \in P1Registers /\ p1.core = "ZEROIZE" /\ p1.session = "ZEROIZE_BUSY"
        /\ p1.staged = None /\ p1.active = None /\ p1.tel = None /\ used = {}
        /\ p1.fromCommand => p1.ret \in P1Records
        /\ ~p1.fromCommand => p1.ret = None
        /\ UNCHANGED <<nets, reply, air, again>>
    BY DEF P1IInv, P1TypeOK, P1ZeroizeDone, P1CoreSession, P1KeysGone, P1Banks,
           P1CoreRecord
  <1> DEFINE p == [p1 EXCEPT !.core = "IDLE", !.fromCommand = FALSE, !.dueToFault = FALSE]
  <1>2. p \in P1Registers
    BY <1>1, Values DEF P1Registers
  <1>3. /\ p.core = "IDLE" /\ p.staged = None /\ p.active = None /\ p.tel = None
        /\ p.ret = p1.ret
    BY <1>1 DEF P1Registers
  <1>d. \/ /\ p1.fromCommand
           /\ p1' = [p EXCEPT !.session = P1Idle, !.ret = Complete(@, "ZEROIZED", None)]
        \/ ~p1.fromCommand /\ p1' = [p EXCEPT !.session = "FAULT_LOCKED"]
        \/ ~p1.fromCommand /\ p1' = [p EXCEPT !.pass = FALSE, !.session = "SELF_TEST_REQUIRED"]
    BY DEF P1ZeroizeDone
  <1>i. P1Idle \in {"READY_NO_SESSION", "SELF_TEST_REQUIRED"}
    BY DEF P1Idle
  <1> HIDE DEF p
  <1>4. /\ p1' \in P1Registers /\ p1'.core = "IDLE"
        /\ p1'.session \in {"READY_NO_SESSION", "SELF_TEST_REQUIRED", "FAULT_LOCKED"}
        /\ p1'.staged = None /\ p1'.active = None /\ p1'.tel = None
        /\ ~p1.fromCommand \/ Terminal(p1'.ret)
        /\ ~p1.fromCommand => p1'.ret = p1.ret
    <2>1. CASE /\ p1.fromCommand
               /\ p1' = [p EXCEPT !.session = P1Idle, !.ret = Complete(@, "ZEROIZED", None)]
      <3>1. Complete(p.ret, "ZEROIZED", None) \in P1Results
            /\ Terminal(Complete(p.ret, "ZEROIZED", None))
        BY <1>1, <1>3, <2>1, Completed
      <3>2. p1' \in P1Registers
        BY <1>2, <1>i, <2>1, <3>1, States DEF P1Registers
      <3> QED BY <1>2, <1>3, <1>i, <2>1, <3>1, <3>2 DEF P1Registers
    <2>2. CASE ~p1.fromCommand /\ p1' = [p EXCEPT !.session = "FAULT_LOCKED"]
      BY <1>2, <1>3, <2>2, States DEF P1Registers
    <2>3. CASE /\ ~p1.fromCommand
               /\ p1' = [p EXCEPT !.pass = FALSE, !.session = "SELF_TEST_REQUIRED"]
      <3>1. p1' \in P1Registers
        BY <1>2, <2>3, States DEF P1Registers
      <3> QED BY <1>2, <1>3, <2>3, <3>1 DEF P1Registers
    <2> QED BY <1>d, <2>1, <2>2, <2>3
  <1>5. used' = {}
    BY <1>1, <1>4 DEF P1Record
  <1>6. P1TypeOK'
    BY <1>1, <1>4, <1>5 DEF P1IInv, P1TypeOK, nets
  <1>7. P1NoOrphan'
    BY <1>1, <1>4 DEF P1NoOrphan
  <1> QED BY <1>4, <1>5, <1>6, <1>7
          DEF P1IInv, P1KeysGone, P1EngineArmed, P1CoreSession,
              P1CoreRecord, P1Banks, P1Fresh, P1NonceOnce

(* The self-test ends and leaves no key. *)
LEMMA SelfTestDoneStep ==
  ASSUME P1IInv, P1SelfTestDone, P1Record
  PROVE  P1IInv'
  <1>1. /\ p1 \in P1Registers /\ p1.core = "SELF_TEST" /\ p1.session = "SELF_TEST_RUNNING"
        /\ p1.staged = None /\ p1.active = None /\ p1.tel = None /\ used = {}
        /\ p1.ret \in P1Records /\ UNCHANGED <<nets, reply, air, again>>
    BY DEF P1IInv, P1TypeOK, P1SelfTestDone, P1CoreSession, P1KeysGone, P1Banks,
           P1CoreRecord
  <1>2. /\ Complete(p1.ret, "SUCCEEDED", None) \in P1Results
        /\ Terminal(Complete(p1.ret, "SUCCEEDED", None))
        /\ Complete(p1.ret, "FAILED", None) \in P1Results
        /\ Terminal(Complete(p1.ret, "FAILED", None))
    BY <1>1, Completed
  <1>3. /\ p1' \in P1Registers /\ p1'.core = "IDLE"
        /\ p1'.session \in {"READY_NO_SESSION", "FAULT_LOCKED"}
        /\ p1'.staged = None /\ p1'.active = None /\ p1'.tel = None
        /\ Terminal(p1'.ret)
    <2>1. CASE p1' = [p1 EXCEPT !.core = "IDLE", !.pass = TRUE,
                                !.session = "READY_NO_SESSION",
                                !.ret = Complete(@, "SUCCEEDED", None)]
      <3>1. p1' \in P1Registers
        BY <1>1, <1>2, <2>1, Values, States DEF P1Registers
      <3> QED BY <1>1, <1>2, <2>1, <3>1 DEF P1Registers
    <2>2. CASE p1' = [p1 EXCEPT !.core = "IDLE", !.fault = TRUE, !.session = "FAULT_LOCKED",
                                !.ret = Complete(@, "FAILED", None)]
      <3>1. p1' \in P1Registers
        BY <1>1, <1>2, <2>2, Values, States DEF P1Registers
      <3> QED BY <1>1, <1>2, <2>2, <3>1 DEF P1Registers
    <2> QED BY <2>1, <2>2 DEF P1SelfTestDone
  <1>4. used' = {}
    BY <1>1, <1>3 DEF P1Record
  <1>5. P1TypeOK'
    BY <1>1, <1>3, <1>4 DEF P1IInv, P1TypeOK, nets
  <1> QED BY <1>3, <1>4, <1>5
          DEF P1IInv, P1KeysGone, P1EngineArmed, P1NoOrphan, P1CoreSession,
              P1CoreRecord, P1Banks, P1Fresh, P1NonceOnce

(* The ciphertext is complete; the frame goes out. *)
LEMMA AsconDoneStep ==
  ASSUME P1IInv, P1AsconDone, P1Record
  PROVE  P1IInv'
  <1>1. /\ p1 \in P1Registers /\ p1.core = "ASCON"
        /\ p1' = [p1 EXCEPT !.core = "UART"] /\ UNCHANGED <<nets, reply, air, again>>
    BY DEF P1IInv, P1TypeOK, P1AsconDone
  <1>2. p1' \in P1Registers
    BY <1>1, Values DEF P1Registers
  <1>3. /\ p1'.core = "UART" /\ p1'.session = p1.session /\ p1'.active = p1.active
        /\ p1'.staged = p1.staged /\ p1'.fault = p1.fault
        /\ p1'.seq = p1.seq /\ p1'.tel = p1.tel /\ p1'.ret = p1.ret
    BY <1>1 DEF P1Registers
  <1>4. used' = used
    BY <1>1, <1>3 DEF P1Record
  <1>5. P1TypeOK'
    BY <1>1, <1>2, <1>4 DEF P1IInv, P1TypeOK, nets
  <1> QED BY <1>1, <1>3, <1>4, <1>5
          DEF P1IInv, P1KeysGone, P1EngineArmed, P1NoOrphan, P1CoreSession,
              P1CoreRecord, P1Banks, P1Fresh, P1NonceOnce

(* The frame is out: its sequence number is spent. *)
LEMMA UartDoneStep ==
  ASSUME P1IInv, P1UartDone, P1Record
  PROVE  P1IInv'
  <1>1. /\ p1 \in P1Registers /\ p1.core = "UART" /\ p1.session = "ACTIVE"
        /\ p1.active # None /\ p1.ret \in P1Records
        /\ <<p1.seq, p1.tel>> \in used /\ used \subseteq (1..MaxSeq) \X Telemetry
        /\ UNCHANGED <<nets, reply, again>>
    BY DEF P1IInv, P1TypeOK, P1UartDone, P1EngineArmed, P1CoreRecord
  <1>2. /\ p1' = [p1 EXCEPT !.core = "IDLE", !.tel = None, !.seq = @ + 1,
                            !.ret = Complete(@, "SUCCEEDED", <<p1.active.id, p1.seq>>)]
        /\ air' = [id |-> p1.active.id, key |-> p1.active.key, seq |-> p1.seq, tel |-> p1.tel]
    BY DEF P1UartDone
  <1>3. p1.seq \in 1..MaxSeq /\ p1.tel \in Telemetry /\ p1.active \in Material
    BY <1>1, Fields DEF P1Banked
  <1>4. p1.seq + 1 \in P1Seqs /\ p1.active.id \in Ids /\ p1.active.key \in Keys
    BY <1>3, PrimerAssumption DEF PrimerAssumption, P1Seqs, Material
  <1>5. /\ Complete(p1.ret, "SUCCEEDED", <<p1.active.id, p1.seq>>) \in P1Results
        /\ Terminal(Complete(p1.ret, "SUCCEEDED", <<p1.active.id, p1.seq>>))
    BY <1>1, <1>3, <1>4, Completed
  <1>6. p1' \in P1Registers
    BY <1>1, <1>2, <1>4, <1>5, Values DEF P1Registers
  <1>7. /\ p1'.core = "IDLE" /\ p1'.session = "ACTIVE" /\ p1'.active = p1.active
        /\ p1'.seq = p1.seq + 1 /\ Terminal(p1'.ret)
    BY <1>1, <1>2, <1>5 DEF P1Registers
  <1>8. used' = used
    BY <1>1, <1>7 DEF P1Record
  <1>9. air' \in Frames
    BY <1>2, <1>3, <1>4 DEF Frames
  <1>10. P1TypeOK'
    BY <1>1, <1>6, <1>8, <1>9 DEF P1IInv, P1TypeOK, nets
  <1>11. P1Fresh'
    <2> SUFFICES ASSUME NEW x \in used PROVE x[1] < p1.seq + 1
      BY <1>7, <1>8 DEF P1Fresh
    <2>1. x[1] < p1.seq \/ x = <<p1.seq, p1.tel>>
      BY DEF P1IInv, P1Fresh
    <2>2. x[1] \in 1..MaxSeq
      BY <1>1
    <2> QED BY <2>1, <2>2, <1>3, PrimerAssumption DEF PrimerAssumption
  <1> QED BY <1>1, <1>7, <1>8, <1>10, <1>11
          DEF P1IInv, P1KeysGone, P1EngineArmed, P1NoOrphan, P1CoreSession,
              P1CoreRecord, P1Banks, P1NonceOnce

(* What a request of each kind carries. *)
LEMMA RequestTypes ==
  ASSUME NEW q \in P1Requests
  PROVE  /\ q.txid \in Txids
         /\ q.cmd = "STAGE_SESSION" /\ q.arg # Malformed => q.arg \in Material
         /\ q.cmd = "COMMIT_SESSION" /\ q.arg # Malformed => q.arg \in Ids
         /\ q.cmd = "LOAD_TELEMETRY" /\ q.arg # Malformed => q.arg \in Telemetry
         /\ q.cmd = "ENCRYPT_AND_SEND" /\ q.arg # Malformed => q.arg = None
  BY DEF P1Requests, CommonRequests, Request

(* An answer that leaves the core alone. *)
LEMMA ReplyStep ==
  ASSUME P1IInv, NEW code \in Codes, P1Reply(code), P1Record
  PROVE  P1IInv'
  <1>1. /\ UNCHANGED <<p1, air, again, nets>> /\ reply' \in Codes
    BY DEF P1Reply, Answer
  <1>2. used' = used
    BY <1>1 DEF P1Record
  <1> QED BY <1>1, <1>2
          DEF P1IInv, P1TypeOK, nets, P1KeysGone, P1EngineArmed, P1NoOrphan,
              P1CoreSession, P1CoreRecord, P1Banks, P1Fresh, P1NonceOnce

(* The codes the handlers answer with. *)
LEMMA Answers ==
  /\ {"OK", "BAD_LENGTH", "BAD_STATE", "BAD_SESSION", "NOT_SUPPORTED", "BUSY",
      "BAD_COMMAND", "COMMIT_REJECTED", "TRANSACTION_CONFLICT", "SESSION_ID_COLLISION",
      "BAD_CRC"} \subseteq Codes
  /\ \A q : P1TxnCode(q) \in Codes
  /\ \A r, q : RetainedCode(r, q) \in Codes
  BY DEF Codes, P1TxnCode, RetainedCode

(* RUN_SELF_TEST *)
LEMMA SelfTestStep ==
  ASSUME P1IInv, P1Record, NEW q \in P1Requests, P1RunSelfTest(q), q.arg # Malformed
  PROVE  P1IInv'
  <1>1. CASE P1Reply("NOT_SUPPORTED") \/ P1Reply("BAD_STATE")
    BY <1>1, ReplyStep, Answers
  <1>2. CASE /\ p1.session \in {"SELF_TEST_REQUIRED", "READY_NO_SESSION"}
             /\ p1' = [p1 EXCEPT !.session = "SELF_TEST_RUNNING", !.core = "SELF_TEST",
                                 !.ret = Begin(q)]
             /\ q.arg = None /\ P1Begun(q) /\ Answer("OK") /\ UNCHANGED <<nets, air>>
    <2>1. /\ p1 \in P1Registers /\ p1.staged = None /\ p1.active = None
          /\ p1.tel = None /\ used = {}
      BY <1>2 DEF P1IInv, P1TypeOK, P1KeysGone, P1Banks
    <2>2. Begin(q) \in P1Records /\ Begin(q) \in P1Results
      BY <1>2, RequestTypes, Begun DEF P1RunSelfTest, P1Retained
    <2>3. p1' \in P1Registers
      BY <1>2, <2>1, <2>2, Values, States DEF P1Registers
    <2>4. /\ p1'.session = "SELF_TEST_RUNNING" /\ p1'.core = "SELF_TEST"
          /\ p1'.ret \in P1Records /\ p1'.staged = None /\ p1'.active = None
          /\ p1'.tel = None
      BY <1>2, <2>1, <2>2 DEF P1Registers
    <2>5. used' = {}
      BY <2>1, <2>4 DEF P1Record
    <2>6. again' \in BOOLEAN /\ reply' \in Codes
      BY <1>2, Answers DEF P1Begun, Answer
    <2>7. P1TypeOK'
      BY <1>2, <2>3, <2>5, <2>6 DEF P1IInv, P1TypeOK, nets
    <2> QED BY <2>4, <2>5, <2>7
            DEF P1IInv, P1KeysGone, P1EngineArmed, P1NoOrphan, P1CoreSession,
                P1CoreRecord, P1Banks, P1Fresh, P1NonceOnce
  <1> QED BY <1>1, <1>2 DEF P1RunSelfTest

(* RETIRE_TXN_RESULT: the core is idle, so no engine loses its record. *)
LEMMA RetireStep ==
  ASSUME P1IInv, P1Record, NEW q \in P1Requests, P1Retire(q), p1.core = "IDLE"
  PROVE  P1IInv'
  <1>1. /\ p1 \in P1Registers /\ UNCHANGED <<nets, air, again>> /\ reply' \in Codes
        /\ p1' = [p1 EXCEPT !.ret = IF P1TxnCode(q) = "OK" THEN None ELSE @]
    BY Answers DEF P1IInv, P1TypeOK, P1Retire, Answer
  <1>2. PICK r \in {None, p1.ret} : p1' = [p1 EXCEPT !.ret = r]
    BY <1>1
  <1>3. r \in P1Results
    BY <1>1, <1>2, Values, Fields
  <1>4. p1' \in P1Registers
    BY <1>1, <1>2, <1>3 DEF P1Registers
  <1>5. /\ p1'.core = "IDLE" /\ p1'.session = p1.session /\ p1'.active = p1.active
        /\ p1'.staged = p1.staged /\ p1'.seq = p1.seq /\ p1'.tel = p1.tel
        /\ p1'.ret \in {None, p1.ret}
    BY <1>1, <1>2 DEF P1Registers
  <1>6. used' = used
    BY <1>5 DEF P1Record
  <1>7. P1TypeOK'
    BY <1>1, <1>4, <1>6 DEF P1IInv, P1TypeOK, nets
  <1> QED BY <1>5, <1>6, <1>7
          DEF P1IInv, P1KeysGone, P1EngineArmed, P1NoOrphan, P1CoreSession,
              P1CoreRecord, P1Banks, P1Fresh, P1NonceOnce

(* ZEROIZE *)
LEMMA ZeroizeStep ==
  ASSUME P1IInv, P1Record, NEW q \in P1Requests, P1Zeroize(q), q.arg # Malformed
  PROVE  P1IInv'
  <1>1. CASE P1Reply("NOT_SUPPORTED")
    BY <1>1, ReplyStep, Answers
  <1>2. CASE /\ q.arg = None
             /\ p1' = [P1Wipe(p1) EXCEPT !.session = "ZEROIZE_BUSY", !.core = "ZEROIZE",
                                         !.fromCommand = TRUE, !.dueToFault = FALSE,
                                         !.ret = Begin(q)]
             /\ P1Begun(q) /\ Answer("OK") /\ UNCHANGED <<nets, air>>
    <2> DEFINE w == P1Wipe(p1)
    <2>1. /\ w \in P1Registers /\ w.staged = None /\ w.active = None
          /\ w.tel = None /\ w.seq = 1
      BY Wipe DEF P1IInv, P1TypeOK
    <2>2. Begin(q) \in P1Records /\ Begin(q) \in P1Results
      BY <1>2, RequestTypes, Begun DEF P1Zeroize, P1Retained
    <2>3. p1' = [w EXCEPT !.session = "ZEROIZE_BUSY", !.core = "ZEROIZE",
                          !.fromCommand = TRUE, !.dueToFault = FALSE, !.ret = Begin(q)]
      BY <1>2
    <2> HIDE DEF w
    <2>4. p1' \in P1Registers
      BY <2>1, <2>2, <2>3, Values, States DEF P1Registers
    <2>5. /\ p1'.session = "ZEROIZE_BUSY" /\ p1'.core = "ZEROIZE" /\ p1'.fromCommand = TRUE
          /\ p1'.staged = None /\ p1'.active = None /\ p1'.tel = None
          /\ p1'.ret \in P1Records
      BY <2>1, <2>2, <2>3 DEF P1Registers
    <2>6. used' = {}
      BY <2>5 DEF P1Record, P1IInv, P1Banks
    <2>7. again' \in BOOLEAN /\ reply' \in Codes
      BY <1>2, Answers DEF P1Begun, Answer
    <2>8. P1TypeOK'
      BY <1>2, <2>4, <2>6, <2>7 DEF P1IInv, P1TypeOK, nets
    <2> QED BY <2>5, <2>6, <2>8
            DEF P1IInv, P1KeysGone, P1EngineArmed, P1NoOrphan, P1CoreSession,
                P1CoreRecord, P1Banks, P1Fresh, P1NonceOnce
  <1> QED BY <1>1, <1>2 DEF P1Zeroize

(* STAGE_SESSION *)
LEMMA StageStep ==
  ASSUME P1IInv, P1Record, NEW q \in P1Requests, P1Stage(q), q.arg # Malformed,
         p1.core = "IDLE"
  PROVE  P1IInv'
  <1>1. CASE P1Reply("BAD_STATE") \/ P1Reply("OK") \/ P1Reply("SESSION_ID_COLLISION")
    BY <1>1, ReplyStep, Answers
  <1>2. CASE /\ p1.session \in {"READY_NO_SESSION", "STAGED"}
             /\ p1' = [p1 EXCEPT !.staged = q.arg, !.session = "STAGED"]
             /\ Answer("OK") /\ UNCHANGED <<nets, air, again>>
    <2>1. p1 \in P1Registers /\ p1.active = None /\ used = {}
      BY <1>2 DEF P1IInv, P1TypeOK, P1Banks
    <2>2. q.arg \in P1Banked
      BY RequestTypes, Values DEF P1Stage
    <2>3. p1' \in P1Registers
      BY <1>2, <2>1, <2>2, States DEF P1Registers
    <2>4. /\ p1'.session = "STAGED" /\ p1'.core = "IDLE" /\ p1'.active = None
          /\ p1'.ret = p1.ret
      BY <1>2, <2>1 DEF P1Registers
    <2>5. used' = {}
      BY <2>1, <2>4 DEF P1Record
    <2>6. P1TypeOK'
      BY <1>2, <2>3, <2>5, Answers DEF P1IInv, P1TypeOK, nets, Answer
    <2> QED BY <2>4, <2>5, <2>6
            DEF P1IInv, P1KeysGone, P1EngineArmed, P1NoOrphan, P1CoreSession,
                P1CoreRecord, P1Banks, P1Fresh, P1NonceOnce
  <1> QED BY <1>1, <1>2 DEF P1Stage

(* COMMIT_SESSION: the new key starts with no nonce used. *)
LEMMA CommitStep ==
  ASSUME P1IInv, P1Record, NEW q \in P1Requests, P1Commit(q), q.arg # Malformed,
         p1.core = "IDLE"
  PROVE  P1IInv'
  <1>1. CASE P1Reply("COMMIT_REJECTED") \/ P1Reply("BAD_SESSION")
    BY <1>1, ReplyStep, Answers
  <1>2. CASE /\ p1.session = "STAGED" /\ p1.staged # None
             /\ p1' = [p1 EXCEPT !.active = p1.staged, !.staged = None, !.seq = 1,
                                 !.session = "COMMITTED_BLOCKED",
                                 !.ret = Complete(Begin(q), "SUCCEEDED", None)]
             /\ P1Begun(q) /\ Answer("OK") /\ UNCHANGED <<nets, air>>
    <2>1. p1 \in P1Registers /\ p1.active = None /\ used = {}
      BY <1>2 DEF P1IInv, P1TypeOK, P1Banks
    <2>2. Begin(q) \in P1Records
      BY RequestTypes, Begun DEF P1Commit, P1Retained
    <2> DEFINE r == Complete(Begin(q), "SUCCEEDED", None)
    <2>3. r \in P1Results /\ Terminal(r)
      BY <2>2, Completed
    <2>4. p1' = [p1 EXCEPT !.active = p1.staged, !.staged = None, !.seq = 1,
                           !.session = "COMMITTED_BLOCKED", !.ret = r]
      BY <1>2
    <2> HIDE DEF r
    <2>5. p1' \in P1Registers
      BY <2>1, <2>3, <2>4, Values, States, Fields DEF P1Registers
    <2>6. /\ p1'.session = "COMMITTED_BLOCKED" /\ p1'.core = "IDLE"
          /\ p1'.active # None /\ Terminal(p1'.ret)
      BY <1>2, <2>1, <2>3, <2>4 DEF P1Registers
    <2>7. used' = {}
      BY <2>1, <2>6 DEF P1Record
    <2>8. again' \in BOOLEAN /\ reply' \in Codes
      BY <1>2, Answers DEF P1Begun, Answer
    <2>9. P1TypeOK'
      BY <1>2, <2>5, <2>7, <2>8 DEF P1IInv, P1TypeOK, nets
    <2> QED BY <2>6, <2>7, <2>9
            DEF P1IInv, P1KeysGone, P1EngineArmed, P1NoOrphan, P1CoreSession,
                P1CoreRecord, P1Banks, P1Fresh, P1NonceOnce
  <1> QED BY <1>1, <1>2 DEF P1Commit

(* ABORT_SESSION *)
LEMMA AbortStep ==
  ASSUME P1IInv, P1Record, NEW q \in P1Requests, P1Abort(q), p1.core = "IDLE"
  PROVE  P1IInv'
  <1>1. CASE P1Reply("BAD_SESSION")
    BY <1>1, ReplyStep, Answers
  <1>2. CASE /\ p1' = [P1Wipe(p1) EXCEPT !.session = P1Idle]
             /\ Answer("OK") /\ UNCHANGED <<nets, air, again>>
    <2> DEFINE w == P1Wipe(p1)
    <2>1. /\ w \in P1Registers /\ w.staged = None /\ w.active = None
          /\ w.tel = None /\ w.core = "IDLE" /\ w.ret = p1.ret
      BY Wipe DEF P1IInv, P1TypeOK
    <2>2. P1Idle \in {"READY_NO_SESSION", "SELF_TEST_REQUIRED"}
      BY DEF P1Idle
    <2>3. p1' = [w EXCEPT !.session = P1Idle]
      BY <1>2
    <2> HIDE DEF w
    <2>4. p1' \in P1Registers
      BY <2>1, <2>2, <2>3, States DEF P1Registers
    <2>5. /\ p1'.session \in {"READY_NO_SESSION", "SELF_TEST_REQUIRED"}
          /\ p1'.staged = None /\ p1'.active = None /\ p1'.tel = None
          /\ p1'.core = "IDLE" /\ p1'.ret = p1.ret
      BY <2>1, <2>2, <2>3 DEF P1Registers
    <2>6. used' = {}
      BY <2>5 DEF P1Record, P1IInv, P1Banks
    <2>7. P1TypeOK'
      BY <1>2, <2>4, <2>6, Answers DEF P1IInv, P1TypeOK, nets, Answer
    <2> QED BY <2>5, <2>6, <2>7
            DEF P1IInv, P1KeysGone, P1EngineArmed, P1NoOrphan, P1CoreSession,
                P1CoreRecord, P1Banks, P1Fresh, P1NonceOnce
  <1> QED BY <1>1, <1>2 DEF P1Abort

(* LOAD_TELEMETRY *)
LEMMA LoadStep ==
  ASSUME P1IInv, P1Record, NEW q \in P1Requests, P1LoadTelemetry(q), q.arg # Malformed,
         p1.core = "IDLE"
  PROVE  P1IInv'
  <1>1. CASE P1Reply("BAD_STATE") \/ P1Reply("TRANSACTION_CONFLICT")
    BY <1>1, ReplyStep, Answers
  <1>2. CASE /\ p1.session = "ACTIVE" /\ p1' = [p1 EXCEPT !.tel = q.arg]
             /\ Answer("OK") /\ UNCHANGED <<nets, air, again>>
    <2>1. p1 \in P1Registers
      BY DEF P1IInv, P1TypeOK
    <2>2. q.arg \in P1Images
      BY RequestTypes, Values DEF P1LoadTelemetry
    <2>3. p1' \in P1Registers
      BY <1>2, <2>1, <2>2 DEF P1Registers
    <2>4. /\ p1'.session = "ACTIVE" /\ p1'.core = "IDLE" /\ p1'.active = p1.active
          /\ p1'.ret = p1.ret /\ p1'.seq = p1.seq
      BY <1>2, <2>1 DEF P1Registers
    <2>5. used' = used
      BY <2>4 DEF P1Record
    <2>6. P1TypeOK'
      BY <1>2, <2>3, <2>5, Answers DEF P1IInv, P1TypeOK, nets, Answer
    <2> QED BY <2>4, <2>5, <2>6
            DEF P1IInv, P1KeysGone, P1EngineArmed, P1NoOrphan, P1CoreSession,
                P1CoreRecord, P1Banks, P1Fresh, P1NonceOnce
  <1> QED BY <1>1, <1>2 DEF P1LoadTelemetry

(* ENCRYPT_AND_SEND: the next sequence number has not been used. *)
LEMMA EncryptStep ==
  ASSUME P1IInv, P1Record, NEW q \in P1Requests, P1Encrypt(q), q.arg # Malformed,
         p1.core = "IDLE"
  PROVE  P1IInv'
  <1>1. CASE P1Reply("BAD_STATE")
    BY <1>1, ReplyStep, Answers
  <1>2. CASE /\ p1.session = "ACTIVE" /\ p1.active # None /\ ~P1Fault /\ p1.tel # None
             /\ p1.seq <= MaxSeq
             /\ p1' = [p1 EXCEPT !.core = "ASCON", !.ret = Begin(q)]
             /\ P1Begun(q) /\ Answer("OK") /\ UNCHANGED <<nets, air>>
    <2>1. p1 \in P1Registers
      BY DEF P1IInv, P1TypeOK
    <2>2. p1.tel \in Telemetry /\ p1.seq \in 1..MaxSeq
      BY <1>2, <2>1, Fields, PrimerAssumption DEF PrimerAssumption, P1Images, P1Seqs
    <2>3. Begin(q) \in P1Records /\ Begin(q) \in P1Results
      BY RequestTypes, Begun DEF P1Encrypt, P1Retained
    <2>4. p1' \in P1Registers
      BY <1>2, <2>1, <2>3, Values DEF P1Registers
    <2>5. /\ p1'.session = "ACTIVE" /\ p1'.core = "ASCON" /\ p1'.active = p1.active
          /\ p1'.seq = p1.seq /\ p1'.tel = p1.tel /\ p1'.ret \in P1Records
          /\ p1'.fault = p1.fault
      BY <1>2, <2>1, <2>3 DEF P1Registers
    <2>6. used' = used \cup {<<p1.seq, p1.tel>>}
      BY <2>5 DEF P1Record
    <2>7. again' \in BOOLEAN /\ reply' \in Codes
      BY <1>2, Answers DEF P1Begun, Answer
    <2>8. P1TypeOK'
      BY <1>2, <2>2, <2>4, <2>6, <2>7 DEF P1IInv, P1TypeOK, nets
    <2>9. \A x \in used : x[1] < p1.seq /\ x[1] \in 1..MaxSeq
      BY DEF P1IInv, P1Fresh, P1TypeOK
    <2>10. P1Fresh'
      BY <2>5, <2>6, <2>9 DEF P1Fresh
    <2>11. P1NonceOnce'
      <3> SUFFICES ASSUME NEW x \in used', NEW y \in used', x[1] = y[1] PROVE x = y
        BY DEF P1NonceOnce
      <3>1. p1.seq \in Nat
        BY <2>2
      <3>2. \A z \in used : z[1] # p1.seq
        BY <2>9, <3>1
      <3>3. \A z \in {<<p1.seq, p1.tel>>} : z[1] = p1.seq
        OBVIOUS
      <3>4. CASE x \in used /\ y \in used
        BY <3>4 DEF P1IInv, P1NonceOnce
      <3> QED BY <2>6, <3>2, <3>3, <3>4
    <2>12. P1EngineArmed'
      BY <1>2, <2>5, <2>6 DEF P1EngineArmed, P1Fault
    <2> QED BY <1>2, <2>5, <2>8, <2>10, <2>11, <2>12
            DEF P1IInv, P1KeysGone, P1NoOrphan, P1CoreSession, P1CoreRecord, P1Banks
  <1> QED BY <1>1, <1>2 DEF P1Encrypt

(* Reset of the FPGA. *)
LEMMA ResetValues ==
  /\ P1Reset \in P1Registers
  /\ P1Reset.core = "IDLE" /\ P1Reset.session = "SELF_TEST_REQUIRED"
  /\ P1Reset.active = None /\ P1Reset.staged = None /\ P1Reset.tel = None
  /\ P1Reset.ret = None
  <1>1. P1Reset \in P1Registers
    BY Values, States DEF P1Reset, P1Registers
  <1> QED BY <1>1 DEF P1Reset

(* A power cycle preserves the invariant. *)
LEMMA PowerCycleStep ==
  ASSUME P1IInv, P1PowerCycle, P1Record
  PROVE  P1IInv'
  <1>1. p1' = P1Reset /\ again' = FALSE /\ UNCHANGED <<nets, reply, air>>
    BY DEF P1PowerCycle
  <1>2. used' = {}
    BY <1>1, ResetValues DEF P1Record, P1IInv, P1Banks
  <1>3. P1TypeOK'
    BY <1>1, <1>2, ResetValues DEF P1IInv, P1TypeOK, nets
  <1> QED BY <1>1, <1>2, <1>3, ResetValues
          DEF P1IInv, P1KeysGone, P1EngineArmed, P1NoOrphan, P1CoreSession,
              P1CoreRecord, P1Banks, P1Fresh, P1NonceOnce

(* The invariant holds initially. *)
LEMMA P1InitIInv == P1AloneInit => P1IInv
  <1> SUFFICES ASSUME P1AloneInit PROVE P1IInv
    OBVIOUS
  <1>1. /\ p1 = P1Reset /\ air = None /\ used = {} /\ again = FALSE /\ reply = "OK"
        /\ secure = FALSE /\ fatal = FALSE /\ zeroizeN = FALSE
    BY DEF P1AloneInit, P1Init
  <1>2. P1TypeOK
    BY <1>1, ResetValues, Answers DEF P1TypeOK
  <1> QED BY <1>1, <1>2, ResetValues
          DEF P1IInv, P1KeysGone, P1EngineArmed, P1NoOrphan, P1CoreSession,
              P1CoreRecord, P1Banks, P1Fresh, P1NonceOnce

(* Every request, whatever the core is doing. *)
LEMMA RequestStep ==
  ASSUME P1IInv, P1Record, NEW q \in P1Requests, P1Request(q)
  PROVE  P1IInv'
  <1>1. CASE P1Busy(q)
    BY <1>1, ReplyStep, Answers DEF P1Busy
  <1>2. CASE P1Dispatch(q)
    <2>1. p1.core = "IDLE"
      BY <1>2 DEF P1Dispatch
    <2>2. CASE P1Reply(RetainedCode(p1.ret, q)) \/ P1Reply("BAD_LENGTH")
      BY <2>2, ReplyStep, Answers
    <2>3. CASE P1Read(q)
      BY <2>3, ReplyStep, Answers DEF P1Read
    <2>4. CASE /\ q.arg # Malformed
               /\ \/ P1RunSelfTest(q) \/ P1Retire(q) \/ P1Zeroize(q) \/ P1Stage(q)
                  \/ P1Commit(q) \/ P1Abort(q) \/ P1LoadTelemetry(q) \/ P1Encrypt(q)
      BY <2>1, <2>4, SelfTestStep, RetireStep, ZeroizeStep, StageStep, CommitStep,
         AbortStep, LoadStep, EncryptStep
    <2> QED BY <1>2, <2>2, <2>3, <2>4 DEF P1Dispatch
  <1> QED BY <1>1, <1>2 DEF P1Request

(* Every step of Primer #1 preserves the invariant. *)
LEMMA P1StepIInv == P1IInv /\ [P1Next]_P1Vars => P1IInv'
  <1> SUFFICES ASSUME P1IInv, [P1Next]_P1Vars PROVE P1IInv'
    OBVIOUS
  <1>1. CASE Nets /\ UNCHANGED <<reply, p1vars>>
    BY <1>1 DEF Nets, p1vars, P1IInv, P1TypeOK, P1KeysGone, P1EngineArmed, P1NoOrphan,
                P1CoreSession, P1CoreRecord, P1Banks, P1Fresh, P1NonceOnce
  <1>2. CASE P1Engine /\ P1Record
    BY <1>2, ForceStep, ReleaseStep, ZeroizeDoneStep, SelfTestDoneStep, AsconDoneStep,
       UartDoneStep DEF P1Engine
  <1>3. CASE P1PowerCycle /\ P1Record
    BY <1>3, PowerCycleStep
  <1>4. CASE P1TransportError /\ P1Record
    BY <1>4, ReplyStep, Answers DEF P1TransportError
  <1>5. CASE (\E q \in P1Requests : P1Request(q)) /\ P1Record
    BY <1>5, RequestStep
  <1>6. CASE UNCHANGED P1Vars
    BY <1>6 DEF P1Vars, p1vars, nets, P1IInv, P1TypeOK, P1KeysGone, P1EngineArmed,
                P1NoOrphan, P1CoreSession, P1CoreRecord, P1Banks, P1Fresh, P1NonceOnce
  <1> QED BY <1>1, <1>2, <1>3, <1>4, <1>5, <1>6 DEF P1Next

(* The registers of the core keep their types and the invariant holds in    *)
(* every reachable state, for any master and any supervisor.                *)
THEOREM P1Invariant == P1Spec => []P1IInv
  BY P1InitIInv, P1StepIInv, PTL DEF P1Spec

(* The type invariant of the core. *)
THEOREM P1TypeTheorem == P1Spec => []P1TypeOK
  <1>1. P1IInv => P1TypeOK
    BY DEF P1IInv
  <1> QED BY <1>1, P1Invariant, PTL

(* No committed session ever encrypts two images under one sequence number, *)
(* for any number of sessions, images and frames.                           *)
THEOREM NonceTheorem == P1Spec => []P1NonceOnce
  <1>1. P1IInv => P1NonceOnce
    BY DEF P1IInv
  <1> QED BY <1>1, P1Invariant, PTL

(* Outside a session the core holds neither keys nor plaintext. *)
THEOREM KeysTheorem == P1Spec => []P1KeysGone
  <1>1. P1IInv => P1KeysGone
    BY DEF P1IInv
  <1> QED BY <1>1, P1Invariant, PTL

(* The encryption engine runs only armed, and never after a fault. *)
THEOREM EngineTheorem == P1Spec => []P1EngineArmed
  <1>1. P1IInv => P1EngineArmed
    BY DEF P1IInv
  <1> QED BY <1>1, P1Invariant, PTL

(* No result stays RUNNING while no engine works for it. *)
THEOREM OrphanTheorem == P1Spec => []P1NoOrphan
  <1>1. P1IInv => P1NoOrphan
    BY DEF P1IInv
  <1> QED BY <1>1, P1Invariant, PTL

(* A step that keeps the session and its key changes the sequence number    *)
(* only when it completes the frame that used it.                           *)
LEMMA SeqStep ==
  ASSUME P1IInv, P1Next, p1.active # None, p1'.active = p1.active,
         p1'.session = p1.session, p1'.seq # p1.seq
  PROVE  /\ p1'.seq = p1.seq + 1
         /\ air' = [id |-> p1.active.id, key |-> p1.active.key, seq |-> p1.seq,
                    tel |-> p1.tel]
  <1>1. p1 \in P1Registers
    BY DEF P1IInv, P1TypeOK
  <1> DEFINE w == P1Wipe(p1)
  <1>2. w \in P1Registers /\ w.active = None
    BY <1>1, Wipe
  <1>3. ~P1ForceZeroize
    <2> SUFFICES ASSUME P1ForceZeroize PROVE FALSE
      OBVIOUS
    <2>1. p1' = [w EXCEPT !.session = "ZEROIZE_BUSY", !.core = "ZEROIZE",
                          !.ret = None, !.fault = @ \/ fatal,
                          !.dueToFault = fatal, !.fromCommand = FALSE]
      BY DEF P1ForceZeroize
    <2> HIDE DEF w
    <2> QED BY <1>2, <2>1 DEF P1Registers
  <1>4. ~P1Release /\ ~P1AsconDone /\ ~P1SelfTestDone
    BY <1>1 DEF P1Release, P1AsconDone, P1SelfTestDone, P1Registers
  <1>5. ~P1ZeroizeDone
    BY DEF P1ZeroizeDone, P1IInv, P1CoreSession, P1KeysGone
  <1>6. ~P1PowerCycle
    BY ResetValues DEF P1PowerCycle
  <1>7. ASSUME NEW code, P1Reply(code) PROVE FALSE
    BY <1>7 DEF P1Reply
  <1>8. ASSUME NEW q \in P1Requests, P1Request(q) PROVE FALSE
    <2>1. ~P1RunSelfTest(q)
      BY <1>1, <1>7 DEF P1RunSelfTest, P1Registers
    <2>2. ~P1Retire(q) /\ ~P1Stage(q) /\ ~P1LoadTelemetry(q) /\ ~P1Encrypt(q)
      BY <1>1, <1>7 DEF P1Retire, P1Stage, P1LoadTelemetry, P1Encrypt, P1Registers
    <2>3. ~P1Commit(q)
      BY <1>1, <1>7 DEF P1Commit, P1Registers
    <2>4. ~P1Zeroize(q)
      <3> SUFFICES ASSUME p1' = [w EXCEPT !.session = "ZEROIZE_BUSY", !.core = "ZEROIZE",
                                          !.fromCommand = TRUE, !.dueToFault = FALSE,
                                          !.ret = Begin(q)] PROVE FALSE
        BY <1>7 DEF P1Zeroize
      <3> HIDE DEF w
      <3> QED BY <1>2 DEF P1Registers
    <2>5. ~P1Abort(q)
      <3> SUFFICES ASSUME p1' = [w EXCEPT !.session = P1Idle] PROVE FALSE
        BY <1>7 DEF P1Abort
      <3> HIDE DEF w
      <3> QED BY <1>2 DEF P1Registers
    <2>6. ~P1Busy(q) /\ ~P1Read(q)
      BY <1>7 DEF P1Busy, P1Read
    <2> QED BY <1>7, <1>8, <2>1, <2>2, <2>3, <2>4, <2>5, <2>6 DEF P1Request, P1Dispatch
  <1>9. ~P1TransportError /\ ~(UNCHANGED <<reply, p1vars>>)
    BY <1>7 DEF P1TransportError, p1vars
  <1>10. P1UartDone
    BY <1>3, <1>4, <1>5, <1>6, <1>8, <1>9 DEF P1Next, P1Engine
  <1> QED BY <1>1, <1>10 DEF P1UartDone, P1Registers

(* Within a session the sequence number moves only with a complete frame.   *)
THEOREM SeqTheorem == P1Spec => P1SeqFollowsFrame
  <1>1. P1IInv /\ [P1Next]_P1Vars =>
          [p1.active # None /\ p1'.active = p1.active /\ p1'.session = p1.session
             /\ p1'.seq # p1.seq =>
             /\ p1'.seq = p1.seq + 1
             /\ air' = [id |-> p1.active.id, key |-> p1.active.key, seq |-> p1.seq,
                        tel |-> p1.tel]]_P1Vars
    BY SeqStep
  <1> QED BY <1>1, P1Invariant, PTL DEF P1Spec, P1SeqFollowsFrame

(* A completed record is of the command it was begun for. *)
LEMMA RecordKept ==
  ASSUME NEW r \in P1Records, NEW s, NEW d
  PROVE  Complete(r, s, d).cmd = r.cmd
  BY DEF P1Records, Retained, Complete

(* A step leaves the history of executions and the command of the record as *)
(* they were, removes the record, or begins one: a second time under the    *)
(* same transaction only for ZEROIZE.                                       *)
LEMMA OnceStep ==
  ASSUME P1IInv, P1Next
  PROVE  \/ again' = again /\ (p1'.ret # None => p1.ret # None /\ p1'.ret.cmd = p1.ret.cmd)
         \/ again' = FALSE
         \/ p1'.ret.cmd = "ZEROIZE"
  <1>1. p1 \in P1Registers
    BY DEF P1IInv, P1TypeOK
  <1> DEFINE w == P1Wipe(p1)
  <1>2. w \in P1Registers /\ w.ret = p1.ret
    BY <1>1, Wipe
  <1>3. CASE P1Release \/ P1AsconDone
    BY <1>1, <1>3 DEF P1Release, P1AsconDone, P1Registers
  <1>4. CASE P1ForceZeroize
    <2>1. /\ p1' = [w EXCEPT !.session = "ZEROIZE_BUSY", !.core = "ZEROIZE",
                             !.ret = None, !.fault = @ \/ fatal,
                             !.dueToFault = fatal, !.fromCommand = FALSE]
          /\ again' = again
      BY <1>4 DEF P1ForceZeroize
    <2> HIDE DEF w
    <2> QED BY <1>2, <2>1 DEF P1Registers
  <1>5. CASE P1ZeroizeDone
    <2>1. CASE p1.fromCommand
      <3>1. p1.ret \in P1Records /\ p1.ret # None
        BY <1>5, <2>1, P1Assumption DEF P1ZeroizeDone, P1IInv, P1CoreRecord, P1Assumption
      <3>2. p1'.ret = Complete(p1.ret, "ZEROIZED", None)
        BY <1>1, <1>5, <2>1 DEF P1ZeroizeDone, P1Registers
      <3>3. again' = again
        BY <1>5 DEF P1ZeroizeDone
      <3> QED BY <3>1, <3>2, <3>3, RecordKept
    <2>2. CASE ~p1.fromCommand
      BY <1>1, <1>5, <2>2 DEF P1ZeroizeDone, P1Registers
    <2> QED BY <2>1, <2>2
  <1>6. CASE P1SelfTestDone \/ P1UartDone
    <2>1. p1.ret \in P1Records /\ p1.ret # None
      BY <1>6, P1Assumption
      DEF P1SelfTestDone, P1UartDone, P1IInv, P1CoreRecord, P1Assumption
    <2>2. \/ p1'.ret = Complete(p1.ret, "SUCCEEDED", None)
          \/ p1'.ret = Complete(p1.ret, "FAILED", None)
          \/ p1'.ret = Complete(p1.ret, "SUCCEEDED", <<p1.active.id, p1.seq>>)
      BY <1>1, <1>6 DEF P1SelfTestDone, P1UartDone, P1Registers
    <2>3. again' = again
      BY <1>6 DEF P1SelfTestDone, P1UartDone
    <2> QED BY <2>1, <2>2, <2>3, RecordKept
  <1>7. CASE P1PowerCycle \/ UNCHANGED <<reply, p1vars>>
    BY <1>7 DEF P1PowerCycle, p1vars
  <1>8. ASSUME NEW code, P1Reply(code) PROVE again' = again /\ p1' = p1
    BY <1>8 DEF P1Reply
  <1>9. CASE P1TransportError
    BY <1>8, <1>9 DEF P1TransportError
  <1>10. ASSUME NEW q \in P1Requests, P1Request(q)
         PROVE  \/ again' = again /\ (p1'.ret # None => p1.ret # None /\ p1'.ret.cmd = p1.ret.cmd)
                \/ again' = FALSE
                \/ p1'.ret.cmd = "ZEROIZE"
    <2>1. CASE P1Busy(q) \/ P1Read(q)
      BY <1>8, <2>1 DEF P1Busy, P1Read
    <2>2. CASE P1RunSelfTest(q) /\ ~P1Blocked(q)
      BY <1>8, <2>2 DEF P1RunSelfTest, P1Blocked, P1Retained, P1Begun
    <2>3. CASE P1Commit(q) /\ ~P1Blocked(q)
      BY <1>8, <2>3 DEF P1Commit, P1Blocked, P1Retained, P1Begun
    <2>4. CASE P1Encrypt(q) /\ ~P1Blocked(q)
      BY <1>8, <2>4 DEF P1Encrypt, P1Blocked, P1Retained, P1Begun
    <2>5. CASE P1Retire(q) \/ P1Stage(q) \/ P1LoadTelemetry(q)
      BY <1>1, <1>8, <2>5 DEF P1Retire, P1Stage, P1LoadTelemetry, P1Registers
    <2>6. CASE P1Abort(q)
      <3>1. CASE p1' = [w EXCEPT !.session = P1Idle] /\ again' = again
        <4> HIDE DEF w
        <4> QED BY <1>2, <3>1 DEF P1Registers
      <3> QED BY <1>8, <2>6, <3>1 DEF P1Abort
    <2>7. CASE P1Zeroize(q)
      <3>1. CASE p1' = [w EXCEPT !.session = "ZEROIZE_BUSY", !.core = "ZEROIZE",
                                 !.fromCommand = TRUE, !.dueToFault = FALSE, !.ret = Begin(q)]
        <4> HIDE DEF w
        <4>1. p1'.ret = Begin(q)
          BY <1>2, <3>1 DEF P1Registers
        <4> QED BY <2>7, <4>1 DEF P1Zeroize, Begin
      <3> QED BY <1>8, <2>7, <3>1 DEF P1Zeroize
    <2> QED BY <1>8, <1>10, <2>1, <2>2, <2>3, <2>4, <2>5, <2>6, <2>7 DEF P1Request, P1Dispatch
  <1> QED BY <1>3, <1>4, <1>5, <1>6, <1>7, <1>9, <1>10 DEF P1Next, P1Engine

(* A retained transaction is executed once; only ZEROIZE runs again. *)
THEOREM OnceTheorem == P1Spec => []P1ExecutedOnce
  <1>1. P1AloneInit => P1ExecutedOnce
    BY DEF P1AloneInit, P1Init, P1ExecutedOnce
  <1>2. P1IInv /\ P1ExecutedOnce /\ [P1Next]_P1Vars => P1ExecutedOnce'
    <2> SUFFICES ASSUME P1IInv, P1ExecutedOnce, [P1Next]_P1Vars PROVE P1ExecutedOnce'
      OBVIOUS
    <2>1. CASE P1Next
      BY <2>1, OnceStep DEF P1ExecutedOnce
    <2>2. CASE UNCHANGED P1Vars
      BY <2>2 DEF P1Vars, p1vars, P1ExecutedOnce
    <2> QED BY <2>1, <2>2
  <1> QED BY <1>1, <1>2, P1Invariant, PTL DEF P1Spec
=============================================================================
