--------------------------- MODULE TrinityPrimers ---------------------------
(* What a step of either Primer may do to its session, whoever causes it:   *)
(* the facts about the two command cores from which TrinityProofs argues    *)
(* about the controller and both of them.                                   *)
EXTENDS TrinitySystem, TLAPS

Registers1 == {"session", "core", "pass", "fault", "fromCommand", "dueToFault", "staged",
               "active", "seq", "tel", "ret"}

Registers2 == {"session", "core", "pass", "fault", "fromCommand", "dueToFault", "needsTest",
               "staged", "active", "last", "cand", "result", "bad", "ack", "ret"}

(* A session that is committed, released or not. *)
Live == {"COMMITTED_BLOCKED", "ACTIVE"}

(* A Primer that could not be released into a session. *)
Gone(p) == p.session \notin {"STAGED", "COMMITTED_BLOCKED"}

Named(p, id) == \/ p.staged # None /\ p.staged.id = id
                \/ p.active # None /\ p.active.id = id

(* The session state says which banks are in use and which engine runs. *)
Banked(p) ==
  /\ p.session # "STAGED" => p.staged = None
  /\ p.session \in Live => p.active # None
  /\ p.session \notin Live => p.active = None
  /\ p.core \in {"IDLE", "SELF_TEST", "ZEROIZE", "ASCON", "UART", "VALIDATE", "DECRYPT"}
  /\ p.core = "SELF_TEST" => p.session = "SELF_TEST_RUNNING"
  /\ p.core = "ZEROIZE" => p.session = "ZEROIZE_BUSY"
  /\ p.core \in {"ASCON", "UART", "VALIDATE", "DECRYPT"} => p.session = "ACTIVE"

(* Only a commit makes a session live, out of what was staged; only STAGE   *)
(* stages one.  cmd is the request that is served, or none.                 *)
Moved(p, d, cmd, arg) ==
  /\ d.session \in Live =>
       \/ /\ p.session \in Live /\ d.active = p.active
          /\ d.session = "COMMITTED_BLOCKED" => p.session = "COMMITTED_BLOCKED"
       \/ /\ cmd = "COMMIT_SESSION" /\ p.session = "STAGED"
          /\ p.staged.id = arg /\ d.active = p.staged /\ d.session = "COMMITTED_BLOCKED"
  /\ d.session = "STAGED" =>
       \/ p.session = "STAGED" /\ d.staged = p.staged
       \/ cmd = "STAGE_SESSION" /\ d.staged = arg

(* What the code of an answer tells of the Primer that gave it, and what    *)
(* ABORT and ZEROIZE do whatever they answer.                               *)
Answered(p, d, cmd, arg, code) ==
  /\ code \in Codes
  /\ cmd = "STAGE_SESSION" /\ code = "OK" =>
       d.session \notin Live /\ (d.session = "STAGED" => d.staged = arg)
  /\ cmd = "ABORT_SESSION" /\ code = "OK" => Keyless(d)
  /\ cmd = "ABORT_SESSION" /\ code = "BAD_SESSION" => arg # None /\ ~Named(p, arg)
  /\ cmd = "ABORT_SESSION" /\ arg # Malformed /\ ~Gone(d) => ~Named(p, arg)
  /\ cmd = "ZEROIZE" /\ code = "OK" => Keyless(d)
  /\ cmd = "ZEROIZE" /\ arg = None => Gone(d)

(* What a step of Primer #1 does to its numbers: within a session the next  *)
(* number and the set of used ones grow, and the engine works on a used one.*)
Numbered(p, d, u, v, cmd) ==
  /\ p.seq \in Nat \ {0} => d.seq \in Nat \ {0}
  /\ d.active # None =>
       \/ /\ d.active = p.active /\ u \subseteq v
          /\ p.seq \in Nat => d.seq >= p.seq
          /\ d.core \in {"ASCON", "UART"} =>
               \/ <<d.seq, d.tel>> \in v
               \/ p.core \in {"ASCON", "UART"} /\ d.seq = p.seq /\ d.tel = p.tel
       \/ cmd = "COMMIT_SESSION" /\ d.seq = 1 /\ d.core = "IDLE"

(* The receive path's part of the registers of Primer #2. *)
Sound2(p) ==
  /\ DOMAIN p = Registers2 /\ Banked(p) /\ p.core \notin {"ASCON", "UART"}
  /\ p.core \in {"VALIDATE", "DECRYPT"} => p.result = None
  /\ p.core = "DECRYPT" => p.cand.seq = p.last + 1
  /\ p.active = None => p.result = None /\ p.ack = None
  /\ p.result # None => p.result.seq = p.last

(* What a step of Primer #2 that takes the frame f does to the frames of a  *)
(* session, and what makes it fault.                                        *)
Received(p, d, cmd, f) ==
  /\ d.core \in {"VALIDATE", "DECRYPT"} =>
       /\ d.active = p.active
       /\ \/ p.core \in {"VALIDATE", "DECRYPT"} /\ d.cand = p.cand
          \/ f # None /\ d.cand = f
  /\ d.active # None =>
       \/ /\ d.active = p.active /\ d.last = p.last
          /\ d.result = p.result \/ (cmd = "ACK_AUTH_RESULT" /\ d.result = None)
       \/ /\ d.active = p.active /\ p.core = "DECRYPT"
          /\ d.result = p.cand /\ d.last = p.cand.seq
       \/ p.active = None /\ d.last = 0 /\ d.result = None
  /\ d.fault => \/ p.fault \/ p.core = "SELF_TEST"
                \/ p.core = "DECRYPT" /\ p.cand.key # p.active.key
  /\ p.last \in Nat => d.last \in Nat

P2Moved(p, cmd, arg, f) == Sound2(p) /\ Moved(p2, p, cmd, arg) /\ Received(p2, p, cmd, f)

(* What the two commands that hand out a result answer. *)
Delivers(p, d, cmd, arg, code) ==
  /\ cmd = "READ_AUTH_RESULT" /\ code = "OK" => d = p /\ p.result # None
  /\ cmd = "ACK_AUTH_RESULT" /\ code = "OK" =>
       /\ d.active = p.active /\ d.last = p.last /\ d.result = None
       /\ \/ p.result # None /\ arg.id = p.result.id /\ arg.seq = p.result.seq
          \/ p.result = None /\ p.ack = arg

P2Answered(cmd, arg) == /\ P2Moved(p2', cmd, arg, None) /\ UNCHANGED nets
                        /\ Answered(p2, p2', cmd, arg, reply')
                        /\ Delivers(p2, p2', cmd, arg, reply')

Sound1 == DOMAIN p1 = Registers1 /\ Banked(p1)

P1Moved(cmd, arg) == /\ Sound1' /\ Moved(p1, p1', cmd, arg)
                     /\ Numbered(p1, p1', used, used', cmd)

P1Answered(cmd, arg) == /\ P1Moved(cmd, arg) /\ Answered(p1, p1', cmd, arg, reply')
                        /\ UNCHANGED <<nets, air>>

-----------------------------------------------------------------------------
(* Primer #1. *)

(* What P1Record keeps of the used numbers. *)
LEMMA UsedGrows ==
  ASSUME P1Record, p1'.active = p1.active
  PROVE  /\ used \subseteq used'
         /\ p1.core # "ASCON" /\ p1'.core = "ASCON" => <<p1.seq, p1.tel>> \in used'
  BY DEF P1Record

(* An answer without an effect. *)
LEMMA P1ReplyMoves ==
  ASSUME Sound1, P1Record, NEW code, P1Reply(code)
  PROVE  /\ p1' = p1 /\ reply' = code /\ UNCHANGED <<nets, air>>
         /\ \A cmd, arg : P1Moved(cmd, arg)
  <1>1. p1' = p1 /\ reply' = code /\ UNCHANGED <<nets, air>>
    BY DEF P1Reply, Answer
  <1>2. used \subseteq used'
    BY <1>1, UsedGrows
  <1>3. Sound1'
    BY <1>1 DEF Sound1, Banked
  <1>4. \A cmd, arg : Moved(p1, p1', cmd, arg)
    BY <1>1 DEF Moved, Live
  <1>5. \A cmd : Numbered(p1, p1', used, used', cmd)
    BY <1>1, <1>2 DEF Numbered
  <1> QED BY <1>1, <1>3, <1>4, <1>5 DEF P1Moved

(* Codes a handler may answer with. *)
LEMMA AnswerCodes ==
  /\ {"OK", "BAD_LENGTH", "BAD_STATE", "BAD_SESSION", "NOT_SUPPORTED", "BUSY", "BAD_COMMAND",
      "RESULT_NOT_READY", "RESULT_PENDING", "COMMIT_REJECTED", "TRANSACTION_CONFLICT",
      "SESSION_ID_COLLISION", "BAD_CRC"} \subseteq Codes
  /\ \A r, q : RetainedCode(r, q) \in Codes
  /\ \A q : P1TxnCode(q) \in Codes /\ P2TxnCode(q) \in Codes
  BY DEF Codes, RetainedCode, P1TxnCode, P2TxnCode

(* A busy core answers and does nothing. *)
LEMMA P1BusyMoves ==
  ASSUME Sound1, P1Record, NEW q, P1Busy(q)
  PROVE  P1Answered(q.cmd, q.arg)
  <1>1. PICK code \in Codes : P1Reply(code) /\ (q.cmd \notin {"GET_STATUS", "GET_TXN_RESULT"} => code = "BUSY")
    BY AnswerCodes DEF P1Busy
  <1>2. /\ p1' = p1 /\ reply' = code /\ UNCHANGED <<nets, air>> /\ P1Moved(q.cmd, q.arg)
    BY <1>1, P1ReplyMoves
  <1>3. p1.core # "IDLE" /\ Gone(p1)
    BY DEF P1Busy, Sound1, Banked, Gone
  <1>4. Answered(p1, p1', q.cmd, q.arg, reply')
    BY <1>1, <1>2, <1>3 DEF Answered, Gone
  <1> QED BY <1>2, <1>4 DEF P1Answered

(* The handlers of an idle core. *)
LEMMA P1ReadMoves ==
  ASSUME Sound1, P1Record, NEW q, P1Read(q)
  PROVE  P1Answered(q.cmd, q.arg)
  <1>1. PICK code \in Codes : P1Reply(code)
    BY AnswerCodes DEF P1Read
  <1>2. q.cmd \in {"GET_INFO", "GET_STATUS", "GET_TXN_RESULT", "UNKNOWN"}
    BY DEF P1Read
  <1>3. /\ p1' = p1 /\ reply' = code /\ UNCHANGED <<nets, air>> /\ P1Moved(q.cmd, q.arg)
    BY <1>1, P1ReplyMoves
  <1> QED BY <1>1, <1>2, <1>3 DEF Answered, P1Answered

(* RUN_SELF_TEST *)
LEMMA P1SelfTestMoves ==
  ASSUME Sound1, P1Record, NEW q, P1RunSelfTest(q)
  PROVE  P1Answered(q.cmd, q.arg)
  <1>1. q.cmd = "RUN_SELF_TEST"
    BY DEF P1RunSelfTest
  <1>2. CASE P1Reply("NOT_SUPPORTED") \/ P1Reply("BAD_STATE")
    <2>1. PICK code \in Codes : P1Reply(code)
      BY <1>2, AnswerCodes
    <2>2. /\ p1' = p1 /\ reply' = code /\ UNCHANGED <<nets, air>> /\ P1Moved(q.cmd, q.arg)
      BY <2>1, P1ReplyMoves
    <2> QED BY <1>1, <2>1, <2>2 DEF Answered, P1Answered
  <1>3. CASE /\ p1.session \in {"SELF_TEST_REQUIRED", "READY_NO_SESSION"}
             /\ p1' = [p1 EXCEPT !.session = "SELF_TEST_RUNNING", !.core = "SELF_TEST",
                                 !.ret = Begin(q)]
             /\ Answer("OK") /\ UNCHANGED <<nets, air>>
    <2> DEFINE r == Begin(q)
    <2> HIDE DEF r
    <2>1. /\ DOMAIN p1' = Registers1 /\ p1'.session = "SELF_TEST_RUNNING"
          /\ p1'.core = "SELF_TEST" /\ p1'.staged = p1.staged /\ p1'.active = p1.active
          /\ p1'.seq = p1.seq
      BY <1>3 DEF Sound1, Registers1, r
    <2>2. p1.staged = None /\ p1.active = None
      BY <1>3 DEF Sound1, Banked, Live
    <2>3. Sound1' /\ Moved(p1, p1', q.cmd, q.arg) /\ Numbered(p1, p1', used, used', q.cmd)
      BY <2>1, <2>2 DEF Sound1, Banked, Live, Moved, Numbered
    <2>4. Answered(p1, p1', q.cmd, q.arg, reply')
      BY <1>1, <1>3, AnswerCodes DEF Answered, Answer
    <2> QED BY <1>3, <2>3, <2>4 DEF P1Answered, P1Moved
  <1> QED BY <1>2, <1>3 DEF P1RunSelfTest

(* RETIRE_TXN_RESULT *)
LEMMA P1RetireMoves ==
  ASSUME Sound1, P1Record, NEW q, P1Retire(q)
  PROVE  P1Answered(q.cmd, q.arg)
  <1>1. PICK r : p1' = [p1 EXCEPT !.ret = r]
    BY DEF P1Retire
  <1>2. /\ DOMAIN p1' = Registers1 /\ p1'.session = p1.session /\ p1'.core = p1.core
        /\ p1'.staged = p1.staged /\ p1'.active = p1.active /\ p1'.seq = p1.seq
        /\ p1'.tel = p1.tel
    BY <1>1 DEF Sound1, Registers1
  <1>3. used \subseteq used'
    BY <1>2, UsedGrows
  <1>4. Sound1' /\ Moved(p1, p1', q.cmd, q.arg)
    BY <1>2 DEF Sound1, Banked, Live, Moved
  <1>5. Numbered(p1, p1', used, used', q.cmd)
    BY <1>2, <1>3 DEF Numbered
  <1>6. /\ q.cmd = "RETIRE_TXN_RESULT" /\ reply' \in Codes /\ UNCHANGED <<nets, air>>
    BY AnswerCodes DEF P1Retire, Answer
  <1> QED BY <1>4, <1>5, <1>6 DEF P1Answered, P1Moved, Answered

(* A wipe empties the banks and keeps the rest. *)
LEMMA P1WipeFields ==
  ASSUME NEW p, DOMAIN p = Registers1
  PROVE  /\ DOMAIN P1Wipe(p) = Registers1 /\ P1Wipe(p).staged = None
         /\ P1Wipe(p).active = None /\ P1Wipe(p).seq = 1 /\ P1Wipe(p).core = p.core
  BY DEF P1Wipe, Registers1

(* Empty banks are a move. *)
LEMMA P1Emptied ==
  ASSUME DOMAIN p1' = Registers1, p1'.staged = None, p1'.active = None, p1'.seq = 1,
         p1'.session \notin Live \cup {"STAGED"},
         \/ p1'.core = "IDLE"
         \/ p1'.core = "ZEROIZE" /\ p1'.session = "ZEROIZE_BUSY",
         NEW cmd, NEW arg
  PROVE  P1Moved(cmd, arg) /\ Keyless(p1') /\ Gone(p1')
  <1>1. Sound1' /\ Moved(p1, p1', cmd, arg)
    BY DEF Sound1, Banked, Live, Moved
  <1>2. Numbered(p1, p1', used, used', cmd)
    BY DEF Numbered
  <1>3. Keyless(p1') /\ Gone(p1')
    BY DEF Keyless, Gone, Live
  <1> QED BY <1>1, <1>2, <1>3 DEF P1Moved

(* ZEROIZE *)
LEMMA P1ZeroizeMoves ==
  ASSUME Sound1, P1Record, NEW q, P1Zeroize(q)
  PROVE  P1Answered(q.cmd, q.arg)
  <1>1. q.cmd = "ZEROIZE"
    BY DEF P1Zeroize
  <1>2. CASE q.arg = Unsupported /\ P1Reply("NOT_SUPPORTED")
    <2>1. /\ p1' = p1 /\ reply' = "NOT_SUPPORTED" /\ UNCHANGED <<nets, air>>
          /\ P1Moved(q.cmd, q.arg)
      BY <1>2, P1ReplyMoves
    <2>2. q.arg # None
      BY <1>2, SystemAssumption DEF SystemAssumption
    <2> QED BY <1>1, <2>1, <2>2, AnswerCodes DEF Answered, P1Answered
  <1>3. CASE /\ p1' = [P1Wipe(p1) EXCEPT !.session = "ZEROIZE_BUSY", !.core = "ZEROIZE",
                                         !.fromCommand = TRUE, !.dueToFault = FALSE,
                                         !.ret = Begin(q)]
             /\ Answer("OK") /\ UNCHANGED <<nets, air>>
    <2> DEFINE w == P1Wipe(p1)
               r == Begin(q)
    <2>1. DOMAIN w = Registers1 /\ w.staged = None /\ w.active = None /\ w.seq = 1
      BY P1WipeFields DEF Sound1
    <2> HIDE DEF w, r
    <2>2. /\ DOMAIN p1' = Registers1 /\ p1'.session = "ZEROIZE_BUSY" /\ p1'.core = "ZEROIZE"
          /\ p1'.staged = None /\ p1'.active = None /\ p1'.seq = 1
      BY <1>3, <2>1 DEF Registers1, w, r
    <2>3. P1Moved(q.cmd, q.arg) /\ Keyless(p1') /\ Gone(p1')
      BY <2>2, P1Emptied DEF Live
    <2>4. Answered(p1, p1', q.cmd, q.arg, reply')
      BY <1>1, <1>3, <2>3, AnswerCodes DEF Answered, Answer
    <2> QED BY <1>3, <2>3, <2>4 DEF P1Answered
  <1> QED BY <1>2, <1>3 DEF P1Zeroize

(* STAGE_SESSION *)
LEMMA P1StageMoves ==
  ASSUME Sound1, P1Record, NEW q, P1Stage(q)
  PROVE  P1Answered(q.cmd, q.arg)
  <1>1. q.cmd = "STAGE_SESSION"
    BY DEF P1Stage
  <1>2. CASE P1Reply("BAD_STATE") \/ P1Reply("SESSION_ID_COLLISION")
    <2>1. PICK code \in Codes : P1Reply(code) /\ code # "OK"
      BY <1>2, AnswerCodes
    <2>2. /\ p1' = p1 /\ reply' = code /\ UNCHANGED <<nets, air>> /\ P1Moved(q.cmd, q.arg)
      BY <2>1, P1ReplyMoves
    <2> QED BY <1>1, <2>1, <2>2 DEF Answered, P1Answered
  <1>3. CASE /\ p1.session \in {"READY_NO_SESSION", "STAGED"} /\ p1.staged = q.arg
             /\ P1Reply("OK")
    <2>1. /\ p1' = p1 /\ reply' = "OK" /\ UNCHANGED <<nets, air>> /\ P1Moved(q.cmd, q.arg)
      BY <1>3, P1ReplyMoves
    <2> QED BY <1>1, <1>3, <2>1, AnswerCodes DEF Answered, P1Answered, Live
  <1>4. CASE /\ p1.session \in {"READY_NO_SESSION", "STAGED"}
             /\ p1' = [p1 EXCEPT !.staged = q.arg, !.session = "STAGED"]
             /\ Answer("OK") /\ UNCHANGED <<nets, air>>
    <2>1. /\ DOMAIN p1' = Registers1 /\ p1'.session = "STAGED"
          /\ p1'.core = p1.core /\ p1'.staged = q.arg /\ p1'.active = p1.active
          /\ p1'.seq = p1.seq
      BY <1>4 DEF Sound1, Registers1
    <2>2. p1.active = None
      BY <1>4 DEF Sound1, Banked, Live
    <2>3. p1.core = "IDLE"
      BY <1>4 DEF Sound1, Banked
    <2>4. Sound1' /\ Moved(p1, p1', q.cmd, q.arg) /\ Numbered(p1, p1', used, used', q.cmd)
      BY <1>1, <2>1, <2>2, <2>3 DEF Sound1, Banked, Live, Moved, Numbered
    <2>5. Answered(p1, p1', q.cmd, q.arg, reply')
      BY <1>1, <1>4, <2>1, AnswerCodes DEF Answered, Answer, Live
    <2> QED BY <1>4, <2>4, <2>5 DEF P1Answered, P1Moved
  <1> QED BY <1>2, <1>3, <1>4 DEF P1Stage

(* COMMIT_SESSION *)
LEMMA P1CommitMoves ==
  ASSUME Sound1, P1Record, NEW q, P1Commit(q)
  PROVE  P1Answered(q.cmd, q.arg)
  <1>1. q.cmd = "COMMIT_SESSION"
    BY DEF P1Commit
  <1>2. CASE P1Reply("COMMIT_REJECTED") \/ P1Reply("BAD_SESSION")
    <2>1. PICK code \in Codes : P1Reply(code)
      BY <1>2, AnswerCodes
    <2>2. /\ p1' = p1 /\ reply' = code /\ UNCHANGED <<nets, air>> /\ P1Moved(q.cmd, q.arg)
      BY <2>1, P1ReplyMoves
    <2> QED BY <1>1, <2>1, <2>2 DEF Answered, P1Answered
  <1>3. CASE /\ p1.session = "STAGED" /\ p1.staged # None /\ p1.staged.id = q.arg
             /\ p1' = [p1 EXCEPT !.active = p1.staged, !.staged = None, !.seq = 1,
                                 !.session = "COMMITTED_BLOCKED",
                                 !.ret = Complete(Begin(q), "SUCCEEDED", None)]
             /\ Answer("OK") /\ UNCHANGED <<nets, air>>
    <2> DEFINE r == Complete(Begin(q), "SUCCEEDED", None)
    <2> HIDE DEF r
    <2>1. /\ DOMAIN p1' = Registers1 /\ p1'.session = "COMMITTED_BLOCKED"
          /\ p1'.core = p1.core /\ p1'.staged = None /\ p1'.active = p1.staged
          /\ p1'.seq = 1
      BY <1>3 DEF Sound1, Registers1, r
    <2>2. p1.core = "IDLE"
      BY <1>3 DEF Sound1, Banked
    <2>3. Sound1' /\ Moved(p1, p1', q.cmd, q.arg) /\ Numbered(p1, p1', used, used', q.cmd)
      BY <1>1, <1>3, <2>1, <2>2 DEF Sound1, Banked, Live, Moved, Numbered
    <2>4. Answered(p1, p1', q.cmd, q.arg, reply')
      BY <1>1, <1>3, AnswerCodes DEF Answered, Answer
    <2> QED BY <1>3, <2>3, <2>4 DEF P1Answered, P1Moved
  <1> QED BY <1>2, <1>3 DEF P1Commit

(* ABORT_SESSION *)
LEMMA P1AbortMoves ==
  ASSUME Sound1, P1Record, NEW q, P1Abort(q), p1.core = "IDLE"
  PROVE  P1Answered(q.cmd, q.arg)
  <1>1. q.cmd = "ABORT_SESSION"
    BY DEF P1Abort
  <1>2. CASE q.arg # None /\ ~Named(p1, q.arg) /\ P1Reply("BAD_SESSION")
    <2>1. /\ p1' = p1 /\ reply' = "BAD_SESSION" /\ UNCHANGED <<nets, air>>
          /\ P1Moved(q.cmd, q.arg)
      BY <1>2, P1ReplyMoves
    <2> QED BY <1>1, <1>2, <2>1, AnswerCodes DEF Answered, P1Answered
  <1>3. CASE /\ p1' = [P1Wipe(p1) EXCEPT !.session = P1Idle]
             /\ Answer("OK") /\ UNCHANGED <<nets, air>>
    <2> DEFINE w == P1Wipe(p1)
               s == P1Idle
    <2>1. /\ DOMAIN w = Registers1 /\ w.staged = None /\ w.active = None /\ w.seq = 1
          /\ w.core = "IDLE"
      BY P1WipeFields DEF Sound1
    <2>2. s \notin Live \cup {"STAGED"}
      BY DEF P1Idle, Live
    <2> HIDE DEF w, s
    <2>3. /\ DOMAIN p1' = Registers1 /\ p1'.session = s /\ p1'.core = "IDLE"
          /\ p1'.staged = None /\ p1'.active = None /\ p1'.seq = 1
      BY <1>3, <2>1 DEF Registers1, w, s
    <2>4. P1Moved(q.cmd, q.arg) /\ Keyless(p1') /\ Gone(p1')
      BY <2>2, <2>3, P1Emptied
    <2>5. Answered(p1, p1', q.cmd, q.arg, reply')
      BY <1>1, <1>3, <2>4, AnswerCodes DEF Answered, Answer
    <2> QED BY <1>3, <2>4, <2>5 DEF P1Answered
  <1> QED BY <1>2, <1>3 DEF P1Abort, Named

(* LOAD_TELEMETRY *)
LEMMA P1LoadMoves ==
  ASSUME Sound1, P1Record, NEW q, P1LoadTelemetry(q), p1.core = "IDLE"
  PROVE  P1Answered(q.cmd, q.arg)
  <1>1. q.cmd = "LOAD_TELEMETRY"
    BY DEF P1LoadTelemetry
  <1>2. CASE P1Reply("BAD_STATE") \/ P1Reply("TRANSACTION_CONFLICT")
    <2>1. PICK code \in Codes : P1Reply(code)
      BY <1>2, AnswerCodes
    <2>2. /\ p1' = p1 /\ reply' = code /\ UNCHANGED <<nets, air>> /\ P1Moved(q.cmd, q.arg)
      BY <2>1, P1ReplyMoves
    <2> QED BY <1>1, <2>1, <2>2 DEF Answered, P1Answered
  <1>3. CASE p1' = [p1 EXCEPT !.tel = q.arg] /\ Answer("OK") /\ UNCHANGED <<nets, air>>
    <2>1. /\ DOMAIN p1' = Registers1 /\ p1'.session = p1.session /\ p1'.core = "IDLE"
          /\ p1'.staged = p1.staged /\ p1'.active = p1.active /\ p1'.seq = p1.seq
      BY <1>3 DEF Sound1, Registers1
    <2>2. used \subseteq used'
      BY <2>1, UsedGrows
    <2>3. Sound1' /\ Moved(p1, p1', q.cmd, q.arg)
      BY <2>1 DEF Sound1, Banked, Live, Moved
    <2>4. Numbered(p1, p1', used, used', q.cmd)
      BY <2>1, <2>2 DEF Numbered
    <2>5. Answered(p1, p1', q.cmd, q.arg, reply')
      BY <1>1, <1>3, AnswerCodes DEF Answered, Answer
    <2> QED BY <1>3, <2>3, <2>4, <2>5 DEF P1Answered, P1Moved
  <1> QED BY <1>2, <1>3 DEF P1LoadTelemetry

(* ENCRYPT_AND_SEND *)
LEMMA P1EncryptMoves ==
  ASSUME Sound1, P1Record, NEW q, P1Encrypt(q), p1.core = "IDLE"
  PROVE  P1Answered(q.cmd, q.arg)
  <1>1. q.cmd = "ENCRYPT_AND_SEND"
    BY DEF P1Encrypt
  <1>2. CASE P1Reply("BAD_STATE")
    <2>1. /\ p1' = p1 /\ reply' = "BAD_STATE" /\ UNCHANGED <<nets, air>>
          /\ P1Moved(q.cmd, q.arg)
      BY <1>2, P1ReplyMoves
    <2> QED BY <1>1, <2>1, AnswerCodes DEF Answered, P1Answered
  <1>3. CASE /\ p1.session = "ACTIVE" /\ p1' = [p1 EXCEPT !.core = "ASCON", !.ret = Begin(q)]
             /\ Answer("OK") /\ UNCHANGED <<nets, air>>
    <2> DEFINE r == Begin(q)
    <2> HIDE DEF r
    <2>1. /\ DOMAIN p1' = Registers1 /\ p1'.session = "ACTIVE" /\ p1'.core = "ASCON"
          /\ p1'.staged = p1.staged /\ p1'.active = p1.active /\ p1'.seq = p1.seq
          /\ p1'.tel = p1.tel
      BY <1>3 DEF Sound1, Registers1, r
    <2>2. used \subseteq used' /\ <<p1.seq, p1.tel>> \in used'
      BY <2>1, UsedGrows
    <2>3. Sound1' /\ Moved(p1, p1', q.cmd, q.arg)
      BY <1>3, <2>1 DEF Sound1, Banked, Live, Moved
    <2>4. Numbered(p1, p1', used, used', q.cmd)
      BY <2>1, <2>2 DEF Numbered
    <2>5. Answered(p1, p1', q.cmd, q.arg, reply')
      BY <1>1, <1>3, AnswerCodes DEF Answered, Answer
    <2> QED BY <1>3, <2>3, <2>4, <2>5 DEF P1Answered, P1Moved
  <1> QED BY <1>2, <1>3 DEF P1Encrypt

(* A request to Primer #1. *)
LEMMA P1RequestMoves ==
  ASSUME Sound1, P1Record, NEW q, P1Request(q)
  PROVE  P1Answered(q.cmd, q.arg)
  <1>1. CASE P1Busy(q)
    BY <1>1, P1BusyMoves
  <1>2. CASE P1Dispatch(q)
    <2>1. p1.core = "IDLE"
      BY <1>2 DEF P1Dispatch
    <2>2. CASE P1Blocked(q) /\ P1Reply(RetainedCode(p1.ret, q))
      <3>1. RetainedCode(p1.ret, q) \in Codes
        BY AnswerCodes
      <3>2. /\ p1' = p1 /\ reply' \in Codes /\ UNCHANGED <<nets, air>>
            /\ P1Moved(q.cmd, q.arg)
        BY <2>2, <3>1, P1ReplyMoves
      <3>3. q.cmd \in {"RUN_SELF_TEST", "COMMIT_SESSION", "ENCRYPT_AND_SEND"}
        BY <2>2 DEF P1Blocked, P1Retained
      <3> QED BY <3>2, <3>3 DEF Answered, P1Answered
    <2>3. CASE q.arg = Malformed /\ P1Reply("BAD_LENGTH")
      <3>1. /\ p1' = p1 /\ reply' = "BAD_LENGTH" /\ UNCHANGED <<nets, air>>
            /\ P1Moved(q.cmd, q.arg)
        BY <2>3, P1ReplyMoves
      <3>2. q.arg # None
        BY <2>3, SystemAssumption DEF SystemAssumption
      <3> QED BY <2>3, <3>1, <3>2, AnswerCodes DEF Answered, P1Answered
    <2> QED BY <1>2, <2>1, <2>2, <2>3, P1ReadMoves, P1SelfTestMoves, P1RetireMoves,
               P1ZeroizeMoves, P1StageMoves, P1CommitMoves, P1AbortMoves, P1LoadMoves,
               P1EncryptMoves DEF P1Dispatch
  <1> QED BY <1>1, <1>2 DEF P1Request

(* The engines of Primer #1, and the frame the last of them completes. *)
LEMMA P1EngineMoves ==
  ASSUME Sound1, P1Record, P1Engine
  PROVE  /\ P1Moved("NONE", None) /\ UNCHANGED <<nets, reply>>
         /\ \/ air' = air
            \/ /\ p1.session = "ACTIVE" /\ secure /\ p1.core = "UART"
               /\ p1'.active = p1.active
               /\ p1.seq \in Nat => p1'.seq = p1.seq + 1
               /\ air' = [id |-> p1.active.id, key |-> p1.active.key, seq |-> p1.seq,
                          tel |-> p1.tel]
  <1>0. DOMAIN p1 = Registers1 /\ Banked(p1)
    BY DEF Sound1
  <1>1. CASE P1ForceZeroize
    <2> DEFINE w == P1Wipe(p1)
               e == p1.fault \/ fatal
    <2>1. DOMAIN w = Registers1 /\ w.staged = None /\ w.active = None /\ w.seq = 1
      BY <1>0, P1WipeFields
    <2>2. PICK x, y : p1' = [w EXCEPT !.session = "ZEROIZE_BUSY", !.core = "ZEROIZE",
                                      !.ret = None, !.fault = x, !.dueToFault = y, !.fromCommand = FALSE]
      BY <1>1 DEF P1ForceZeroize
    <2> HIDE DEF w
    <2>3. /\ DOMAIN p1' = Registers1 /\ p1'.session = "ZEROIZE_BUSY" /\ p1'.core = "ZEROIZE"
          /\ p1'.staged = None /\ p1'.active = None /\ p1'.seq = 1
      BY <2>1, <2>2 DEF Registers1
    <2>4. P1Moved("NONE", None)
      BY <2>3, P1Emptied DEF Live
    <2> QED BY <1>1, <2>4 DEF P1ForceZeroize
  <1>2. CASE P1Release
    <2>1. /\ DOMAIN p1' = Registers1 /\ p1'.session = "ACTIVE" /\ p1'.core = p1.core
          /\ p1'.staged = p1.staged /\ p1'.active = p1.active /\ p1'.seq = p1.seq
          /\ p1.session = "COMMITTED_BLOCKED"
      BY <1>0, <1>2 DEF P1Release, Registers1
    <2>2. used \subseteq used' /\ p1.core = "IDLE"
      BY <1>0, <2>1, UsedGrows DEF Banked
    <2>3. Sound1' /\ Moved(p1, p1', "NONE", None)
      BY <1>0, <2>1, <2>2 DEF Sound1, Banked, Live, Moved
    <2>4. Numbered(p1, p1', used, used', "NONE")
      BY <2>1, <2>2 DEF Numbered
    <2> QED BY <1>2, <2>3, <2>4 DEF P1Release, P1Moved
  <1>3. CASE P1ZeroizeDone \/ P1SelfTestDone
    <2>1. /\ DOMAIN p1' = Registers1 /\ p1'.core = "IDLE"
          /\ p1'.session \in {"READY_NO_SESSION", "SELF_TEST_REQUIRED", "FAULT_LOCKED"}
          /\ p1'.staged = p1.staged /\ p1'.active = p1.active /\ p1'.seq = p1.seq
      <3>1. CASE P1ZeroizeDone
        <4> DEFINE p == [p1 EXCEPT !.core = "IDLE", !.fromCommand = FALSE, !.dueToFault = FALSE]
        <4>1. /\ DOMAIN p = Registers1 /\ p.core = "IDLE"
              /\ p.staged = p1.staged /\ p.active = p1.active /\ p.seq = p1.seq
          BY <1>0 DEF Registers1
        <4>2. P1Idle \in {"READY_NO_SESSION", "SELF_TEST_REQUIRED"}
          BY DEF P1Idle
        <4>3. \/ p1' = [p EXCEPT !.session = P1Idle, !.ret = Complete(@, "ZEROIZED", None)]
              \/ p1' = [p EXCEPT !.session = "FAULT_LOCKED"]
              \/ p1' = [p EXCEPT !.pass = FALSE, !.session = "SELF_TEST_REQUIRED"]
          BY <3>1 DEF P1ZeroizeDone
        <4> HIDE DEF p
        <4> QED BY <4>1, <4>2, <4>3 DEF Registers1
      <3>2. CASE P1SelfTestDone
        BY <1>0, <3>2 DEF P1SelfTestDone, Registers1
      <3> QED BY <1>3, <3>1, <3>2
    <2>2. p1.staged = None /\ p1.active = None
      BY <1>0, <1>3 DEF P1ZeroizeDone, P1SelfTestDone, Banked, Live
    <2>4. Sound1' /\ Moved(p1, p1', "NONE", None)
      BY <2>1, <2>2 DEF Sound1, Banked, Live, Moved
    <2>5. Numbered(p1, p1', used, used', "NONE")
      BY <2>1, <2>2 DEF Numbered
    <2> QED BY <1>3, <2>4, <2>5 DEF P1ZeroizeDone, P1SelfTestDone, P1Moved
  <1>4. CASE P1AsconDone
    <2>1. /\ DOMAIN p1' = Registers1 /\ p1'.session = p1.session /\ p1'.core = "UART"
          /\ p1'.staged = p1.staged /\ p1'.active = p1.active /\ p1'.seq = p1.seq
          /\ p1'.tel = p1.tel /\ p1.core = "ASCON"
      BY <1>0, <1>4 DEF P1AsconDone, Registers1
    <2>2. used \subseteq used'
      BY <2>1, UsedGrows
    <2>3. Sound1' /\ Moved(p1, p1', "NONE", None)
      BY <1>0, <2>1 DEF Sound1, Banked, Live, Moved
    <2>4. Numbered(p1, p1', used, used', "NONE")
      BY <2>1, <2>2 DEF Numbered
    <2> QED BY <1>4, <2>3, <2>4 DEF P1AsconDone, P1Moved
  <1>5. CASE P1UartDone
    <2> DEFINE n == p1.seq + 1
    <2>0. n = p1.seq + 1
      OBVIOUS
    <2> HIDE DEF n
    <2>1. PICK r : p1' = [p1 EXCEPT !.core = "IDLE", !.tel = None, !.seq = n, !.ret = r]
      BY <1>5 DEF P1UartDone, n
    <2>2. /\ DOMAIN p1' = Registers1 /\ p1'.session = p1.session /\ p1'.core = "IDLE"
          /\ p1'.staged = p1.staged /\ p1'.active = p1.active /\ p1'.seq = n
      BY <1>0, <2>1 DEF Registers1
    <2>3. used \subseteq used' /\ p1.session = "ACTIVE" /\ p1.core = "UART" /\ secure
      BY <1>0, <1>5, <2>2, UsedGrows DEF P1UartDone, Banked, P1Forced
    <2>4. Sound1' /\ Moved(p1, p1', "NONE", None)
      BY <1>0, <2>2 DEF Sound1, Banked, Live, Moved
    <2>5. p1.seq \in Nat => n \in Nat \ {0} /\ n >= p1.seq
      BY <2>0
    <2>6. Numbered(p1, p1', used, used', "NONE")
      BY <2>2, <2>3, <2>5 DEF Numbered
    <2> QED BY <1>5, <2>0, <2>2, <2>3, <2>4, <2>6 DEF P1UartDone, P1Moved
  <1> QED BY <1>1, <1>2, <1>3, <1>4, <1>5 DEF P1Engine

(* The reset of Primer #1. *)
LEMMA P1ResetMoves ==
  ASSUME P1PowerCycle, P1Record
  PROVE  P1Moved("NONE", None) /\ UNCHANGED <<nets, reply, air>>
  <1>1. /\ DOMAIN p1' = Registers1 /\ p1'.staged = None /\ p1'.active = None /\ p1'.seq = 1
        /\ p1'.session = "SELF_TEST_REQUIRED" /\ p1'.core = "IDLE"
    BY DEF P1PowerCycle, P1Reset, Registers1
  <1>2. P1Moved("NONE", None)
    BY <1>1, P1Emptied DEF Live
  <1> QED BY <1>2 DEF P1PowerCycle

-----------------------------------------------------------------------------
(* Primer #2. *)

(* A wipe empties the banks, the candidate, the result and the last ACK. *)
LEMMA P2WipeFields ==
  ASSUME NEW p, DOMAIN p = Registers2
  PROVE  /\ DOMAIN P2Wipe(p) = Registers2 /\ P2Wipe(p).staged = None
         /\ P2Wipe(p).active = None /\ P2Wipe(p).result = None /\ P2Wipe(p).ack = None
         /\ P2Wipe(p).last = 0 /\ P2Wipe(p).fault = p.fault
  BY DEF P2Wipe, Registers2

(* Registers with which a zeroize starts. *)
Entered(z) ==
  /\ DOMAIN z = Registers2 /\ z.session = "ZEROIZE_BUSY" /\ z.core = "ZEROIZE"
  /\ z.staged = None /\ z.active = None /\ z.result = None /\ z.ack = None /\ z.last = 0

(* So does the start of a zeroize. *)
LEMMA P2EnterFields ==
  ASSUME NEW p, DOMAIN p = Registers2, NEW command, NEW faulty, NEW test
  PROVE  /\ Entered(P2EnterZeroize(p, command, faulty, test))
         /\ P2EnterZeroize(p, command, faulty, test).fault = p.fault
  <1> DEFINE w == P2Wipe(p)
  <1>1. /\ DOMAIN w = Registers2 /\ w.staged = None /\ w.active = None /\ w.result = None
        /\ w.ack = None /\ w.last = 0 /\ w.fault = p.fault
    BY P2WipeFields
  <1>2. P2EnterZeroize(p, command, faulty, test) =
          [w EXCEPT !.session = "ZEROIZE_BUSY", !.core = "ZEROIZE",
                    !.fromCommand = command, !.dueToFault = faulty, !.needsTest = test]
    BY DEF P2EnterZeroize
  <1> HIDE DEF w
  <1> QED BY <1>1, <1>2 DEF Registers2, Entered

(* Empty banks are a move. *)
LEMMA P2Emptied ==
  ASSUME NEW p, DOMAIN p = Registers2, p.staged = None, p.active = None, p.result = None,
         p.ack = None, p.last = 0, p.session \notin Live \cup {"STAGED"},
         \/ p.core = "IDLE"
         \/ p.core = "ZEROIZE" /\ p.session = "ZEROIZE_BUSY",
         \/ p.fault = FALSE
         \/ p2.fault \/ p2.core = "SELF_TEST"
         \/ p2.core = "DECRYPT" /\ p2.cand.key # p2.active.key,
         NEW cmd, NEW arg, NEW f
  PROVE  P2Moved(p, cmd, arg, f) /\ Keyless(p) /\ Gone(p)
  <1>1. Sound2(p)
    BY DEF Sound2, Banked, Live
  <1>2. Moved(p2, p, cmd, arg)
    BY DEF Moved, Live
  <1>3. Received(p2, p, cmd, f)
    BY DEF Received
  <1>4. Keyless(p) /\ Gone(p)
    BY DEF Keyless, Gone, Live
  <1> QED BY <1>1, <1>2, <1>3, <1>4 DEF P2Moved

(* Nothing happens. *)
LEMMA P2Still ==
  ASSUME Sound2(p2), NEW cmd, NEW arg, NEW f
  PROVE  P2Moved(p2, cmd, arg, f)
  <1>1. Moved(p2, p2, cmd, arg)
    BY DEF Moved
  <1>2. Received(p2, p2, cmd, f)
    BY DEF Received
  <1> QED BY <1>1, <1>2 DEF P2Moved

(* The receive path: a frame is captured, *)
LEMMA CaptureMoves ==
  ASSUME Sound2(p2), p2.core = "IDLE", NEW f
  PROVE  P2Moved(Capture(f), "NONE", None, f)
  <1>1. CASE f # None /\ RxAcceptEnable
    <2> DEFINE d == [p2 EXCEPT !.core = "VALIDATE", !.cand = f]
    <2>1. Capture(f) = d
      BY <1>1 DEF Capture
    <2>2. /\ DOMAIN d = Registers2 /\ d.session = p2.session /\ d.core = "VALIDATE"
          /\ d.cand = f /\ d.staged = p2.staged /\ d.active = p2.active
          /\ d.last = p2.last /\ d.result = p2.result /\ d.ack = p2.ack /\ d.fault = p2.fault
      BY DEF Sound2, Registers2
    <2>3. p2.session = "ACTIVE" /\ p2.active # None /\ p2.result = None
      BY <1>1 DEF RxAcceptEnable
    <2> HIDE DEF d
    <2>4. Sound2(d)
      BY <2>2, <2>3 DEF Sound2, Banked, Live
    <2>5. Moved(p2, d, "NONE", None)
      BY <2>2, <2>3 DEF Moved, Live
    <2>6. Received(p2, d, "NONE", f)
      BY <1>1, <2>2, <2>3 DEF Received
    <2> QED BY <2>1, <2>4, <2>5, <2>6 DEF P2Moved
  <1>2. CASE ~(f # None /\ RxAcceptEnable)
    BY <1>2, P2Still DEF Capture
  <1> QED BY <1>1, <1>2

(* validated, *)
LEMMA ValidateMoves ==
  ASSUME Sound2(p2), p2.core = "VALIDATE", NEW f
  PROVE  P2Moved(Validate, "NONE", None, f)
  <1>1. PICK c \in {"DECRYPT", "IDLE"}, x \in {p2.cand, None} :
          /\ Validate = [p2 EXCEPT !.core = c, !.cand = x]
          /\ c = "DECRYPT" => x = p2.cand /\ p2.cand.seq = p2.last + 1
    <2>1. [p2 EXCEPT !.core = "DECRYPT"] = [p2 EXCEPT !.core = "DECRYPT", !.cand = p2.cand]
      BY DEF Sound2, Registers2
    <2> QED BY <2>1 DEF Validate, Acceptable
  <1> DEFINE d == [p2 EXCEPT !.core = c, !.cand = x]
  <1>2. /\ DOMAIN d = Registers2 /\ d.session = p2.session /\ d.core = c
        /\ d.cand = x /\ d.staged = p2.staged /\ d.active = p2.active
        /\ d.last = p2.last /\ d.result = p2.result /\ d.ack = p2.ack /\ d.fault = p2.fault
    BY DEF Sound2, Registers2
  <1>3. p2.session = "ACTIVE" /\ p2.active # None /\ p2.result = None
    BY DEF Sound2, Banked, Live
  <1>4. Validate = d
    BY <1>1
  <1> HIDE DEF d
  <1>5. Sound2(d)
    BY <1>1, <1>2, <1>3 DEF Sound2, Banked, Live
  <1>6. Moved(p2, d, "NONE", None)
    BY <1>2, <1>3 DEF Moved, Live
  <1>7. Received(p2, d, "NONE", f)
    BY <1>1, <1>2, <1>3 DEF Received
  <1> QED BY <1>4, <1>5, <1>6, <1>7 DEF P2Moved

(* and decrypted. *)
LEMMA DecryptMoves ==
  ASSUME Sound2(p2), p2.core = "DECRYPT", NEW f
  PROVE  P2Moved(Decrypted, "NONE", None, f)
  <1> DEFINE p == [p2 EXCEPT !.core = "IDLE", !.cand = None]
  <1>1. /\ DOMAIN p = Registers2 /\ p.session = p2.session /\ p.core = "IDLE"
        /\ p.staged = p2.staged /\ p.active = p2.active /\ p.cand = None
        /\ p.last = p2.last /\ p.result = p2.result /\ p.ack = p2.ack /\ p.fault = p2.fault
    BY DEF Sound2, Registers2
  <1>2. /\ p2.session = "ACTIVE" /\ p2.active # None /\ p2.result = None /\ p2.staged = None
        /\ p2.cand.seq = p2.last + 1
    BY DEF Sound2, Banked, Live
  <1>3. /\ TagValid =>
            Decrypted = [p EXCEPT !.result = p2.cand, !.last = p2.cand.seq, !.bad = 0]
        /\ ~TagValid =>
             \/ Decrypted = [P2EnterZeroize(p, FALSE, TRUE, FALSE) EXCEPT !.fault = TRUE, !.ret = None]
             \/ Decrypted = [p EXCEPT !.bad = @ + 1]
    BY DEF Decrypted
  <1> HIDE DEF p
  <1>4. CASE TagValid
    <2> DEFINE d == [p EXCEPT !.result = p2.cand, !.last = p2.cand.seq, !.bad = 0]
    <2>1. /\ DOMAIN d = Registers2 /\ d.session = p2.session /\ d.core = "IDLE"
          /\ d.staged = p2.staged /\ d.active = p2.active
          /\ d.last = p2.cand.seq /\ d.result = p2.cand /\ d.fault = p2.fault
      BY <1>1 DEF Registers2
    <2>2. Decrypted = d
      BY <1>3, <1>4
    <2> HIDE DEF d
    <2>3. Sound2(d)
      BY <1>2, <2>1 DEF Sound2, Banked, Live
    <2>4. Moved(p2, d, "NONE", None)
      BY <1>2, <2>1 DEF Moved, Live
    <2>5. p2.last \in Nat => p2.cand.seq \in Nat
      BY <1>2
    <2>6. Received(p2, d, "NONE", f)
      BY <1>2, <2>1, <2>5 DEF Received
    <2> QED BY <2>2, <2>3, <2>4, <2>6 DEF P2Moved
  <1>5. CASE ~TagValid /\ Decrypted = [P2EnterZeroize(p, FALSE, TRUE, FALSE) EXCEPT !.fault = TRUE, !.ret = None]
    <2> DEFINE z == P2EnterZeroize(p, FALSE, TRUE, FALSE)
               d == [z EXCEPT !.fault = TRUE, !.ret = None]
    <2>1. /\ DOMAIN z = Registers2 /\ z.session = "ZEROIZE_BUSY" /\ z.core = "ZEROIZE"
          /\ z.staged = None /\ z.active = None /\ z.result = None /\ z.ack = None
          /\ z.last = 0
      <3>1. \A x, y, t : Entered(P2EnterZeroize(p, x, y, t))
        BY <1>1, P2EnterFields
      <3>2. Entered(z)
        BY <3>1, Zenon
      <3> QED BY <3>2 DEF Entered
    <2> HIDE DEF z
    <2>2. /\ DOMAIN d = Registers2 /\ d.session = "ZEROIZE_BUSY" /\ d.core = "ZEROIZE"
          /\ d.staged = None /\ d.active = None /\ d.result = None /\ d.ack = None
          /\ d.last = 0
      BY <2>1 DEF Registers2
    <2>3. Decrypted = d
      BY <1>5 DEF z
    <2>4. p2.core = "DECRYPT" /\ p2.cand.key # p2.active.key
      BY <1>5 DEF TagValid
    <2> HIDE DEF d
    <2> QED BY <2>2, <2>3, <2>4, P2Emptied DEF Live
  <1>6. CASE Decrypted = [p EXCEPT !.bad = @ + 1]
    <2> DEFINE n == p.bad + 1
               d == [p EXCEPT !.bad = n]
    <2>1. Decrypted = d
      BY <1>6
    <2> HIDE DEF n
    <2>2. /\ DOMAIN d = Registers2 /\ d.session = p2.session /\ d.core = "IDLE"
          /\ d.staged = p2.staged /\ d.active = p2.active
          /\ d.last = p2.last /\ d.result = p2.result /\ d.ack = p2.ack /\ d.fault = p2.fault
      BY <1>1 DEF Registers2
    <2> HIDE DEF d
    <2>3. Sound2(d)
      BY <1>2, <2>2 DEF Sound2, Banked, Live
    <2>4. Moved(p2, d, "NONE", None)
      BY <1>2, <2>2 DEF Moved, Live
    <2>5. Received(p2, d, "NONE", f)
      BY <1>2, <2>2 DEF Received
    <2> QED BY <2>1, <2>3, <2>4, <2>5 DEF P2Moved
  <1> QED BY <1>3, <1>4, <1>5, <1>6

(* The self-test ends. *)
LEMMA SelfTestEndsMoves ==
  ASSUME Sound2(p2), p2.core = "SELF_TEST", NEW f, NEW d \in SelfTestEnds
  PROVE  P2Moved(d, "NONE", None, f)
  <1>1. /\ DOMAIN d = Registers2 /\ d.session \in {"READY_NO_SESSION", "FAULT_LOCKED"}
        /\ d.core = "IDLE"
        /\ d.staged = p2.staged /\ d.active = p2.active
        /\ d.last = p2.last /\ d.result = p2.result /\ d.ack = p2.ack
    BY ZenonT(60) DEF Sound2, Registers2, SelfTestEnds
  <1>2. p2.staged = None /\ p2.active = None /\ p2.result = None /\ p2.ack = None
    BY DEF Sound2, Banked, Live
  <1>3. Sound2(d)
    BY <1>1, <1>2 DEF Sound2, Banked, Live
  <1>4. Moved(p2, d, "NONE", None)
    BY <1>1 DEF Moved, Live
  <1>5. Received(p2, d, "NONE", f)
    BY <1>1, <1>2 DEF Received
  <1> QED BY <1>3, <1>4, <1>5 DEF P2Moved

(* A cycle of the receive path. *)
LEMMA ProgressMoves ==
  ASSUME Sound2(p2), P2Open, NEW f, NEW d \in Progress(f)
  PROVE  /\ P2Moved(d, "NONE", None, f)
         /\ p2.core = "IDLE" /\ f = None => d = p2
  <1>1. p2.core \in {"IDLE", "SELF_TEST", "VALIDATE", "DECRYPT"}
    BY DEF Sound2, Banked, P2Open
  <1>2. CASE p2.core = "VALIDATE"
    BY <1>2, ValidateMoves DEF Progress
  <1>3. CASE p2.core = "DECRYPT"
    BY <1>3, DecryptMoves, P2Still DEF Progress
  <1>4. CASE p2.core = "SELF_TEST"
    BY <1>4, SelfTestEndsMoves, P2Still DEF Progress
  <1>5. CASE p2.core = "IDLE"
    BY <1>5, CaptureMoves DEF Progress, Capture
  <1> QED BY <1>1, <1>2, <1>3, <1>4, <1>5

(* An answer without an effect of its own leaves what the cycle left. *)
LEMMA P2ReplyMoves ==
  ASSUME NEW p, P2Moved(p, "NONE", None, None), NEW code \in Codes, P2Reply(p, code)
  PROVE  /\ p2' = p /\ reply' = code /\ UNCHANGED nets
         /\ \A cmd, arg : P2Moved(p2', cmd, arg, None)
  <1>1. p2' = p /\ reply' = code /\ UNCHANGED nets
    BY DEF P2Reply, Answer
  <1>2. \A cmd, arg : Moved(p2, p, cmd, arg)
    BY DEF P2Moved, Moved
  <1>3. \A cmd : Received(p2, p, cmd, None)
    BY DEF P2Moved, Received
  <1>4. \A cmd, arg : P2Moved(p, cmd, arg, None)
    BY <1>2, <1>3 DEF P2Moved
  <1> QED BY <1>1, <1>4

(* A zeroize starts. *)
LEMMA P2StartZeroizeMoves ==
  ASSUME NEW p, P2Moved(p, "NONE", None, None), NEW q, q.cmd = "ZEROIZE", P2StartZeroize(p, q)
  PROVE  P2Answered(q.cmd, q.arg)
  <1> DEFINE r == Begin(q)
  <1>1. PICK z : /\ Entered(z) /\ z.fault = p.fault /\ p2' = [z EXCEPT !.ret = r]
    <2>1. \A x, y, t : /\ Entered(P2EnterZeroize(p, x, y, t))
                       /\ P2EnterZeroize(p, x, y, t).fault = p.fault
      BY P2EnterFields DEF P2Moved, Sound2
    <2>2. p2' = [P2EnterZeroize(p, TRUE, FALSE, FALSE) EXCEPT !.ret = r]
      BY DEF P2StartZeroize
    <2> QED BY <2>1, <2>2, Zenon
  <1> HIDE DEF r
  <1>2. /\ DOMAIN p2' = Registers2 /\ p2'.session = "ZEROIZE_BUSY" /\ p2'.core = "ZEROIZE"
        /\ p2'.staged = None /\ p2'.active = None /\ p2'.result = None /\ p2'.ack = None
        /\ p2'.last = 0 /\ p2'.fault = p.fault
    BY <1>1 DEF Entered, Registers2
  <1>3. p.fault => \/ p2.fault \/ p2.core = "SELF_TEST"
                   \/ p2.core = "DECRYPT" /\ p2.cand.key # p2.active.key
    BY DEF P2Moved, Received
  <1>4. Sound2(p2') /\ Moved(p2, p2', q.cmd, q.arg) /\ Keyless(p2') /\ Gone(p2')
    BY <1>2 DEF Sound2, Banked, Moved, Live, Keyless, Gone
  <1>5. Received(p2, p2', q.cmd, None)
    BY <1>2, <1>3 DEF Received
  <1>6. reply' = "OK" /\ UNCHANGED nets
    BY DEF P2StartZeroize, Answer
  <1>7. Answered(p2, p2', q.cmd, q.arg, reply') /\ Delivers(p2, p2', q.cmd, q.arg, reply')
    BY <1>4, <1>6, AnswerCodes DEF Answered, Delivers
  <1> QED BY <1>4, <1>5, <1>6, <1>7 DEF P2Answered, P2Moved

(* Commands that only answer. *)
LEMMA P2ReadMoves ==
  ASSUME NEW p, P2Moved(p, "NONE", None, None), NEW q, P2Read(p, q),
         p = p2 \/ q.cmd \in Urgent
  PROVE  P2Answered(q.cmd, q.arg)
  <1>1. PICK code \in Codes : /\ P2Reply(p, code)
                              /\ q.cmd = "READ_AUTH_RESULT" /\ code = "OK" => p2.result # None
    BY AnswerCodes DEF P2Read
  <1>2. q.cmd \in {"GET_INFO", "GET_STATUS", "GET_RX_STATUS", "CLEAR_DIAGNOSTIC_COUNTERS",
                   "GET_TXN_RESULT", "READ_AUTH_RESULT", "UNKNOWN"}
    BY DEF P2Read
  <1>3. p2' = p /\ reply' = code /\ UNCHANGED nets /\ P2Moved(p2', q.cmd, q.arg, None)
    BY <1>1, P2ReplyMoves
  <1>4. q.cmd = "READ_AUTH_RESULT" => p2' = p2
    BY <1>3 DEF Urgent
  <1> QED BY <1>1, <1>2, <1>3, <1>4 DEF P2Answered, Answered, Delivers

(* RUN_SELF_TEST *)
LEMMA P2SelfTestMoves ==
  ASSUME Sound2(p2), NEW q, P2RunSelfTest(p2, q)
  PROVE  P2Answered(q.cmd, q.arg)
  <1>0. q.cmd = "RUN_SELF_TEST" /\ P2Moved(p2, "NONE", None, None)
    BY P2Still DEF P2RunSelfTest
  <1>1. CASE P2Reply(p2, "NOT_SUPPORTED") \/ P2Reply(p2, "BAD_STATE")
    <2>1. PICK code \in Codes : P2Reply(p2, code)
      BY <1>1, AnswerCodes
    <2>2. p2' = p2 /\ reply' = code /\ UNCHANGED nets /\ P2Moved(p2', q.cmd, q.arg, None)
      BY <1>0, <2>1, P2ReplyMoves
    <2> QED BY <1>0, <2>1, <2>2 DEF P2Answered, Answered, Delivers
  <1>2. CASE /\ p2.session \in {"SELF_TEST_REQUIRED", "READY_NO_SESSION"}
             /\ p2' = [p2 EXCEPT !.session = "SELF_TEST_RUNNING", !.core = "SELF_TEST",
                                 !.ret = Begin(q)]
             /\ Answer("OK") /\ UNCHANGED nets
    <2> DEFINE r == Begin(q)
    <2> HIDE DEF r
    <2>1. /\ DOMAIN p2' = Registers2 /\ p2'.session = "SELF_TEST_RUNNING"
          /\ p2'.core = "SELF_TEST" /\ p2'.staged = p2.staged /\ p2'.active = p2.active
          /\ p2'.last = p2.last /\ p2'.result = p2.result /\ p2'.ack = p2.ack
          /\ p2'.fault = p2.fault
      BY <1>2 DEF Sound2, Registers2, r
    <2>2. p2.staged = None /\ p2.active = None /\ p2.result = None /\ p2.ack = None
      BY <1>2 DEF Sound2, Banked, Live
    <2>3. Sound2(p2') /\ Moved(p2, p2', q.cmd, q.arg)
      BY <2>1, <2>2 DEF Sound2, Banked, Live, Moved
    <2>4. Received(p2, p2', q.cmd, None)
      BY <2>1, <2>2 DEF Received
    <2>5. reply' = "OK"
      BY <1>2 DEF Answer
    <2> QED BY <1>0, <1>2, <2>3, <2>4, <2>5, AnswerCodes
            DEF P2Answered, P2Moved, Answered, Delivers
  <1> QED BY <1>1, <1>2 DEF P2RunSelfTest

(* RETIRE_TXN_RESULT *)
LEMMA P2RetireMoves ==
  ASSUME Sound2(p2), NEW q, P2Retire(p2, q)
  PROVE  P2Answered(q.cmd, q.arg)
  <1>1. PICK r : p2' = [p2 EXCEPT !.ret = r]
    BY DEF P2Retire
  <1>2. /\ DOMAIN p2' = Registers2 /\ p2'.session = p2.session /\ p2'.core = p2.core
        /\ p2'.staged = p2.staged /\ p2'.active = p2.active /\ p2'.cand = p2.cand
        /\ p2'.last = p2.last /\ p2'.result = p2.result /\ p2'.ack = p2.ack
        /\ p2'.fault = p2.fault
    BY <1>1 DEF Sound2, Registers2
  <1>3. Sound2(p2') /\ Moved(p2, p2', q.cmd, q.arg)
    BY <1>2 DEF Sound2, Banked, Live, Moved
  <1>4. Received(p2, p2', q.cmd, None)
    BY <1>2 DEF Received
  <1>5. q.cmd = "RETIRE_TXN_RESULT" /\ reply' = "OK" /\ UNCHANGED nets
    BY DEF P2Retire, Answer
  <1> QED BY <1>3, <1>4, <1>5, AnswerCodes DEF P2Answered, P2Moved, Answered, Delivers

(* STAGE_SESSION *)
LEMMA P2StageMoves ==
  ASSUME Sound2(p2), NEW q, P2Stage(p2, q)
  PROVE  P2Answered(q.cmd, q.arg)
  <1>0. q.cmd = "STAGE_SESSION" /\ P2Moved(p2, "NONE", None, None)
    BY P2Still DEF P2Stage
  <1>1. CASE P2Reply(p2, "BAD_STATE") \/ P2Reply(p2, "SESSION_ID_COLLISION")
    <2>1. PICK code \in Codes : P2Reply(p2, code) /\ code # "OK"
      BY <1>1, AnswerCodes
    <2>2. p2' = p2 /\ reply' = code /\ UNCHANGED nets /\ P2Moved(p2', q.cmd, q.arg, None)
      BY <1>0, <2>1, P2ReplyMoves
    <2> QED BY <1>0, <2>1, <2>2 DEF P2Answered, Answered, Delivers
  <1>2. CASE /\ p2.session \in {"READY_NO_SESSION", "STAGED"} /\ p2.staged = q.arg
             /\ P2Reply(p2, "OK")
    <2>1. p2' = p2 /\ reply' = "OK" /\ UNCHANGED nets /\ P2Moved(p2', q.cmd, q.arg, None)
      BY <1>0, <1>2, P2ReplyMoves, AnswerCodes
    <2> QED BY <1>0, <1>2, <2>1, AnswerCodes DEF P2Answered, Answered, Delivers, Live
  <1>3. CASE /\ p2.session \in {"READY_NO_SESSION", "STAGED"}
             /\ p2' = [p2 EXCEPT !.staged = q.arg, !.session = "STAGED"]
             /\ Answer("OK") /\ UNCHANGED nets
    <2>1. /\ DOMAIN p2' = Registers2 /\ p2'.session = "STAGED" /\ p2'.core = p2.core
          /\ p2'.staged = q.arg /\ p2'.active = p2.active
          /\ p2'.last = p2.last /\ p2'.result = p2.result /\ p2'.ack = p2.ack
          /\ p2'.fault = p2.fault
      BY <1>3 DEF Sound2, Registers2
    <2>2. p2.active = None /\ p2.result = None /\ p2.ack = None /\ p2.core = "IDLE"
      BY <1>3 DEF Sound2, Banked, Live
    <2>3. Sound2(p2') /\ Moved(p2, p2', q.cmd, q.arg)
      BY <1>0, <2>1, <2>2 DEF Sound2, Banked, Live, Moved
    <2>4. Received(p2, p2', q.cmd, None)
      BY <2>1, <2>2 DEF Received
    <2>5. reply' = "OK"
      BY <1>3 DEF Answer
    <2> QED BY <1>0, <1>3, <2>1, <2>3, <2>4, <2>5, AnswerCodes
            DEF P2Answered, P2Moved, Answered, Delivers, Live
  <1> QED BY <1>1, <1>2, <1>3 DEF P2Stage

(* COMMIT_SESSION *)
LEMMA P2CommitMoves ==
  ASSUME Sound2(p2), NEW q, P2Commit(p2, q)
  PROVE  P2Answered(q.cmd, q.arg)
  <1>0. q.cmd = "COMMIT_SESSION" /\ P2Moved(p2, "NONE", None, None)
    BY P2Still DEF P2Commit
  <1>1. CASE P2Reply(p2, "COMMIT_REJECTED") \/ P2Reply(p2, "BAD_SESSION")
    <2>1. PICK code \in Codes : P2Reply(p2, code)
      BY <1>1, AnswerCodes
    <2>2. p2' = p2 /\ reply' = code /\ UNCHANGED nets /\ P2Moved(p2', q.cmd, q.arg, None)
      BY <1>0, <2>1, P2ReplyMoves
    <2> QED BY <1>0, <2>1, <2>2 DEF P2Answered, Answered, Delivers
  <1>2. CASE /\ p2.session = "STAGED" /\ p2.staged # None /\ p2.staged.id = q.arg
             /\ p2' = [p2 EXCEPT !.active = p2.staged, !.staged = None, !.last = 0,
                                 !.result = None, !.session = "COMMITTED_BLOCKED",
                                 !.ret = Complete(Begin(q), "SUCCEEDED", None)]
             /\ Answer("OK") /\ UNCHANGED nets
    <2> DEFINE r == Complete(Begin(q), "SUCCEEDED", None)
    <2> HIDE DEF r
    <2>1. /\ DOMAIN p2' = Registers2 /\ p2'.session = "COMMITTED_BLOCKED"
          /\ p2'.core = p2.core /\ p2'.staged = None /\ p2'.active = p2.staged
          /\ p2'.last = 0 /\ p2'.result = None /\ p2'.fault = p2.fault
      BY <1>2 DEF Sound2, Registers2, r
    <2>2. p2.active = None /\ p2.core = "IDLE"
      BY <1>2 DEF Sound2, Banked, Live
    <2>3. Sound2(p2') /\ Moved(p2, p2', q.cmd, q.arg)
      BY <1>0, <1>2, <2>1, <2>2 DEF Sound2, Banked, Live, Moved
    <2>4. Received(p2, p2', q.cmd, None)
      BY <2>1, <2>2 DEF Received
    <2>5. reply' = "OK"
      BY <1>2 DEF Answer
    <2> QED BY <1>0, <1>2, <2>3, <2>4, <2>5, AnswerCodes
            DEF P2Answered, P2Moved, Answered, Delivers
  <1> QED BY <1>1, <1>2 DEF P2Commit

(* ABORT_SESSION, in whatever cycle *)
LEMMA P2AbortMoves ==
  ASSUME NEW p, P2Moved(p, "NONE", None, None), NEW q, P2Abort(p, q)
  PROVE  P2Answered(q.cmd, q.arg)
  <1>0. q.cmd = "ABORT_SESSION"
    BY DEF P2Abort
  <1>1. CASE q.arg # None /\ ~Named(p2, q.arg) /\ P2Reply(p, "BAD_SESSION")
    <2>1. p2' = p /\ reply' = "BAD_SESSION" /\ UNCHANGED nets
          /\ P2Moved(p2', q.cmd, q.arg, None)
      BY <1>1, P2ReplyMoves, AnswerCodes
    <2> QED BY <1>0, <1>1, <2>1, AnswerCodes DEF P2Answered, Answered, Delivers
  <1>2. CASE /\ p2' = [P2Wipe(p) EXCEPT !.session = P2Idle, !.core = "IDLE"]
             /\ Answer("OK") /\ UNCHANGED nets
    <2> DEFINE w == P2Wipe(p)
               s == P2Idle
    <2>1. /\ DOMAIN w = Registers2 /\ w.staged = None /\ w.active = None /\ w.result = None
          /\ w.ack = None /\ w.last = 0 /\ w.fault = p.fault
      BY P2WipeFields DEF P2Moved, Sound2
    <2>2. s \notin Live \cup {"STAGED"}
      BY DEF P2Idle, Live
    <2> HIDE DEF w, s
    <2>3. /\ DOMAIN p2' = Registers2 /\ p2'.session = s /\ p2'.core = "IDLE"
          /\ p2'.staged = None /\ p2'.active = None /\ p2'.result = None /\ p2'.ack = None
          /\ p2'.last = 0 /\ p2'.fault = p.fault
      BY <1>2, <2>1 DEF Registers2, w, s
    <2>4. p.fault => \/ p2.fault \/ p2.core = "SELF_TEST"
                     \/ p2.core = "DECRYPT" /\ p2.cand.key # p2.active.key
      BY DEF P2Moved, Received
    <2>5. Sound2(p2') /\ Moved(p2, p2', q.cmd, q.arg) /\ Keyless(p2') /\ Gone(p2')
      BY <2>2, <2>3 DEF Sound2, Banked, Moved, Live, Keyless, Gone
    <2>6. Received(p2, p2', q.cmd, None)
      BY <2>3, <2>4 DEF Received
    <2>7. reply' = "OK"
      BY <1>2 DEF Answer
    <2> QED BY <1>0, <1>2, <2>5, <2>6, <2>7, AnswerCodes
            DEF P2Answered, P2Moved, Answered, Delivers
  <1> QED BY <1>1, <1>2 DEF P2Abort, Named

(* ACK_AUTH_RESULT *)
LEMMA P2AckMoves ==
  ASSUME Sound2(p2), NEW q, P2Ack(p2, q), p2.core = "IDLE"
  PROVE  P2Answered(q.cmd, q.arg)
  <1>0. q.cmd = "ACK_AUTH_RESULT" /\ P2Moved(p2, "NONE", None, None)
    BY P2Still DEF P2Ack
  <1>1. CASE P2Reply(p2, "BAD_SESSION") \/ P2Reply(p2, "RESULT_NOT_READY")
    <2>1. PICK code \in Codes : P2Reply(p2, code) /\ code # "OK"
      BY <1>1, AnswerCodes
    <2>2. p2' = p2 /\ reply' = code /\ UNCHANGED nets /\ P2Moved(p2', q.cmd, q.arg, None)
      BY <1>0, <2>1, P2ReplyMoves
    <2> QED BY <1>0, <2>1, <2>2 DEF P2Answered, Answered, Delivers
  <1>2. CASE p2.result = None /\ p2.ack = q.arg /\ P2Reply(p2, "OK")
    <2>1. p2' = p2 /\ reply' = "OK" /\ UNCHANGED nets /\ P2Moved(p2', q.cmd, q.arg, None)
      BY <1>0, <1>2, P2ReplyMoves, AnswerCodes
    <2> QED BY <1>0, <1>2, <2>1, AnswerCodes DEF P2Answered, Answered, Delivers
  <1>3. CASE /\ p2.result # None /\ q.arg.id = p2.result.id /\ q.arg.seq = p2.result.seq
             /\ p2' = [p2 EXCEPT !.result = None, !.ack = q.arg]
             /\ Answer("OK") /\ UNCHANGED nets
    <2>1. /\ DOMAIN p2' = Registers2 /\ p2'.session = p2.session /\ p2'.core = p2.core
          /\ p2'.staged = p2.staged /\ p2'.active = p2.active
          /\ p2'.last = p2.last /\ p2'.result = None /\ p2'.fault = p2.fault
      BY <1>3 DEF Sound2, Registers2
    <2>2. p2.active # None
      BY <1>3 DEF Sound2
    <2>3. Sound2(p2') /\ Moved(p2, p2', q.cmd, q.arg)
      BY <2>1, <2>2 DEF Sound2, Banked, Live, Moved
    <2>4. Received(p2, p2', q.cmd, None)
      BY <1>0, <2>1, <2>2 DEF Received
    <2>5. reply' = "OK"
      BY <1>3 DEF Answer
    <2> QED BY <1>0, <1>3, <2>1, <2>3, <2>4, <2>5, AnswerCodes
            DEF P2Answered, P2Moved, Answered, Delivers
  <1> QED BY <1>1, <1>2, <1>3 DEF P2Ack

(* A request to Primer #2, under a transaction it does not retain. *)
LEMMA P2RequestMoves ==
  ASSUME Sound2(p2), NEW q, P2Request(None, q), p2.ret = None \/ p2.ret.txid # q.txid
  PROVE  P2Answered(q.cmd, q.arg)
  <1>1. PICK p \in Progress(None) : P2Serve(p, None, q)
    BY DEF P2Request
  <1>2. P2Moved(p, "NONE", None, None) /\ (p2.core = "IDLE" => p = p2)
    BY <1>1, ProgressMoves DEF P2Request
  <1>3. CASE P2Blocked(q) /\ P2Repeat(p, q)
    <2>1. CASE q.cmd # "ZEROIZE" /\ P2Reply(p, RetainedCode(p2.ret, q))
      <3>1. PICK code \in Codes : P2Reply(p, code)
        BY <2>1, AnswerCodes
      <3>2. p2' = p /\ reply' = code /\ UNCHANGED nets /\ P2Moved(p2', q.cmd, q.arg, None)
        BY <1>2, <3>1, P2ReplyMoves
      <3>3. q.cmd \in {"RUN_SELF_TEST", "COMMIT_SESSION"}
        BY <1>3, <2>1 DEF P2Blocked, P2Retained
      <3> QED BY <3>1, <3>2, <3>3 DEF P2Answered, Answered, Delivers
    <2>2. CASE q.cmd = "ZEROIZE" /\ P2StartZeroize(p, q)
      BY <1>2, <2>2, P2StartZeroizeMoves
    <2> QED BY <1>3, <2>1, <2>2 DEF P2Repeat, P2Blocked
  <1>4. CASE q.cmd \notin Urgent /\ P2Reply(p, "BUSY")
    <2>1. p2' = p /\ reply' = "BUSY" /\ UNCHANGED nets /\ P2Moved(p2', q.cmd, q.arg, None)
      BY <1>2, <1>4, P2ReplyMoves, AnswerCodes
    <2> QED BY <1>4, <2>1, AnswerCodes DEF P2Answered, Answered, Delivers, Urgent
  <1>5. CASE q.arg = Malformed /\ P2Reply(p, "BAD_LENGTH")
    <2>1. p2' = p /\ reply' = "BAD_LENGTH" /\ UNCHANGED nets /\ P2Moved(p2', q.cmd, q.arg, None)
      BY <1>2, <1>5, P2ReplyMoves, AnswerCodes
    <2>2. q.arg # None
      BY <1>5, SystemAssumption DEF SystemAssumption
    <2> QED BY <1>5, <2>1, <2>2, AnswerCodes DEF P2Answered, Answered, Delivers
  <1>6. CASE (p2.core = "IDLE" \/ q.cmd \in Urgent) /\ P2Dispatch(p, q)
    <2>1. p = p2 \/ q.cmd \in Urgent
      BY <1>2, <1>6
    <2>2. CASE P2Read(p, q)
      BY <1>2, <2>1, <2>2, P2ReadMoves
    <2>3. CASE P2Zeroize(p, q)
      <3>1. q.cmd = "ZEROIZE"
        BY <2>3 DEF P2Zeroize
      <3>2. CASE P2StartZeroize(p, q)
        BY <1>2, <3>1, <3>2, P2StartZeroizeMoves
      <3>3. CASE q.arg = Unsupported /\ P2Reply(p, "NOT_SUPPORTED")
        <4>1. /\ p2' = p /\ reply' = "NOT_SUPPORTED" /\ UNCHANGED nets
              /\ P2Moved(p2', q.cmd, q.arg, None)
          BY <1>2, <3>3, P2ReplyMoves, AnswerCodes
        <4>2. q.arg # None
          BY <3>3, SystemAssumption DEF SystemAssumption
        <4> QED BY <3>1, <4>1, <4>2, AnswerCodes DEF P2Answered, Answered, Delivers
      <3> QED BY <2>3, <3>2, <3>3 DEF P2Zeroize
    <2>4. CASE P2Abort(p, q)
      BY <1>2, <2>4, P2AbortMoves
    <2>5. CASE /\ ~(P2Read(p, q) \/ P2Zeroize(p, q) \/ P2Abort(p, q))
      <3>1. q.cmd \in {"RUN_SELF_TEST", "RETIRE_TXN_RESULT", "STAGE_SESSION",
                       "COMMIT_SESSION", "ACK_AUTH_RESULT"}
        BY <1>6, <2>5 DEF P2Dispatch, P2RunSelfTest, P2Retire, P2Stage, P2Commit, P2Ack
      <3>2. p = p2 /\ p2.core = "IDLE"
        BY <1>2, <1>6, <3>1 DEF Urgent
      <3> QED BY <1>6, <2>5, <3>2, P2SelfTestMoves, P2RetireMoves, P2StageMoves,
                 P2CommitMoves, P2AckMoves DEF P2Dispatch
    <2> QED BY <2>2, <2>3, <2>4, <2>5
  <1> QED BY <1>1, <1>3, <1>4, <1>5, <1>6 DEF P2Serve

(* The engines of Primer #2: only a fatal supervisor makes one fault. *)
LEMMA P2EngineMoves ==
  ASSUME Sound2(p2), P2Engine
  PROVE  /\ Sound2(p2') /\ Moved(p2, p2', "NONE", None) /\ UNCHANGED <<nets, reply>>
         /\ (\/ p2'.core \notin {"VALIDATE", "DECRYPT"}
             \/ p2'.cand = p2.cand /\ p2'.core = p2.core)
         /\ p2'.active # None => /\ p2'.active = p2.active /\ p2'.last = p2.last
                                 /\ p2'.result = p2.result
         /\ p2.last \in Nat => p2'.last \in Nat
         /\ ~fatal /\ p2'.fault => p2.fault
  <1>0. DOMAIN p2 = Registers2 /\ Banked(p2)
    BY DEF Sound2
  <1>1. CASE P2ForceZeroize
    <2>1. PICK z, e : /\ Entered(z) /\ (e => p2.fault \/ fatal)
                      /\ p2' = [z EXCEPT !.fault = e, !.ret = None]
      <3>1. \A x, y, t : /\ Entered(P2EnterZeroize(p2, x, y, t))
                         /\ P2EnterZeroize(p2, x, y, t).fault = p2.fault
        BY <1>0, P2EnterFields
      <3>2. \E x, y, t : p2' = [P2EnterZeroize(p2, x, y, t) EXCEPT !.fault = @ \/ fatal, !.ret = None]
        BY <1>1, Zenon DEF P2ForceZeroize
      <3>3. PICK x, y, t : p2' = [P2EnterZeroize(p2, x, y, t) EXCEPT !.fault = @ \/ fatal, !.ret = None]
        BY <3>2
      <3> DEFINE zz == P2EnterZeroize(p2, x, y, t)
      <3>4. Entered(zz) /\ zz.fault = p2.fault /\ p2' = [zz EXCEPT !.fault = zz.fault \/ fatal, !.ret = None]
        BY <3>1, <3>3
      <3> HIDE DEF zz
      <3> QED BY <3>4
    <2>2. /\ DOMAIN p2' = Registers2 /\ p2'.session = "ZEROIZE_BUSY" /\ p2'.core = "ZEROIZE"
          /\ p2'.staged = None /\ p2'.active = None /\ p2'.result = None /\ p2'.ack = None
          /\ p2'.last = 0 /\ p2'.fault = e
      BY <2>1 DEF Entered, Registers2
    <2>3. Sound2(p2') /\ Moved(p2, p2', "NONE", None)
      BY <2>2 DEF Sound2, Banked, Moved, Live
    <2>4. UNCHANGED <<nets, reply>>
      BY <1>1 DEF P2ForceZeroize
    <2>5. ~fatal /\ p2'.fault => p2.fault
      BY <2>1, <2>2, Zenon
    <2> QED BY <2>2, <2>3, <2>4, <2>5
  <1>2. CASE P2Release
    <2>1. /\ DOMAIN p2' = Registers2 /\ p2'.session = "ACTIVE" /\ p2'.core = p2.core
          /\ p2'.staged = p2.staged /\ p2'.active = p2.active /\ p2'.cand = p2.cand
          /\ p2'.last = p2.last /\ p2'.result = p2.result /\ p2'.ack = p2.ack
          /\ p2'.fault = p2.fault /\ p2.session = "COMMITTED_BLOCKED"
      BY <1>0, <1>2 DEF P2Release, Registers2
    <2>2. p2.core = "IDLE"
      BY <1>0, <2>1 DEF Banked
    <2>3. Sound2(p2') /\ Moved(p2, p2', "NONE", None)
      BY <2>1, <2>2 DEF Sound2, Banked, Live, Moved
    <2> QED BY <1>2, <2>1, <2>2, <2>3 DEF P2Release
  <1>3. CASE P2ZeroizeDone
    <2> DEFINE p == [p2 EXCEPT !.core = "IDLE", !.fromCommand = FALSE, !.dueToFault = FALSE,
                               !.needsTest = FALSE]
    <2>1. /\ DOMAIN p = Registers2 /\ p.core = "IDLE" /\ p.staged = p2.staged
          /\ p.active = p2.active /\ p.last = p2.last /\ p.result = p2.result
          /\ p.ack = p2.ack /\ p.fault = p2.fault
      BY <1>0 DEF Registers2
    <2>2. P2Idle \in {"READY_NO_SESSION", "SELF_TEST_REQUIRED"}
      BY DEF P2Idle
    <2>3. \/ p2' = [p EXCEPT !.session = P2Idle, !.ret = Complete(@, "ZEROIZED", None)]
          \/ p2' = [p EXCEPT !.session = "FAULT_LOCKED"]
          \/ p2' = [p EXCEPT !.session = "SELF_TEST_REQUIRED", !.pass = FALSE]
          \/ p2' = [p EXCEPT !.session = "READY_NO_SESSION"]
      BY <1>3 DEF P2ZeroizeDone
    <2> HIDE DEF p
    <2>4. /\ DOMAIN p2' = Registers2 /\ p2'.core = "IDLE" /\ p2'.staged = p2.staged
          /\ p2'.session \in {"READY_NO_SESSION", "SELF_TEST_REQUIRED", "FAULT_LOCKED"}
          /\ p2'.active = p2.active /\ p2'.last = p2.last /\ p2'.result = p2.result
          /\ p2'.ack = p2.ack /\ p2'.fault = p2.fault
      BY <2>1, <2>2, <2>3, ZenonT(60) DEF Registers2
    <2>5. p2.staged = None /\ p2.active = None /\ p2.result = None /\ p2.ack = None
      BY <1>3 DEF P2ZeroizeDone, Sound2, Banked, Live
    <2>6. Sound2(p2') /\ Moved(p2, p2', "NONE", None)
      BY <2>4, <2>5 DEF Sound2, Banked, Live, Moved
    <2> QED BY <1>3, <2>4, <2>5, <2>6 DEF P2ZeroizeDone
  <1> QED BY <1>1, <1>2, <1>3 DEF P2Engine

(* The reset of Primer #2. *)
LEMMA P2ResetMoves ==
  ASSUME P2PowerCycle
  PROVE  /\ Sound2(p2') /\ Moved(p2, p2', "NONE", None) /\ UNCHANGED <<nets, reply>>
         /\ p2'.core = "IDLE" /\ p2'.active = None /\ p2'.last = 0 /\ p2'.fault = FALSE
  <1>1. /\ DOMAIN p2' = Registers2 /\ p2'.session = "SELF_TEST_REQUIRED" /\ p2'.core = "IDLE"
        /\ p2'.staged = None /\ p2'.active = None /\ p2'.result = None /\ p2'.ack = None
        /\ p2'.last = 0 /\ p2'.fault = FALSE
    BY DEF P2PowerCycle, P2Reset, Registers2
  <1>2. Sound2(p2') /\ Moved(p2, p2', "NONE", None)
    BY <1>1 DEF Sound2, Banked, Moved, Live
  <1> QED BY <1>1, <1>2 DEF P2PowerCycle
=============================================================================
