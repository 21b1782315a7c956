------------------------------ MODULE Primer2 ------------------------------
(***************************************************************************)
(* The command core of Primer #2: session staging and commit, validation    *)
(* and decryption of telemetry frames, and the single authenticated result  *)
(* held until it is acknowledged.                                           *)
(*                                                                          *)
(* In one cycle the receive path may make progress and a request may be     *)
(* served.  Both read the registers as they were; where both assign a       *)
(* register the request, written last in the always_ff block, wins.  So a   *)
(* request handler updates p, the registers after the receive path's        *)
(* progress, under guards on p2.                                            *)
(***************************************************************************)
EXTENDS Primer

CONSTANT BadTagThreshold   \* BAD_TAG_THRESHOLD: 3 in the RTL

ASSUME Primer2Assumption == BadTagThreshold \in Nat \ {0}

VARIABLES
  p2,      \* the registers of the core
  twice    \* history: the retained transaction was executed more than once

p2vars == <<p2, twice>>
P2Vars == <<nets, reply, p2vars>>

P2Retained == {"RUN_SELF_TEST", "ZEROIZE", "COMMIT_SESSION"}

(* A frame whose key is None fails authentication; Malformed stands for a   *)
(* body whose fixed fields are wrong.                                       *)
P2Frames == [id: Ids, key: Keys \cup {None}, seq: 0..MaxSeq, tel: Telemetry]
              \cup {Malformed}

P2Requests ==
  UNION {CommonRequests, Request("GET_RX_STATUS", {None}),
         Request("READ_AUTH_RESULT", {None}),
         Request("ACK_AUTH_RESULT", [id: Ids, seq: 1..MaxSeq]),
         Request("CLEAR_DIAGNOSTIC_COUNTERS", {None})}

P2Reset == [session |-> "SELF_TEST_REQUIRED", core |-> "IDLE", pass |-> FALSE,
            fault |-> FALSE, fromCommand |-> FALSE, dueToFault |-> FALSE,
            needsTest |-> FALSE, staged |-> None, active |-> None, last |-> 0,
            cand |-> None, result |-> None, bad |-> 0, ack |-> None, ret |-> None]

P2Fault == p2.fault \/ p2.session = "FAULT_LOCKED"

P2Idle == IF p2.pass THEN "READY_NO_SESSION" ELSE "SELF_TEST_REQUIRED"

(* Mutant: clearing the session forgets the pending result. *)
P2Wipe_KeepsResult(p) == [p EXCEPT !.staged = None, !.active = None, !.last = 0,
                                   !.cand = None, !.bad = 0, !.ack = None]

P2Wipe(p) == [p EXCEPT !.staged = None, !.active = None, !.last = 0, !.cand = None,
                       !.result = None, !.bad = 0, !.ack = None]

P2EnterZeroize(p, command, faulty, test) ==
  [P2Wipe(p) EXCEPT !.session = "ZEROIZE_BUSY", !.core = "ZEROIZE",
                    !.fromCommand = command, !.dueToFault = faulty, !.needsTest = test]

-----------------------------------------------------------------------------
(* Zeroize and release. *)

P2Forced ==
  /\ fatal \/ ~zeroizeN \/ (p2.session = "ACTIVE" /\ ~secure)
  /\ p2.core # "ZEROIZE" /\ p2.session # "FAULT_LOCKED"

P2ForceZeroize ==
  /\ P2Forced
  /\ p2' = [P2EnterZeroize(p2, FALSE, fatal \/ p2.fault,
                           ~zeroizeN \/ (p2.session = "ACTIVE" /\ ~secure))
              EXCEPT !.fault = @ \/ fatal, !.ret = None]
  /\ UNCHANGED <<nets, reply, twice>>

(* The wipe counter has run out and zeroize_n is high; requests of these    *)
(* cycles are dropped without an answer.                                    *)
P2ZeroizeDone ==
  /\ p2.core = "ZEROIZE" /\ zeroizeN
  /\ LET p == [p2 EXCEPT !.core = "IDLE", !.fromCommand = FALSE, !.dueToFault = FALSE,
                         !.needsTest = FALSE]
     IN \/ /\ p2.fromCommand
           /\ p2' = [p EXCEPT !.session = P2Idle, !.ret = Complete(@, "ZEROIZED", None)]
        \/ /\ ~p2.fromCommand /\ (p2.dueToFault \/ p2.fault \/ fatal)
           /\ p2' = [p EXCEPT !.session = "FAULT_LOCKED"]
        \/ /\ ~p2.fromCommand /\ ~(p2.dueToFault \/ p2.fault \/ fatal) /\ p2.needsTest
           /\ p2' = [p EXCEPT !.session = "SELF_TEST_REQUIRED", !.pass = FALSE]
        \/ /\ ~p2.fromCommand /\ ~(p2.dueToFault \/ p2.fault \/ fatal) /\ ~p2.needsTest
           /\ p2' = [p EXCEPT !.session = "READY_NO_SESSION"]
  /\ UNCHANGED <<nets, reply, twice>>

(* Mutant: a latched fault does not keep the session blocked. *)
P2Release_Faulty ==
  /\ ~P2Forced
  /\ p2.session = "COMMITTED_BLOCKED" /\ secure /\ ~fatal
  /\ p2' = [p2 EXCEPT !.session = "ACTIVE"]
  /\ UNCHANGED <<nets, reply, twice>>

P2Release ==
  /\ ~P2Forced
  /\ p2.session = "COMMITTED_BLOCKED" /\ secure /\ ~fatal /\ ~p2.fault
  /\ p2' = [p2 EXCEPT !.session = "ACTIVE"]
  /\ UNCHANGED <<nets, reply, twice>>

-----------------------------------------------------------------------------
(* The receive path: the registers a cycle's progress leaves, from p2 and   *)
(* the frame f the UART receiver completes in this cycle (None if none).    *)

(* Mutant: a new frame is taken while a result is unacknowledged. *)
RxAcceptEnable_Overwrites ==
  /\ p2.session = "ACTIVE" /\ p2.active # None /\ secure /\ ~P2Fault
  /\ p2.core # "ZEROIZE"

RxAcceptEnable ==
  /\ p2.session = "ACTIVE" /\ p2.active # None /\ secure /\ ~P2Fault
  /\ p2.result = None /\ p2.core # "ZEROIZE"

Capture(f) == IF f # None /\ RxAcceptEnable
              THEN [p2 EXCEPT !.core = "VALIDATE", !.cand = f] ELSE p2

(* Mutant: the frame accepted last is accepted again. *)
Acceptable_Replays ==
  /\ p2.cand # Malformed /\ p2.active # None
  /\ p2.cand.id = p2.active.id
  /\ p2.cand.seq \in {p2.last, p2.last + 1} \ {0}

(* First sequence 1, then exactly the next one; sequence 0 never. *)
Acceptable ==
  /\ p2.cand # Malformed /\ p2.active # None
  /\ p2.cand.id = p2.active.id /\ p2.cand.seq = p2.last + 1

(* A rejected candidate is dead: it is never read before it is overwritten. *)
Validate == IF Acceptable THEN [p2 EXCEPT !.core = "DECRYPT"]
                          ELSE [p2 EXCEPT !.core = "IDLE", !.cand = None]

TagValid == p2.cand.key = p2.active.key

(* Mutant: bad tags are counted but never fatal. *)
Decrypted_NoThreshold ==
  LET p == [p2 EXCEPT !.core = "IDLE", !.cand = None] IN
  IF TagValid THEN [p EXCEPT !.result = p2.cand, !.last = p2.cand.seq, !.bad = 0]
              ELSE [p EXCEPT !.bad = @ + 1]

(* Mutant: a good frame leaves the count of bad tags as it is. *)
Decrypted_KeepsCount ==
  LET p == [p2 EXCEPT !.core = "IDLE", !.cand = None] IN
  CASE TagValid -> [p EXCEPT !.result = p2.cand, !.last = p2.cand.seq]
    [] ~TagValid /\ p2.bad + 1 >= BadTagThreshold ->
         [P2EnterZeroize(p, FALSE, TRUE, FALSE) EXCEPT !.fault = TRUE, !.ret = None]
    [] OTHER -> [p EXCEPT !.bad = @ + 1]

(* The result keeps the frame's key as history: it is not in the registers. *)
Decrypted ==
  LET p == [p2 EXCEPT !.core = "IDLE", !.cand = None] IN
  CASE TagValid ->
         [p EXCEPT !.result = p2.cand, !.last = p2.cand.seq, !.bad = 0]
    [] ~TagValid /\ p2.bad + 1 >= BadTagThreshold ->
         [P2EnterZeroize(p, FALSE, TRUE, FALSE) EXCEPT !.fault = TRUE, !.ret = None]
    [] OTHER -> [p EXCEPT !.bad = @ + 1]

SelfTestEnds ==
  {[p2 EXCEPT !.core = "IDLE", !.pass = TRUE, !.session = "READY_NO_SESSION",
              !.ret = Complete(@, "SUCCEEDED", None)],
   [p2 EXCEPT !.core = "IDLE", !.fault = TRUE, !.session = "FAULT_LOCKED",
              !.ret = Complete(@, "FAILED", None)]}

(* The decryption takes as many cycles as it takes. *)
Progress(f) ==
  CASE p2.core = "VALIDATE" -> {Validate}
    [] p2.core = "DECRYPT" -> {p2, Decrypted}
    [] p2.core = "SELF_TEST" -> {p2} \cup SelfTestEnds
    [] OTHER -> {Capture(f)}

-----------------------------------------------------------------------------
(* Requests.  P2Reply answers without an effect of its own. *)

P2Reply(p, code) == p2' = p /\ Answer(code) /\ UNCHANGED <<nets, twice>>

P2Begun(q) == twice' = (p2.ret # None /\ p2.ret.txid = q.txid)

P2TxnCode(q) == IF p2.ret = None \/ p2.ret.txid # q.arg THEN "RESULT_NOT_READY" ELSE "OK"

P2StartZeroize(p, q) ==
  /\ p2' = [P2EnterZeroize(p, TRUE, FALSE, FALSE) EXCEPT !.ret = Begin(q)]
  /\ P2Begun(q) /\ Answer("OK") /\ UNCHANGED nets

P2Blocked(q) == q.cmd \in P2Retained /\ p2.ret # None

(* Mutant: ZEROIZE runs again under the transaction id that is retained. *)
P2Repeat_Zeroize(p, q) ==
  \/ q.cmd # "ZEROIZE" /\ P2Reply(p, RetainedCode(p2.ret, q))
  \/ q.cmd = "ZEROIZE" /\ P2StartZeroize(p, q)

(* A ZEROIZE under a new transaction id replaces the retained record; this  *)
(* path does not look at its payload.                                       *)
P2Repeat(p, q) ==
  \/ /\ q.txid = p2.ret.txid \/ q.cmd # "ZEROIZE"
     /\ P2Reply(p, RetainedCode(p2.ret, q))
  \/ q.txid # p2.ret.txid /\ q.cmd = "ZEROIZE" /\ P2StartZeroize(p, q)

P2Read(p, q) ==
  \/ q.cmd \in {"GET_INFO", "GET_STATUS", "GET_RX_STATUS", "CLEAR_DIAGNOSTIC_COUNTERS"}
       /\ P2Reply(p, "OK")
  \/ q.cmd = "GET_TXN_RESULT" /\ P2Reply(p, P2TxnCode(q))
  \/ q.cmd = "READ_AUTH_RESULT"
       /\ P2Reply(p, IF p2.result = None THEN "RESULT_NOT_READY" ELSE "OK")
  \/ q.cmd = "UNKNOWN" /\ P2Reply(p, "BAD_COMMAND")

P2RunSelfTest(p, q) ==
  /\ q.cmd = "RUN_SELF_TEST"
  /\ LET open == p2.session \in {"SELF_TEST_REQUIRED", "READY_NO_SESSION"} IN
     \/ q.arg = Unsupported /\ P2Reply(p, "NOT_SUPPORTED")
     \/ q.arg = None /\ ~open /\ P2Reply(p, "BAD_STATE")
     \/ /\ q.arg = None /\ open
        /\ p2' = [p EXCEPT !.session = "SELF_TEST_RUNNING", !.core = "SELF_TEST",
                           !.ret = Begin(q)]
        /\ P2Begun(q) /\ Answer("OK") /\ UNCHANGED nets

P2Retire(p, q) ==
  /\ q.cmd = "RETIRE_TXN_RESULT"
  /\ p2' = [p EXCEPT !.ret = IF P2TxnCode(q) = "OK" THEN None ELSE @]
  /\ Answer("OK") /\ UNCHANGED <<nets, twice>>

P2Zeroize(p, q) ==
  /\ q.cmd = "ZEROIZE"
  /\ \/ q.arg = Unsupported /\ P2Reply(p, "NOT_SUPPORTED")
     \/ q.arg = None /\ P2StartZeroize(p, q)

P2Stage(p, q) ==
  /\ q.cmd = "STAGE_SESSION"
  /\ LET open == p2.pass /\ p2.session \in {"READY_NO_SESSION", "STAGED"}
         held == p2.staged # None /\ p2.staged.id = q.arg.id
         live == p2.active # None /\ p2.active.id = q.arg.id
     IN \/ ~open /\ P2Reply(p, "BAD_STATE")
        \/ open /\ held /\ p2.staged = q.arg /\ P2Reply(p, "OK")
        \/ open /\ ((held /\ p2.staged # q.arg) \/ (~held /\ live))
             /\ P2Reply(p, "SESSION_ID_COLLISION")
        \/ /\ open /\ ~held /\ ~live
           /\ p2' = [p EXCEPT !.staged = q.arg, !.session = "STAGED"]
           /\ Answer("OK") /\ UNCHANGED <<nets, twice>>

P2Commit(p, q) ==
  /\ q.cmd = "COMMIT_SESSION"
  /\ LET mine == p2.session = "STAGED" /\ p2.staged # None /\ p2.staged.id = q.arg IN
     \/ secure /\ P2Reply(p, "COMMIT_REJECTED")
     \/ ~secure /\ ~mine /\ P2Reply(p, "BAD_SESSION")
     \/ /\ ~secure /\ mine
        /\ p2' = [p EXCEPT !.active = p2.staged, !.staged = None, !.last = 0,
                           !.result = None, !.session = "COMMITTED_BLOCKED",
                           !.ret = Complete(Begin(q), "SUCCEEDED", None)]
        /\ P2Begun(q) /\ Answer("OK") /\ UNCHANGED nets

(* Served whatever the core is doing; a running self-test is cancelled but  *)
(* its retained record is left as it is.                                    *)
P2Abort(p, q) ==
  /\ q.cmd = "ABORT_SESSION"
  /\ LET named == \/ q.arg = None
                  \/ p2.staged # None /\ p2.staged.id = q.arg
                  \/ p2.active # None /\ p2.active.id = q.arg
     IN \/ ~named /\ P2Reply(p, "BAD_SESSION")
        \/ /\ named
           /\ p2' = [P2Wipe(p) EXCEPT !.session = P2Idle, !.core = "IDLE"]
           /\ Answer("OK") /\ UNCHANGED <<nets, twice>>

(* Mutant: any ACK releases the result. *)
P2Ack_Any(p, q) ==
  /\ q.cmd = "ACK_AUTH_RESULT"
  /\ p2' = [p EXCEPT !.result = None, !.ack = q.arg]
  /\ Answer("OK") /\ UNCHANGED <<nets, twice>>

P2Ack(p, q) ==
  /\ q.cmd = "ACK_AUTH_RESULT"
  /\ LET held == p2.result # None
         mine == held /\ q.arg.id = p2.result.id /\ q.arg.seq = p2.result.seq
     IN \/ held /\ ~mine /\ P2Reply(p, "BAD_SESSION")
        \/ /\ mine /\ p2' = [p EXCEPT !.result = None, !.ack = q.arg]
           /\ Answer("OK") /\ UNCHANGED <<nets, twice>>
        \/ ~held /\ p2.ack = q.arg /\ P2Reply(p, "OK")
        \/ ~held /\ p2.ack # q.arg /\ P2Reply(p, "RESULT_NOT_READY")

P2Dispatch(p, q) ==
  \/ P2Read(p, q) \/ P2RunSelfTest(p, q) \/ P2Retire(p, q) \/ P2Zeroize(p, q)
  \/ P2Stage(p, q) \/ P2Commit(p, q) \/ P2Abort(p, q) \/ P2Ack(p, q)

(* Commands served while the core is busy or a frame completes. *)
Urgent == {"GET_STATUS", "GET_TXN_RESULT", "ABORT_SESSION", "ZEROIZE"}

P2Serve(p, f, q) ==
  LET busy == (p2.core # "IDLE" \/ f # None) /\ q.cmd \notin Urgent IN
  \/ P2Blocked(q) /\ P2Repeat(p, q)
  \/ ~P2Blocked(q) /\ busy /\ P2Reply(p, "BUSY")
  \/ ~P2Blocked(q) /\ ~busy /\ q.arg = Malformed /\ P2Reply(p, "BAD_LENGTH")
  \/ ~P2Blocked(q) /\ ~busy /\ q.arg # Malformed /\ P2Dispatch(p, q)

P2Open == ~P2Forced /\ p2.core # "ZEROIZE"

P2Request(f, q) == P2Open /\ \E p \in Progress(f) : P2Serve(p, f, q)

(* A frame the SPI endpoint could not parse. *)
P2TransportError(f) == P2Open /\ \E p \in Progress(f) : P2Reply(p, "BAD_CRC")

(* A cycle without a request. *)
P2Receive(f) == /\ P2Open /\ p2' \in Progress(f)
                /\ UNCHANGED <<nets, reply, twice>>

P2Engine == P2ForceZeroize \/ P2Release \/ P2ZeroizeDone

P2PowerCycle == p2' = P2Reset /\ twice' = FALSE /\ UNCHANGED <<nets, reply>>

P2Init == p2 = P2Reset /\ twice = FALSE

(* The core alone: any master, any supervisor, any frames. *)
P2AloneInit == P2Init /\ reply = "OK" /\ secure = FALSE /\ fatal = FALSE /\ zeroizeN = FALSE

P2Next ==
  \/ Nets /\ UNCHANGED <<reply, p2vars>>
  \/ P2Engine \/ P2PowerCycle
  \/ \E f \in P2Frames \cup {None} :
       P2Receive(f) \/ P2TransportError(f) \/ \E q \in P2Requests : P2Request(f, q)

P2Spec == P2AloneInit /\ [][P2Next]_P2Vars

-----------------------------------------------------------------------------
(* Properties. *)

P2Cores == {"IDLE", "VALIDATE", "DECRYPT", "SELF_TEST", "ZEROIZE"}
P2Banked == Material \cup {None}
P2Candidates == P2Frames \cup {None}
P2Results == Frames \cup {None}
P2Acks == [id: Ids, seq: 1..MaxSeq] \cup {None}
P2Records == Retained(P2Retained, {None})
P2Kept == P2Records \cup {None}

P2Registers ==
  [session: SessionStates, core: P2Cores, pass: BOOLEAN, fault: BOOLEAN,
   fromCommand: BOOLEAN, dueToFault: BOOLEAN, needsTest: BOOLEAN,
   staged: P2Banked, active: P2Banked, last: 0..MaxSeq, cand: P2Candidates,
   result: P2Results, bad: 0..(BadTagThreshold - 1), ack: P2Acks, ret: P2Kept]

(* Every register keeps its range; the count of bad tags stays below the    *)
(* threshold at which the core faults.                                      *)
P2TypeOK ==
  /\ secure \in BOOLEAN /\ fatal \in BOOLEAN /\ zeroizeN \in BOOLEAN
  /\ reply \in Codes /\ p2 \in P2Registers
  /\ twice \in BOOLEAN

(* A pending result belongs to the session that is active: authenticated    *)
(* under its key, with the last accepted sequence number.  No abort,        *)
(* zeroize, new session or late frame leaves an older plaintext readable.   *)
(* And with it the count of bad tags has started again: only consecutive    *)
(* ones are fatal.                                                          *)
P2ResultAuthentic ==
  p2.result # None =>
    /\ p2.active # None /\ p2.result.id = p2.active.id
    /\ p2.result.key = p2.active.key /\ p2.result.seq = p2.last
    /\ p2.bad = 0

(* Within a session no frame is accepted twice: the last number never goes  *)
(* back, and every result the core releases carries a higher one than all   *)
(* before it, whatever was replayed, delayed or aborted on the way.  A new  *)
(* session starts from 0.                                                   *)
P2NoReplay ==
  [][/\ p2.active # None /\ p2'.active = p2.active =>
          /\ p2'.last >= p2.last
          /\ p2'.result \notin {None, p2.result} => p2'.last > p2.last
     /\ p2'.active \notin {None, p2.active} => p2'.last = 0]_P2Vars

(* A latched fault, once set by the supervisor, a failed self-test or the   *)
(* bad-tag threshold, excludes ACTIVE until reset, also when an ABORT of    *)
(* the same cycle overrides the zeroize and a new session is committed.     *)
P2FaultNeverActive == p2.fault => p2.session # "ACTIVE"

(* Key material exists only inside a session, whichever way it ended, and   *)
(* a frame is in the decryption engine only for an active key.  Bad tags    *)
(* are not counted over into the next session either, although              *)
(* COMMIT_SESSION does not reset their count.                               *)
P2KeysGone ==
  /\ p2.session \notin {"STAGED", "COMMITTED_BLOCKED", "ACTIVE"} =>
       p2.staged = None /\ p2.active = None /\ p2.result = None
  /\ p2.core \in {"VALIDATE", "DECRYPT"} => p2.active # None /\ p2.result = None
  /\ p2.active = None => p2.bad = 0

(* A retained transaction is answered from its record, never run again.     *)
P2ExecutedOnce == ~twice

(* A pending result is never overwritten: it leaves only by the ACK that    *)
(* names it, or together with the session.                                  *)
P2ResultKept ==
  [][p2.result # None /\ p2'.result # p2.result =>
       /\ p2'.result = None
       /\ \/ p2'.ack = [id |-> p2.result.id, seq |-> p2.result.seq]
          \/ p2'.active = None]_P2Vars

(* What the system requirements say of the receiver, "Accept sequence       *)
(* strictly greater than last accepted; gaps allowed": a frame of the       *)
(* active session with a higher number than the last is decrypted, unless   *)
(* the session ends in that cycle.                                          *)
P2GapAllowed ==
  [][/\ p2.core = "VALIDATE" /\ p2'.core # "VALIDATE" /\ p2'.active = p2.active
     /\ p2.cand # Malformed /\ p2.cand.id = p2.active.id /\ p2.cand.seq > p2.last
     => p2'.core = "DECRYPT"]_P2Vars

(* What the SPI control plane says of a retained operation: polling         *)
(* GET_TXN_RESULT ends in SUCCEEDED, FAILED or ZEROIZED, so a RUNNING       *)
(* record has an engine working for it.                                     *)
P2NoOrphan == p2.ret # None /\ ~Terminal(p2.ret) => p2.core # "IDLE"
=============================================================================
