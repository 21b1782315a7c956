------------------------------ MODULE Primer1 ------------------------------
(***************************************************************************)
(* The command core of Primer #1: session staging and commit, telemetry     *)
(* encryption under a counter nonce, and the two kinds of zeroize.  A step  *)
(* is a clock cycle in which something happens; the polynomial accelerator  *)
(* commands are not part of this module.                                    *)
(***************************************************************************)
EXTENDS Primer

VARIABLES
  p1,     \* the registers of the core
  air,    \* the last complete frame on the UART line
  used,   \* history: <<sequence, telemetry>> encrypted under the active key
  again   \* history: the retained transaction was executed more than once

p1vars == <<p1, air, used, again>>
P1Vars == <<nets, reply, p1vars>>

P1Retained == {"RUN_SELF_TEST", "ZEROIZE", "COMMIT_SESSION", "ENCRYPT_AND_SEND"}

P1Requests == UNION {CommonRequests, Request("LOAD_TELEMETRY", Telemetry),
                     Request("ENCRYPT_AND_SEND", {None})}

P1Reset == [session |-> "SELF_TEST_REQUIRED", core |-> "IDLE", pass |-> FALSE,
            fault |-> FALSE, fromCommand |-> FALSE, dueToFault |-> FALSE,
            staged |-> None, active |-> None, seq |-> 1, tel |-> None, ret |-> None]

(* Mutant: only the session state counts as a fault. *)
P1Fault_SessionOnly == p1.session = "FAULT_LOCKED"

P1Fault == p1.fault \/ p1.session = "FAULT_LOCKED"

P1Idle == IF p1.pass THEN "READY_NO_SESSION" ELSE "SELF_TEST_REQUIRED"

(* Mutant: the staged bank is not erased. *)
P1Wipe_KeepsStaged(p) == [p EXCEPT !.active = None, !.tel = None, !.seq = 1]

(* Mutant: the sequence number restarts at 0. *)
P1Wipe_SeqZero(p) == [p EXCEPT !.staged = None, !.active = None, !.tel = None, !.seq = 0]

P1Wipe(p) == [p EXCEPT !.staged = None, !.active = None, !.tel = None, !.seq = 1]

-----------------------------------------------------------------------------
(* The cycle in which the nets force a zeroize handles nothing else. *)

P1Forced ==
  /\ fatal \/ ~zeroizeN \/ (p1.session = "ACTIVE" /\ ~secure)
  /\ p1.core # "ZEROIZE" /\ p1.session \notin {"ZEROIZE_BUSY", "FAULT_LOCKED"}

(* Mutant: the forced zeroize leaves the active key in place. *)
P1ForceZeroize_KeepsKey ==
  /\ P1Forced
  /\ p1' = [p1 EXCEPT !.session = "ZEROIZE_BUSY", !.core = "ZEROIZE", !.ret = None,
                      !.fault = @ \/ fatal, !.dueToFault = fatal, !.fromCommand = FALSE,
                      !.staged = None, !.tel = None, !.seq = 1]
  /\ UNCHANGED <<nets, reply, air, again>>

P1ForceZeroize ==
  /\ P1Forced
  /\ p1' = [P1Wipe(p1) EXCEPT !.session = "ZEROIZE_BUSY", !.core = "ZEROIZE",
                              !.ret = None, !.fault = @ \/ fatal,
                              !.dueToFault = fatal, !.fromCommand = FALSE]
  /\ UNCHANGED <<nets, reply, air, again>>

(* secure_enable releases a committed session. *)
P1Release ==
  /\ ~P1Forced
  /\ p1.session = "COMMITTED_BLOCKED" /\ secure /\ ~fatal
  /\ p1' = [p1 EXCEPT !.session = "ACTIVE"]
  /\ UNCHANGED <<nets, reply, air, again>>

(* Mutant: a commanded zeroize ends without a result. *)
P1ZeroizeDone_NoResult ==
  /\ p1.core = "ZEROIZE" /\ zeroizeN
  /\ p1' = [p1 EXCEPT !.core = "IDLE", !.pass = p1.fromCommand /\ @,
                      !.session = IF p1.fromCommand THEN P1Idle ELSE "FAULT_LOCKED"]
  /\ UNCHANGED <<nets, reply, air, again>>

(* The memory wipe has finished and zeroize_n is high again; the two flags  *)
(* are dead until the next zeroize sets them.                               *)
P1ZeroizeDone ==
  /\ p1.core = "ZEROIZE" /\ zeroizeN
  /\ LET p == [p1 EXCEPT !.core = "IDLE", !.fromCommand = FALSE, !.dueToFault = FALSE] IN
     \/ /\ p1.fromCommand
        /\ p1' = [p EXCEPT !.session = P1Idle, !.ret = Complete(@, "ZEROIZED", None)]
     \/ /\ ~p1.fromCommand /\ (p1.dueToFault \/ fatal \/ p1.fault)
        /\ p1' = [p EXCEPT !.session = "FAULT_LOCKED"]
     \/ /\ ~p1.fromCommand /\ ~(p1.dueToFault \/ fatal \/ p1.fault)
        /\ p1' = [p EXCEPT !.pass = FALSE, !.session = "SELF_TEST_REQUIRED"]
  /\ UNCHANGED <<nets, reply, air, again>>

(* The known-answer tests end, with the result they found. *)
P1SelfTestDone ==
  /\ ~P1Forced /\ p1.core = "SELF_TEST"
  /\ \/ p1' = [p1 EXCEPT !.core = "IDLE", !.pass = TRUE,
                         !.session = "READY_NO_SESSION",
                         !.ret = Complete(@, "SUCCEEDED", None)]
     \/ p1' = [p1 EXCEPT !.core = "IDLE", !.fault = TRUE, !.session = "FAULT_LOCKED",
                         !.ret = Complete(@, "FAILED", None)]
  /\ UNCHANGED <<nets, reply, air, again>>

(* Mutant: the sequence number advances before the frame is sent. *)
P1AsconDone_Advances ==
  /\ ~P1Forced /\ p1.core = "ASCON"
  /\ p1' = [p1 EXCEPT !.core = "UART", !.seq = @ + 1]
  /\ UNCHANGED <<nets, reply, air, again>>

P1AsconDone ==
  /\ ~P1Forced /\ p1.core = "ASCON"
  /\ p1' = [p1 EXCEPT !.core = "UART"]
  /\ UNCHANGED <<nets, reply, air, again>>

(* Mutant: the sequence number does not advance. *)
P1UartDone_SameSeq ==
  /\ ~P1Forced /\ p1.core = "UART"
  /\ p1' = [p1 EXCEPT !.core = "IDLE", !.tel = None,
                      !.ret = Complete(@, "SUCCEEDED", <<p1.active.id, p1.seq>>)]
  /\ air' = [id |-> p1.active.id, key |-> p1.active.key, seq |-> p1.seq, tel |-> p1.tel]
  /\ UNCHANGED <<nets, reply, again>>

(* The 66th byte has left: only now does the sequence number advance. *)
P1UartDone ==
  /\ ~P1Forced /\ p1.core = "UART"
  /\ p1' = [p1 EXCEPT !.core = "IDLE", !.tel = None, !.seq = @ + 1,
                      !.ret = Complete(@, "SUCCEEDED", <<p1.active.id, p1.seq>>)]
  /\ air' = [id |-> p1.active.id, key |-> p1.active.key, seq |-> p1.seq, tel |-> p1.tel]
  /\ UNCHANGED <<nets, reply, again>>

-----------------------------------------------------------------------------
(* Requests.  P1Reply answers without touching the core. *)

P1Reply(code) == Answer(code) /\ UNCHANGED <<nets, p1, air, again>>

P1Begun(q) == again' = (p1.ret # None /\ p1.ret.txid = q.txid)

P1TxnCode(q) == IF p1.ret = None \/ p1.ret.txid # q.arg THEN "RESULT_NOT_READY" ELSE "OK"

(* While an engine runs only the two status reads are served. *)
P1Busy(q) ==
  /\ p1.core # "IDLE"
  /\ \/ q.cmd \in {"GET_STATUS", "GET_TXN_RESULT"} /\ q.arg = Malformed /\ P1Reply("BAD_LENGTH")
     \/ q.cmd = "GET_STATUS" /\ q.arg # Malformed /\ P1Reply("OK")
     \/ q.cmd = "GET_TXN_RESULT" /\ q.arg # Malformed /\ P1Reply(P1TxnCode(q))
     \/ q.cmd \notin {"GET_STATUS", "GET_TXN_RESULT"} /\ P1Reply("BUSY")

(* Mutant: the self-test is exempt from the retained record as well. *)
P1Blocked_SelfTest(q) ==
  q.cmd \in P1Retained \ {"ZEROIZE", "RUN_SELF_TEST"} /\ p1.ret # None

(* ZEROIZE is exempt: it must run whatever is retained. *)
P1Blocked(q) == q.cmd \in P1Retained \ {"ZEROIZE"} /\ p1.ret # None

P1Read(q) ==
  \/ q.cmd \in {"GET_INFO", "GET_STATUS"} /\ P1Reply("OK")
  \/ q.cmd = "GET_TXN_RESULT" /\ P1Reply(P1TxnCode(q))
  \/ q.cmd = "UNKNOWN" /\ P1Reply("BAD_COMMAND")

P1RunSelfTest(q) ==
  /\ q.cmd = "RUN_SELF_TEST"
  /\ LET open == p1.session \in {"SELF_TEST_REQUIRED", "READY_NO_SESSION"} IN
     \/ q.arg = Unsupported /\ P1Reply("NOT_SUPPORTED")
     \/ q.arg = None /\ ~open /\ P1Reply("BAD_STATE")
     \/ /\ q.arg = None /\ open
        /\ p1' = [p1 EXCEPT !.session = "SELF_TEST_RUNNING", !.core = "SELF_TEST",
                            !.ret = Begin(q)]
        /\ P1Begun(q) /\ Answer("OK") /\ UNCHANGED <<nets, air>>

(* Retiring an unknown transaction succeeds without effect. *)
P1Retire(q) ==
  /\ q.cmd = "RETIRE_TXN_RESULT"
  /\ p1' = [p1 EXCEPT !.ret = IF P1TxnCode(q) = "OK" THEN None ELSE @]
  /\ Answer("OK") /\ UNCHANGED <<nets, air, again>>

P1Zeroize(q) ==
  /\ q.cmd = "ZEROIZE"
  /\ \/ q.arg = Unsupported /\ P1Reply("NOT_SUPPORTED")
     \/ /\ q.arg = None
        /\ p1' = [P1Wipe(p1) EXCEPT !.session = "ZEROIZE_BUSY", !.core = "ZEROIZE",
                                    !.fromCommand = TRUE, !.dueToFault = FALSE,
                                    !.ret = Begin(q)]
        /\ P1Begun(q) /\ Answer("OK") /\ UNCHANGED <<nets, air>>

(* Mutant: staging an identifier again does not compare the material. *)
P1Stage_KeepsFirst(q) ==
  /\ q.cmd = "STAGE_SESSION"
  /\ LET open == p1.pass /\ p1.session \in {"READY_NO_SESSION", "STAGED"}
         held == p1.staged # None /\ p1.staged.id = q.arg.id
     IN \/ ~open /\ P1Reply("BAD_STATE")
        \/ open /\ held /\ P1Reply("OK")
        \/ /\ open /\ ~held
           /\ p1' = [p1 EXCEPT !.staged = q.arg, !.session = "STAGED"]
           /\ Answer("OK") /\ UNCHANGED <<nets, air, again>>

P1Stage(q) ==
  /\ q.cmd = "STAGE_SESSION"
  /\ LET open == p1.pass /\ p1.session \in {"READY_NO_SESSION", "STAGED"}
         held == p1.staged # None /\ p1.staged.id = q.arg.id
         live == p1.active # None /\ p1.active.id = q.arg.id
     IN \/ ~open /\ P1Reply("BAD_STATE")
        \/ open /\ held /\ p1.staged = q.arg /\ P1Reply("OK")
        \/ open /\ ((held /\ p1.staged # q.arg) \/ (~held /\ live))
             /\ P1Reply("SESSION_ID_COLLISION")
        \/ /\ open /\ ~held /\ ~live
           /\ p1' = [p1 EXCEPT !.staged = q.arg, !.session = "STAGED"]
           /\ Answer("OK") /\ UNCHANGED <<nets, air, again>>

P1Commit(q) ==
  /\ q.cmd = "COMMIT_SESSION"
  /\ LET mine == p1.session = "STAGED" /\ p1.staged # None /\ p1.staged.id = q.arg IN
     \/ secure /\ P1Reply("COMMIT_REJECTED")
     \/ ~secure /\ ~mine /\ P1Reply("BAD_SESSION")
     \/ /\ ~secure /\ mine
        /\ p1' = [p1 EXCEPT !.active = p1.staged, !.staged = None, !.seq = 1,
                            !.session = "COMMITTED_BLOCKED",
                            !.ret = Complete(Begin(q), "SUCCEEDED", None)]
        /\ P1Begun(q) /\ Answer("OK") /\ UNCHANGED <<nets, air>>

(* ABORT_SESSION(0) leaves every state, FAULT_LOCKED included. *)
P1Abort(q) ==
  /\ q.cmd = "ABORT_SESSION"
  /\ LET named == \/ q.arg = None
                  \/ p1.staged # None /\ p1.staged.id = q.arg
                  \/ p1.active # None /\ p1.active.id = q.arg
     IN \/ ~named /\ P1Reply("BAD_SESSION")
        \/ /\ named
           /\ p1' = [P1Wipe(p1) EXCEPT !.session = P1Idle]
           /\ Answer("OK") /\ UNCHANGED <<nets, air, again>>

P1LoadTelemetry(q) ==
  /\ q.cmd = "LOAD_TELEMETRY"
  /\ LET open == p1.session = "ACTIVE" /\ secure /\ ~P1Fault
         clash == p1.tel # None /\ p1.tel # q.arg
     IN \/ ~open /\ P1Reply("BAD_STATE")
        \/ open /\ clash /\ P1Reply("TRANSACTION_CONFLICT")
        \/ /\ open /\ ~clash
           /\ p1' = [p1 EXCEPT !.tel = q.arg]
           /\ Answer("OK") /\ UNCHANGED <<nets, air, again>>

P1Encrypt(q) ==
  /\ q.cmd = "ENCRYPT_AND_SEND"
  /\ LET open == /\ p1.session = "ACTIVE" /\ p1.active # None /\ secure
                 /\ ~P1Fault /\ p1.tel # None
     IN \/ ~open /\ P1Reply("BAD_STATE")
        \/ /\ open /\ p1.seq <= MaxSeq
           /\ p1' = [p1 EXCEPT !.core = "ASCON", !.ret = Begin(q)]
           /\ P1Begun(q) /\ Answer("OK") /\ UNCHANGED <<nets, air>>

P1Dispatch(q) ==
  /\ p1.core = "IDLE"
  /\ \/ P1Blocked(q) /\ P1Reply(RetainedCode(p1.ret, q))
     \/ ~P1Blocked(q) /\ q.arg = Malformed /\ P1Reply("BAD_LENGTH")
     \/ /\ ~P1Blocked(q) /\ q.arg # Malformed
        /\ \/ P1Read(q) \/ P1RunSelfTest(q) \/ P1Retire(q) \/ P1Zeroize(q)
           \/ P1Stage(q) \/ P1Commit(q) \/ P1Abort(q)
           \/ P1LoadTelemetry(q) \/ P1Encrypt(q)

P1Request(q) == ~P1Forced /\ (P1Busy(q) \/ P1Dispatch(q))

(* A frame the SPI endpoint could not parse is answered only by an idle core. *)
P1TransportError == ~P1Forced /\ p1.core = "IDLE" /\ P1Reply("BAD_CRC")

P1Engine == P1ForceZeroize \/ P1Release \/ P1ZeroizeDone \/ P1SelfTestDone
            \/ P1AsconDone \/ P1UartDone

(* Reset or reconfiguration of the FPGA. *)
P1PowerCycle == p1' = P1Reset /\ again' = FALSE /\ UNCHANGED <<nets, reply, air>>

(* History: the nonces the step uses, or a new key that starts afresh. *)
P1Record ==
  used' = CASE p1'.active # p1.active -> {}
            [] p1'.active = p1.active /\ p1.core # "ASCON" /\ p1'.core = "ASCON" ->
                 used \cup {<<p1.seq, p1.tel>>}
            [] OTHER -> used

P1Init == p1 = P1Reset /\ air = None /\ used = {} /\ again = FALSE

(* The core alone: any master, any supervisor. *)
P1AloneInit == P1Init /\ reply = "OK" /\ secure = FALSE /\ fatal = FALSE /\ zeroizeN = FALSE

P1Next == \/ Nets /\ UNCHANGED <<reply, p1vars>>
          \/ /\ \/ P1Engine \/ P1PowerCycle \/ P1TransportError
                \/ \E q \in P1Requests : P1Request(q)
             /\ P1Record

P1Spec == P1AloneInit /\ [][P1Next]_P1Vars

(* The engines and the clock do not stop. *)
P1FairSpec == P1Spec /\ WF_P1Vars(P1Engine /\ P1Record)

-----------------------------------------------------------------------------
(* Properties. *)

P1Cores == {"IDLE", "SELF_TEST", "ASCON", "UART", "ZEROIZE"}
P1Banked == Material \cup {None}
P1Seqs == 1..(MaxSeq + 1)
P1Images == Telemetry \cup {None}
P1Records == Retained(P1Retained, {None} \cup (Ids \X (1..MaxSeq)))
P1Results == P1Records \cup {None}

(* retained_valid = 0 is no record. *)
ASSUME P1Assumption == None \notin P1Records

P1Registers ==
  [session: SessionStates, core: P1Cores, pass: BOOLEAN, fault: BOOLEAN,
   fromCommand: BOOLEAN, dueToFault: BOOLEAN, staged: P1Banked, active: P1Banked,
   seq: P1Seqs, tel: P1Images, ret: P1Results]

(* Every register keeps its range. *)
P1TypeOK ==
  /\ secure \in BOOLEAN /\ fatal \in BOOLEAN /\ zeroizeN \in BOOLEAN
  /\ reply \in Codes /\ p1 \in P1Registers /\ air \in Frames \cup {None}
  /\ used \subseteq (1..MaxSeq) \X Telemetry /\ again \in BOOLEAN

(* One committed session never encrypts two telemetry images under one      *)
(* sequence number, that is, under one nonce: whatever order of loads,      *)
(* retries, aborts and zeroizes the master drives the core through.         *)
P1NonceOnce == \A x, y \in used : x[1] = y[1] => x = y

(* Key material and plaintext exist only inside a session: every way out of *)
(* one, by command, abort, lowered secure_enable or fault, erases them.     *)
P1KeysGone ==
  p1.session \notin {"STAGED", "COMMITTED_BLOCKED", "ACTIVE"} =>
    p1.staged = None /\ p1.active = None /\ p1.tel = None

(* The encryption engine runs only for a released session that holds a key  *)
(* and an image, and never once a fault has been latched: a fault survives  *)
(* abort, zeroize, self-test and a new session.                             *)
P1EngineArmed ==
  p1.core \in {"ASCON", "UART"} =>
    /\ p1.session = "ACTIVE" /\ p1.active # None /\ p1.tel # None /\ ~p1.fault
    /\ <<p1.seq, p1.tel>> \in used

(* A result is RUNNING only while an engine runs for it, so a master that   *)
(* polls GET_TXN_RESULT does not wait for work nobody does.                 *)
P1NoOrphan == p1.ret # None /\ ~Terminal(p1.ret) => p1.core # "IDLE"

(* The strengthening that makes these inductive: the session state that     *)
(* goes with each engine, the result each engine works for, the banks of a  *)
(* session that is only staged, and that every sequence number used under   *)
(* the active key lies below the next one, but for the frame under way.     *)
P1CoreSession ==
  /\ p1.core = "SELF_TEST" => p1.session = "SELF_TEST_RUNNING"
  /\ p1.core = "ZEROIZE" => p1.session = "ZEROIZE_BUSY"

P1CoreRecord ==
  /\ p1.core \in {"SELF_TEST", "ASCON", "UART"} => p1.ret \in P1Records
  /\ p1.core = "ZEROIZE" /\ p1.fromCommand => p1.ret \in P1Records
  /\ p1.core = "ZEROIZE" /\ ~p1.fromCommand => p1.ret = None

P1Banks ==
  /\ p1.session \notin {"COMMITTED_BLOCKED", "ACTIVE"} => p1.active = None
  /\ p1.active = None => used = {}

P1Fresh ==
  \A x \in used : \/ x[1] < p1.seq
                  \/ p1.core \in {"ASCON", "UART"} /\ x = <<p1.seq, p1.tel>>

P1IInv == /\ P1TypeOK /\ P1NonceOnce /\ P1KeysGone /\ P1EngineArmed /\ P1NoOrphan
          /\ P1CoreSession /\ P1CoreRecord /\ P1Banks /\ P1Fresh

(* Within a session the sequence number moves only together with the        *)
(* complete frame that used it.                                             *)
P1SeqFollowsFrame ==
  [][p1.active # None /\ p1'.active = p1.active /\ p1'.session = p1.session /\ p1'.seq # p1.seq =>
       /\ p1'.seq = p1.seq + 1
       /\ air' = [id |-> p1.active.id, key |-> p1.active.key, seq |-> p1.seq,
                  tel |-> p1.tel]]_P1Vars

(* Every accepted side effect reaches a terminal result or is cleared,      *)
(* unless zeroize_n is held low.                                            *)
P1Completes ==
  (p1.ret # None /\ ~Terminal(p1.ret))
    ~> (p1.ret = None \/ Terminal(p1.ret) \/ ~zeroizeN)

(* A request repeated under the transaction id of the retained record is    *)
(* answered from the record and not executed again, whatever came between;  *)
(* only ZEROIZE, which is idempotent, runs again.                           *)
P1ExecutedOnce == again /\ p1.ret # None => p1.ret.cmd = "ZEROIZE"
=============================================================================
