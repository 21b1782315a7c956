--------------------------- MODULE TrinitySystem ---------------------------
(***************************************************************************)
(* The SN32 controller with both Primers: activation of a session on two    *)
(* endpoints, sending telemetry through them, self-test, status, close and  *)
(* zeroize, while SPI exchanges and UART frames are lost, the supervisor    *)
(* faults and recovers, and an FPGA is reset.                               *)
(*                                                                          *)
(* A controller step is one SPI exchange or the code between two of them.   *)
(* A command runs to its end before the next one starts, as in the main     *)
(* loop of the firmware.                                                    *)
(***************************************************************************)
EXTENDS Primer1, Primer2

CONSTANT MaxTrouble   \* bound: losses, faults and resets in one behaviour

(* The controller numbers its requests, so the next number is never the one *)
(* a Primer retains; absent and damaged payloads are no values.             *)
ASSUME SystemAssumption ==
  /\ MaxTrouble \in Nat
  /\ \E x, y \in Txids : x # y
  /\ None \notin {Malformed, Unsupported} \cup Material \cup [id: Ids, seq: Nat]
  /\ Malformed \notin Ids

VARIABLES
  enable,     \* the supervisor's secure_enable_o
  ctl,        \* the controller's registers and its program counter
  trouble     \* losses, faults and resets so far

sysvars == <<P1Vars, P2Vars, enable, ctl, trouble>>

Tiny == INSTANCE TinyLines

Targets == {1, 2}

SystemStates == {"BOOT", "SELF_TEST_REQUIRED", "SELF_TEST_RUNNING", "READY_NO_SESSION",
                 "SESSION_ESTABLISHING", "ACTIVE", "ZEROIZE_BUSY", "FAULT_LOCKED", "ERROR"}

(* FRAME_TIMEOUT stands for every transport error of a failed exchange. *)
ReturnCodes == Codes \cup {"FRAME_TIMEOUT", "FAULT_LOCKED", "SESSION_COMMIT_FAILED",
                           "OUTCOME_UNKNOWN", "SELF_TEST_FAILED", "BAD_TAG"}

ControllerInit ==
  [op |-> "NONE", pc |-> "idle", target |-> 1, sub |-> "request", txid |-> None,
   result |-> None, arg |-> None, rc |-> "OK", cache |-> None, late |-> FALSE,
   session |-> None, sequence |-> 0, state |-> "BOOT", ready |-> {},
   commit |-> FALSE, contained |-> FALSE]

-----------------------------------------------------------------------------
(* SPI exchanges. *)

(* A Primer reacts to its nets within a cycle and wipes, encrypts and       *)
(* decrypts in some hundred cycles; Primer #2 has a frame as soon as its    *)
(* last byte has left; an exchange begins with 5 ms of silence on the bus.  *)
(* So only a self-test and the sending of a frame last longer than a        *)
(* controller step.  (The Primers' own modules interleave freely.)          *)
Quiet ==
  /\ ~P1Forced /\ ~P2Forced
  /\ ~(p1.session = "COMMITTED_BLOCKED" /\ secure /\ ~fatal)
  /\ ~(p2.session = "COMMITTED_BLOCKED" /\ secure /\ ~fatal /\ ~p2.fault)
  /\ zeroizeN => p1.core # "ZEROIZE" /\ p2.core # "ZEROIZE"
  /\ p1.core # "ASCON" /\ p2.core \notin {"VALIDATE", "DECRYPT"} /\ air = None

Record(t) == IF t = 1 THEN p1.ret ELSE p2.ret

(* Every attempt of every exchange takes the next transaction id. *)
FreshTxid(t) == CHOOSE x \in Txids : Record(t) = None \/ Record(t).txid # x

Message(t, cmd, arg) == [cmd |-> cmd, txid |-> FreshTxid(t), arg |-> arg]

(* A known-answer test of the running self-test fails. *)
TestFails(p, after) ==
  /\ p.core = "SELF_TEST"
  /\ after.session = "FAULT_LOCKED" \/ (after.fault /\ ~p.fault /\ ~fatal)

Deliver(t, q) ==
  \/ t = 1 /\ P1Request(q) /\ P1Record /\ UNCHANGED p2vars
  \/ /\ t = 2 /\ P2Request(None, q) /\ UNCHANGED p1vars
     /\ ~TestFails(p2, p2')

Untouched == UNCHANGED <<nets, reply, p1vars, p2vars>>

Suffer == trouble < MaxTrouble /\ trouble' = trouble + 1

(* controller_exchange and endpoint_exchange: After maps the return code to *)
(* the controller's next registers.  A fault that was contained keeps the   *)
(* bus closed; a request or its response may be lost; Primer #2 does not    *)
(* answer while it zeroizes.                                                *)
Exchange(t, q, After(_)) ==
  /\ Quiet
  /\ UNCHANGED enable
  /\ \/ fatal /\ ctl' = After("FAULT_LOCKED") /\ Untouched /\ UNCHANGED trouble
     \/ /\ ~fatal /\ ctl.contained
        /\ ctl' = After("BAD_STATE") /\ Untouched /\ UNCHANGED trouble
     \/ /\ ~fatal /\ ~ctl.contained
        /\ \/ Deliver(t, q) /\ ctl' = After(reply') /\ UNCHANGED trouble
           \/ Deliver(t, q) /\ ctl' = After("FRAME_TIMEOUT") /\ Suffer
           \/ Untouched /\ ctl' = After("FRAME_TIMEOUT") /\ Suffer
           \/ /\ t = 2 /\ p2.core = "ZEROIZE"
              /\ Untouched /\ ctl' = After("FRAME_TIMEOUT") /\ UNCHANGED trouble

-----------------------------------------------------------------------------
(* Controller registers. *)

(* controller_latch_error, with a code that is not OK. *)
LatchError(c, rc) ==
  [c EXCEPT !.state =
     IF rc \in {"FAULT_LOCKED", "COMMIT_REJECTED", "SESSION_COMMIT_FAILED"} \/ @ = "FAULT_LOCKED"
     THEN "FAULT_LOCKED" ELSE "ERROR"]

(* An exchange does not latch the codes that polling expects. *)
Latched(c, rc) ==
  IF rc \in {"OK", "RESULT_NOT_READY", "BUSY", "RESULT_PENDING"} THEN c ELSE LatchError(c, rc)

Goto(c, label, t) == [c EXCEPT !.pc = label, !.target = t, !.sub = "request",
                               !.txid = None, !.result = None, !.cache = None,
                               !.late = FALSE]

Return(c, rc) == [Goto(c, "return", 1) EXCEPT !.rc = rc]

Forget(c) == [c EXCEPT !.session = None, !.sequence = 0]

(* The failure exits of activate_session. *)
FailAbort(c, rc) == [Goto(c, "failAbort", 1) EXCEPT !.rc = rc]

(* Mutant: after the commit line went high, failing just returns. *)
FailZeroize_Returns(c, rc) == Return(c, rc)

FailZeroize(c, rc) == [Goto(c, "failZeroize", 1) EXCEPT !.rc = rc]

(* secure_enable reaches the Primers only while the controller commits and  *)
(* the supervisor enables.                                                  *)
DriveSecure == secure' = (ctl'.commit /\ enable')

(* A step of the controller that touches no bus. *)
Local(c) == /\ Quiet /\ ctl' = c /\ UNCHANGED enable /\ DriveSecure
            /\ UNCHANGED <<fatal, zeroizeN, reply, p1vars, p2vars, trouble>>

-----------------------------------------------------------------------------
(* Retained operations: controller_execute_retained. *)

RetainedLabels == {"commit", "zero", "test", "encrypt"}

Command == [commit |-> "COMMIT_SESSION", zero |-> "ZEROIZE", test |-> "RUN_SELF_TEST",
            encrypt |-> "ENCRYPT_AND_SEND"]

(* close and zeroize tolerate some codes and keep the first other one. *)
Note(c, rc, tolerated) ==
  IF c.rc = "OK" /\ rc \notin tolerated THEN [c EXCEPT !.rc = rc] ELSE c

(* What follows the retained operation of each label. *)
Committed(c, rc) ==
  CASE rc # "OK" -> FailAbort(c, rc)
    [] rc = "OK" /\ c.target = 1 -> Goto(c, "commit", 2)
    [] OTHER -> Goto(c, "blocked", 1)

Tested(c, rc) ==
  CASE rc # "OK" -> Return(c, rc)
    [] rc = "OK" /\ c.target = 1 /\ 2 \in c.arg -> Goto(c, "test", 2)
    [] OTHER -> Goto(c, "refresh", 1)

Zeroized(c, rc) ==
  LET n == Note(c, rc, {"OK", "FAULT_LOCKED"}) IN
  IF c.target = 1 THEN Goto(n, "zero", 2) ELSE Goto(n, "zeroState", 1)

Sent(c, rc, data) ==
  CASE rc # "OK" -> Return(c, rc)
    [] rc = "OK" /\ data = <<c.session.id, c.sequence + 1>> -> Goto(c, "arrive", 2)
    [] OTHER -> Return(c, "TRANSACTION_CONFLICT")

Ended(c, rc, data) ==
  CASE c.pc = "commit" -> Committed(c, rc)
    [] c.pc = "test" -> Tested(c, rc)
    [] c.pc = "zero" -> Zeroized(c, rc)
    [] c.pc = "encrypt" -> Sent(c, rc, data)

ExecuteRequest ==
  /\ ctl.pc \in RetainedLabels /\ ctl.sub = "request"
  /\ LET q == Message(ctl.target, Command[ctl.pc],
                      IF ctl.pc = "commit" THEN ctl.arg.id ELSE None)
         After(rc) == IF rc = "OK" THEN [ctl EXCEPT !.sub = "poll", !.txid = q.txid]
                                   ELSE Ended(Latched(ctl, rc), rc, None)
     IN Exchange(ctl.target, q, After)

ResultQuery == Message(ctl.target, "GET_TXN_RESULT", ctl.txid)

(* A result in hand is retired before it is used. *)
Retire(c, record) == [c EXCEPT !.sub = "retire", !.result = record]

(* The loop ends with a terminal result, a transport error or the time-out. *)
ExecutePoll ==
  /\ ctl.pc \in RetainedLabels /\ ctl.sub = "poll"
  /\ LET record == Record(ctl.target)
         After(rc) ==
           CASE rc = "OK" /\ Terminal(record) -> Retire(ctl, record)
             [] \/ rc = "OK" /\ ~Terminal(record)
                \/ rc \in {"RESULT_NOT_READY", "BUSY"} ->
                  IF ctl.late THEN [ctl EXCEPT !.sub = "final"] ELSE ctl
             [] OTHER -> Ended(Latched(ctl, rc), rc, None)
     IN Exchange(ctl.target, ResultQuery, After)

ExecuteFinal ==
  /\ ctl.pc \in RetainedLabels /\ ctl.sub = "final"
  /\ LET record == Record(ctl.target)
         After(rc) == IF rc = "OK" /\ Terminal(record) THEN Retire(ctl, record)
                      ELSE Ended(Latched(ctl, rc), "OUTCOME_UNKNOWN", None)
     IN Exchange(ctl.target, ResultQuery, After)

ExecuteRetire ==
  /\ ctl.pc \in RetainedLabels /\ ctl.sub = "retire"
  /\ LET code == IF ctl.result.state = "FAILED" THEN "SELF_TEST_FAILED" ELSE "OK"
         After(rc) == IF rc = "OK" THEN Ended(ctl, code, ctl.result.data)
                                   ELSE Ended(Latched(ctl, rc), rc, None)
     IN Exchange(ctl.target, Message(ctl.target, "RETIRE_TXN_RESULT", ctl.txid), After)

-----------------------------------------------------------------------------
(* Status: controller_get_status and the three loops that wait for a state. *)

Status(t) ==
  LET p == IF t = 1 THEN p1 ELSE p2 IN
  [session |-> p.session, staged |-> p.staged # None, secure |-> secure,
   id |-> IF p.active = None THEN None ELSE p.active.id,
   fault |-> IF t = 1 THEN P1Fault ELSE P2Fault]

(* The system state a complete refresh leads to. *)
Refreshed(s1, s2) ==
  LET some(x) == x \in {s1.session, s2.session} IN
  CASE s1.session = "ACTIVE" /\ s2.session = "ACTIVE" /\ s1.id = s2.id -> "ACTIVE"
    [] some("ZEROIZE_BUSY") -> "ZEROIZE_BUSY"
    [] ~some("ZEROIZE_BUSY") /\ some("SELF_TEST_REQUIRED") -> "SELF_TEST_REQUIRED"
    [] /\ ~some("ZEROIZE_BUSY") /\ ~some("SELF_TEST_REQUIRED")
       /\ some("SELF_TEST_RUNNING") -> "SELF_TEST_RUNNING"
    [] /\ ~some("ZEROIZE_BUSY") /\ ~some("SELF_TEST_REQUIRED") /\ ~some("SELF_TEST_RUNNING")
       /\ (some("STAGED") \/ some("COMMITTED_BLOCKED")) -> "SESSION_ESTABLISHING"
    [] OTHER -> "READY_NO_SESSION"

Probed(s1, s2) == IF "SELF_TEST_REQUIRED" \in {s1.session, s2.session}
                  THEN "SELF_TEST_REQUIRED" ELSE "READY_NO_SESSION"

Expected == [staged |-> "STAGED", blocked |-> "COMMITTED_BLOCKED", active |-> "ACTIVE"]

(* The staged bank's identifier is not reported: its flag must do. *)
Matches(s, label, id) ==
  s.session = Expected[label] /\ (IF label = "staged" THEN s.staged ELSE s.id = id)

Install(c) == [Return(c, "OK") EXCEPT !.session = c.arg, !.sequence = 0, !.state = "ACTIVE"]

Reached(c, s1, s2) ==
  CASE c.pc = "staged" -> Goto(c, "commit", 1)
    [] c.pc = "blocked" -> Goto(c, "high", 1)
    [] c.pc = "active" /\ s1.secure /\ s2.secure -> Install(c)
    [] OTHER -> FailZeroize(c, "SESSION_COMMIT_FAILED")

StatusFailed(c, rc) ==
  CASE c.pc \in {"staged", "blocked"} -> FailAbort(c, rc)
    [] c.pc = "active" -> FailZeroize(c, rc)
    [] c.pc = "refresh" -> Return(c, rc)
    [] OTHER -> Return([c EXCEPT !.ready = IF c.target = 1 THEN @ \ {2} ELSE @], rc)

StatusRead(c, s1, s2) ==
  LET r == [c EXCEPT !.state = Refreshed(s1, s2)]
      reached == Matches(s1, c.pc, c.arg.id) /\ Matches(s2, c.pc, c.arg.id)
  IN CASE c.pc = "probe" -> Return([c EXCEPT !.state = Probed(s1, s2)], "OK")
       [] c.pc = "refresh" /\ c.op = "REFRESH" -> Return(r, "OK")
       [] c.pc = "refresh" /\ c.op = "SELF_TEST" ->
            Return([c EXCEPT !.state = "READY_NO_SESSION"], "OK")
       [] c.pc \in DOMAIN Expected /\ reached -> Reached(r, s1, s2)
       [] c.pc \in DOMAIN Expected /\ ~reached /\ ~c.late -> Goto(r, c.pc, 1)
       [] OTHER -> StatusFailed(r, "SESSION_COMMIT_FAILED")

GetStatus ==
  /\ ctl.pc \in {"staged", "blocked", "active", "refresh", "probe"}
  /\ LET t == ctl.target
         s == Status(t)
         After(rc) ==
           LET code == IF rc = "OK" /\ s.fault THEN "FAULT_LOCKED" ELSE rc
               c == [Latched(ctl, code) EXCEPT !.ready = IF rc = "OK" THEN @ \cup {t}
                                                                      ELSE @ \ {t}]
           IN CASE code # "OK" -> StatusFailed(c, code)
                [] code = "OK" /\ t = 1 ->
                     [c EXCEPT !.target = 2, !.cache = s,
                               !.pc = IF @ = "probe" THEN "info" ELSE @]
                [] OTHER -> StatusRead(c, ctl.cache, s)
     IN Exchange(t, Message(t, "GET_STATUS", None), After)

GetInfo ==
  /\ ctl.pc = "info"
  /\ LET t == ctl.target
         After(rc) == IF rc = "OK" THEN [ctl EXCEPT !.pc = "probe"]
                      ELSE Return([Latched(ctl, rc) EXCEPT !.ready = @ \ {t, 2}], rc)
     IN Exchange(t, Message(t, "GET_INFO", None), After)

-----------------------------------------------------------------------------
(* Activation, close and zeroize. *)

StartActivate(m) ==
  /\ ctl.pc = "idle" /\ ctl.state = "READY_NO_SESSION" /\ ctl.ready = Targets
  /\ Local([Goto(ctl, "tiny", 1) EXCEPT !.op = "ACTIVATE", !.arg = m, !.commit = FALSE,
                                        !.state = "SESSION_ESTABLISHING"])

CheckTiny ==
  /\ ctl.pc = "tiny"
  /\ Local(IF fatal THEN FailAbort(ctl, "FAULT_LOCKED") ELSE Goto(ctl, "stage", 1))

Stage ==
  /\ ctl.pc = "stage"
  /\ LET After(rc) ==
           LET c == Latched(ctl, rc) IN
           CASE rc # "OK" -> FailAbort(c, rc)
             [] rc = "OK" /\ c.target = 1 -> Goto(c, "stage", 2)
             [] OTHER -> Goto(c, "staged", 1)
     IN Exchange(ctl.target, Message(ctl.target, "STAGE_SESSION", ctl.arg), After)

CommitHigh == ctl.pc = "high" /\ Local([Goto(ctl, "active", 1) EXCEPT !.commit = TRUE])

AbortLow == ctl.pc = "failAbort" /\ Local([Goto(ctl, "abort", 1) EXCEPT !.commit = FALSE])

Abort ==
  /\ ctl.pc = "abort"
  /\ LET After(rc) ==
           LET c == Latched(ctl, rc) IN
           IF c.target = 1 THEN Goto(c, "abort", 2) ELSE Goto(c, "failZeroize", 1)
     IN Exchange(ctl.target, Message(ctl.target, "ABORT_SESSION", ctl.arg.id), After)

ZeroizeLow(c) == [Goto(c, "zero", 1) EXCEPT !.commit = FALSE, !.state = "ZEROIZE_BUSY"]

ActivateZeroize == ctl.pc = "failZeroize" /\ Local(ZeroizeLow(ctl))

StartZeroize == ctl.pc = "idle" /\ Local([ZeroizeLow(ctl) EXCEPT !.op = "ZEROIZE"])

(* The fault line is read once for the state and again for the code. *)
ZeroizeState ==
  /\ ctl.pc = "zeroState"
  /\ Local([Goto(Forget(ctl), "zeroCode", 1)
              EXCEPT !.state = IF fatal THEN "FAULT_LOCKED" ELSE "READY_NO_SESSION"])

ZeroizeCode ==
  /\ ctl.pc = "zeroCode"
  /\ Local(CASE ctl.op = "ACTIVATE" -> Return(LatchError(ctl, ctl.rc), ctl.rc)
             [] ctl.op = "ZEROIZE" /\ ctl.rc = "OK" /\ fatal -> Return(ctl, "FAULT_LOCKED")
             [] OTHER -> Return(ctl, ctl.rc))

StartClose ==
  ctl.pc = "idle" /\ Local([Goto(ctl, "close", 1) EXCEPT !.op = "CLOSE", !.commit = FALSE])

Close ==
  /\ ctl.pc = "close"
  /\ LET id == IF ctl.session = None THEN None ELSE ctl.session.id
         After(rc) ==
           LET c == Note(Latched(ctl, rc), rc, {"OK", "BAD_SESSION", "FAULT_LOCKED"}) IN
           IF c.target = 1 THEN Goto(c, "close", 2) ELSE Goto(c, "closed", 1)
     IN Exchange(ctl.target, Message(ctl.target, "ABORT_SESSION", id), After)

Closed ==
  /\ ctl.pc = "closed"
  /\ Local([Return(Forget(ctl), IF ctl.rc = "OK" /\ fatal THEN "FAULT_LOCKED" ELSE ctl.rc)
              EXCEPT !.state = "READY_NO_SESSION"])

-----------------------------------------------------------------------------
(* Self-test, status and telemetry. *)

StartSelfTest(mask) ==
  /\ ctl.pc = "idle"
  /\ Local([Goto(ctl, "test", IF 1 \in mask THEN 1 ELSE 2)
              EXCEPT !.op = "SELF_TEST", !.arg = mask, !.state = "SELF_TEST_RUNNING"])

StartRefresh == ctl.pc = "idle" /\ Local([Goto(ctl, "refresh", 1) EXCEPT !.op = "REFRESH"])

StartProbe == /\ ctl.pc = "idle" /\ ctl.ready # Targets /\ ~ctl.contained
              /\ Local([Goto(ctl, "info", 1) EXCEPT !.op = "PROBE"])

StartSend(tel) ==
  /\ ctl.pc = "idle" /\ ctl.state = "ACTIVE" /\ ctl.session # None
  /\ p1.seq <= MaxSeq   \* the bound on frames
  /\ Local([Goto(ctl, "rx", 2) EXCEPT !.op = "SEND", !.arg = tel])

(* What P2 reports of the frame the controller waits for. *)
Arrived == /\ p2.result # None /\ p2.active.id = ctl.session.id
           /\ p2.last = ctl.sequence + 1

RxStatus ==
  /\ ctl.pc = "rx"
  /\ LET After(rc) ==
           LET c == Latched(ctl, rc) IN
           CASE rc # "OK" -> Return(c, rc)
             [] rc = "OK" /\ p2.result # None -> Return(c, "RESULT_PENDING")
             [] OTHER -> Goto(c, "load", 1)
     IN Exchange(2, Message(2, "GET_RX_STATUS", None), After)

Load ==
  /\ ctl.pc = "load"
  /\ LET After(rc) == LET c == Latched(ctl, rc) IN
                      IF rc = "OK" THEN Goto(c, "encrypt", 1) ELSE Return(c, rc)
     IN Exchange(1, Message(1, "LOAD_TELEMETRY", ctl.arg), After)

(* Mutant: the wait for the frame ignores its deadline. *)
Arrive_Waits ==
  /\ ctl.pc = "arrive"
  /\ LET After(rc) ==
           CASE rc # "OK" -> Return(Latched(ctl, rc), rc)
             [] rc = "OK" /\ Arrived -> Goto(ctl, "read", 2)
             [] OTHER -> ctl
     IN Exchange(2, Message(2, "GET_RX_STATUS", None), After)

(* The break of the loop asks for a result and for a ready receiver, which  *)
(* exclude each other: the loop ends with the last status before time-out.  *)
Arrive ==
  /\ ctl.pc = "arrive"
  /\ LET After(rc) ==
           LET c == Latched(ctl, rc) IN
           CASE rc # "OK" -> Return(c, rc)
             [] rc = "OK" /\ ~ctl.late -> c
             [] rc = "OK" /\ ctl.late /\ Arrived -> Goto(c, "read", 2)
             [] OTHER -> Return(c, "FRAME_TIMEOUT")
     IN Exchange(2, Message(2, "GET_RX_STATUS", None), After)

ReadAuth ==
  /\ ctl.pc = "read"
  /\ LET mine == /\ p2.result.id = ctl.session.id /\ p2.result.seq = ctl.sequence + 1
                 /\ p2.result.tel = ctl.arg
         After(rc) ==
           CASE rc # "OK" -> Return(Latched(ctl, rc), rc)
             [] rc = "OK" /\ mine -> Goto(ctl, "ack", 2)
             [] OTHER -> Return(LatchError(ctl, "BAD_TAG"), "BAD_TAG")
     IN Exchange(2, Message(2, "READ_AUTH_RESULT", None), After)

(* Mutant: the answer to the ACK is not looked at. *)
Ack_Unchecked ==
  /\ ctl.pc = "ack"
  /\ LET named == [id |-> ctl.session.id, seq |-> ctl.sequence + 1]
         After(rc) == [Return(ctl, "OK") EXCEPT !.sequence = @ + 1]
     IN Exchange(2, Message(2, "ACK_AUTH_RESULT", named), After)

Ack ==
  /\ ctl.pc = "ack"
  /\ LET named == [id |-> ctl.session.id, seq |-> ctl.sequence + 1]
         After(rc) == LET c == Latched(ctl, rc) IN
                      IF rc = "OK" THEN [Return(c, "OK") EXCEPT !.sequence = @ + 1]
                                   ELSE Return(c, rc)
     IN Exchange(2, Message(2, "ACK_AUTH_RESULT", named), After)

-----------------------------------------------------------------------------
(* The main loop. *)

(* The handler's tail: only a ZEROIZE that succeeded ends a containment. *)
Finish ==
  /\ ctl.pc = "return"
  /\ LET done == ctl.op = "ZEROIZE" /\ ctl.rc = "OK" IN
     Local([ControllerInit EXCEPT !.session = ctl.session, !.sequence = ctl.sequence,
                                  !.ready = ctl.ready, !.commit = ctl.commit,
                                  !.state = IF done THEN "READY_NO_SESSION" ELSE ctl.state,
                                  !.contained = ctl.contained /\ ~done])

ContainTinyFault ==
  /\ ctl.pc = "idle" /\ fatal /\ ~ctl.contained
  /\ Local([Forget(ctl) EXCEPT !.commit = FALSE, !.contained = TRUE, !.state = "FAULT_LOCKED"])

Start == \/ StartZeroize \/ StartClose \/ StartRefresh \/ StartProbe
         \/ \E m \in Material : StartActivate(m)
         \/ \E mask \in {{1}, {2}, {1, 2}} : StartSelfTest(mask)
         \/ \E tel \in Telemetry : StartSend(tel)

Continue ==
  \/ ExecuteRequest \/ ExecutePoll \/ ExecuteFinal \/ ExecuteRetire
  \/ GetStatus \/ GetInfo
  \/ CheckTiny \/ Stage \/ CommitHigh \/ AbortLow \/ Abort \/ ActivateZeroize
  \/ ZeroizeState \/ ZeroizeCode \/ Close \/ Closed
  \/ RxStatus \/ Load \/ Arrive \/ ReadAuth \/ Ack
  \/ Finish

(* Every loop has a deadline, looked at once per round.  The wait for the   *)
(* frame always runs into it; the others only in trouble.                   *)
DeadlinePasses ==
  /\ ~ctl.late /\ ctl' = [ctl EXCEPT !.late = TRUE]
  /\ UNCHANGED <<nets, reply, p1vars, p2vars, enable>>
  /\ \/ ctl.pc = "arrive" /\ UNCHANGED trouble
     \/ /\ \/ ctl.pc \in {"staged", "blocked", "active"}
           \/ ctl.pc \in RetainedLabels /\ ctl.sub = "poll"
        /\ \/ trouble = 0 /\ Suffer
           \/ trouble > 0 /\ UNCHANGED trouble

-----------------------------------------------------------------------------
(* The Primers, the line between them and the supervisor. *)

(* A self-test that fails is one of the counted troubles. *)
Hurt(p, after) == IF TestFails(p, after) THEN Suffer ELSE UNCHANGED trouble

P1Step == /\ P1Engine /\ P1Record /\ Hurt(p1, p1')
          /\ UNCHANGED <<p2vars, enable, ctl>>

P2Step == /\ P2Engine \/ P2Receive(None)
          /\ Hurt(p2, p2')
          /\ UNCHANGED <<p1vars, enable, ctl>>

(* A frame arrives, arrives damaged, or is lost; one that completes while   *)
(* Primer #2 zeroizes is not seen.                                          *)
UartStep ==
  /\ air # None /\ air' = None
  /\ UNCHANGED <<p1, used, again, enable, ctl>>
  /\ \/ P2Receive(air) /\ Hurt(p2, p2')
     \/ P2Receive([air EXCEPT !.key = None]) /\ Suffer
     \/ UNCHANGED <<nets, reply, p2vars>> /\ Suffer
     \/ ~P2Open /\ UNCHANGED <<nets, reply, p2vars, trouble>>

TinyFaults == ~fatal /\ Tiny!Fault /\ Suffer
TinyDisturbed == zeroizeN /\ Tiny!Disturbed /\ Suffer
TinyRecovers == Quiet /\ (Tiny!Cleared \/ Tiny!Released \/ Tiny!Enabled) /\ UNCHANGED trouble

TinyStep == /\ TinyFaults \/ TinyDisturbed \/ TinyRecovers
            /\ UNCHANGED <<reply, p1vars, p2vars, ctl>> /\ DriveSecure

ResetStep ==
  /\ Suffer /\ UNCHANGED <<enable, ctl>>
  /\ \/ P1PowerCycle /\ P1Record /\ UNCHANGED p2vars
     \/ P2PowerCycle /\ UNCHANGED p1vars

(* The firmware's warm-up ends after the supervisor has qualified. *)
SysInit ==
  /\ P1Init /\ P2Init /\ secure = FALSE /\ reply = "OK"
  /\ fatal = FALSE /\ zeroizeN = TRUE /\ enable = TRUE
  /\ ctl = ControllerInit /\ trouble = 0

SysNext ==
  \/ Start \/ ContainTinyFault \/ Continue \/ DeadlinePasses
  \/ P1Step \/ P2Step \/ UartStep \/ TinyStep \/ ResetStep

SysSpec == SysInit /\ [][SysNext]_sysvars

(* The main loop, the engines and the clock do not stop. *)
SysFairSpec ==
  /\ SysSpec
  /\ WF_sysvars(Continue) /\ WF_sysvars(DeadlinePasses)
  /\ WF_sysvars(P1Step) /\ WF_sysvars(P2Step) /\ WF_sysvars(UartStep)

-----------------------------------------------------------------------------
(* Properties. *)

(* The session the controller stands for. *)
Owner == IF ctl.op = "ACTIVATE" THEN ctl.arg ELSE ctl.session

Keyless(p) == p.staged = None /\ p.active = None

Returned(ops) == ctl.pc = "return" /\ ctl.op \in ops

(* While secure_enable is high, every Primer that can use or will be        *)
(* released into a session holds exactly the controller's: both the same    *)
(* id and key, and never a session left over from an activation that failed *)
(* or that the controller has forgotten.                                    *)
SharedSession ==
  secure => /\ Owner # None
            /\ \A p \in {p1, p2} :
                 p.session \in {"COMMITTED_BLOCKED", "ACTIVE"} => p.active = Owner

(* In a session that all three share, the controller's count, the last      *)
(* sequence number Primer #2 accepted and the next one of Primer #1 never   *)
(* overtake each other, however many frames, requests or answers are lost.  *)
(* (An activation restarts the three at different moments.)                 *)
SequenceChain ==
  ctl.op # "ACTIVATE" /\ ctl.session # None /\ p1.active = ctl.session /\ p2.active = ctl.session =>
    ctl.sequence <= p2.last /\ p2.last < p1.seq

(* SEND_TELEMETRY succeeds only when Primer #2 accepted this very image     *)
(* as the counted frame and has released the result.                        *)
SendDelivers ==
  [][~Returned({"SEND"}) /\ Returned({"SEND"})' /\ ctl'.rc = "OK" =>
       /\ p2'.last = ctl'.sequence /\ p2'.result = None
       /\ p1.active = ctl.session => <<ctl'.sequence, ctl.arg>> \in used]_sysvars

(* ZEROIZE and CLOSE_SESSION that report success leave no key in either     *)
(* Primer and secure_enable low, although they tolerate FAULT_LOCKED and    *)
(* BAD_SESSION from a Primer and read the fault line only now and then.     *)
SuccessErases ==
  Returned({"ZEROIZE", "CLOSE"}) /\ ctl.rc = "OK" =>
    Keyless(p1) /\ Keyless(p2) /\ ctl.session = None /\ ~secure

(* A failed activation ends with secure_enable low and no session, and      *)
(* abort followed by zeroize erases both Primers even if any one exchange   *)
(* of the whole history was lost, or one device faulted or was reset.       *)
FailureErases ==
  Returned({"ACTIVATE"}) /\ ctl.rc # "OK" =>
    /\ ~ctl.commit /\ ~secure /\ ctl.session = None
    /\ trouble <= 1 => Keyless(p1) /\ Keyless(p2)

(* Every command ends: no retained operation, status wait or frame wait     *)
(* keeps the main loop, whatever was lost, reset or faulted before.         *)
CommandEnds == ctl.pc # "idle" ~> ctl.pc = "idle"

(* What the firmware says of ZEROIZE: it is the way out of a containment,   *)
(* so with the fault gone it is not refused.                                *)
EscapeHatch == ~(Returned({"ZEROIZE"}) /\ ctl.rc = "BAD_STATE")
=============================================================================
