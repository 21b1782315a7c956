------------------------------ MODULE HostLink ------------------------------
(***************************************************************************)
(* The PC and the SN32: the client library with its transaction             *)
(* identifiers and its reconciliation of retained results, the serial line, *)
(* and the one host transaction that the deploy bridge retains.             *)
(*                                                                          *)
(* The firmware executes a PC command to its end before it looks at the     *)
(* next frame, so handling one is one step; what makes it slow shows as a   *)
(* client that times out before the step.  What a command does to the       *)
(* Primers is the subject of TrinitySystem: here it succeeds or fails and   *)
(* leaves the controller in some state.  Progress events are skipped by the *)
(* client and left out.                                                     *)
(***************************************************************************)
EXTENDS Naturals, Sequences, SequencesExt

CONSTANTS
  Args,        \* payloads of a command: seeds, images
  None,        \* the absent value, and txid 0
  MaxTxid,     \* last transaction identifier before the wrap: 65535 in the code
  MaxOps,      \* bound: operations of one client process
  MaxTrouble   \* bound: damaged frames, early time-outs, kills, resets, faults

ASSUME HostAssumption ==
  /\ MaxTxid \in Nat \ {0} /\ MaxOps \in Nat \ {0} /\ MaxTrouble \in Nat
  /\ None \notin Args

VARIABLES
  mcu,      \* controller state, key pair, start-up flag, g_host_txn
  toMcu,    \* request frames: on the line, in the UART FIFO, queued
  toPc,     \* answers not yet read by a client
  pc,       \* the client process
  calm,     \* history: nothing disturbed this client process
  trouble   \* troubles so far

vars == <<mcu, toMcu, toPc, pc, calm, trouble>>

(* Commands the client sends through _retained_request. *)
RetainedOps ==
  [cmd: {"GENERATE_KEYPAIR", "CREATE_SESSION", "SEND_ONE_TELEMETRY"}, arg: Args]
    \cup [cmd: {"CLOSE_SESSION"}, arg: {None}]
    \cup [cmd: {"ZEROIZE_SYSTEM"}, arg: {"ALL", "ACTIVE_SESSION"}]

(* The other two ways: a self-test is polled for, a ping is only answered.  *)
Ops == RetainedOps \cup [cmd: {"RUN_SELF_TEST", "PING"}, arg: {None}]

EmergencyAll(q) == q.cmd = "ZEROIZE_SYSTEM" /\ q.arg = "ALL"

(* READY stands for READY_NO_SESSION and, without a key pair,               *)
(* READY_NO_KEYPAIR; DOWN for every state that admits no new session.       *)
ControllerStates == {"READY", "ACTIVE", "DOWN"}

Txids == 1..MaxTxid

(* A host transaction in g_host_txn, which holds a terminal result. *)
Transactions ==
  [id: Txids, cmd: {op.cmd : op \in Ops} \ {"PING"}, arg: {op.arg : op \in Ops},
   code: {"OK", "FAILED"}]

(* An inactive g_host_txn is no transaction, and no identifier is 0. *)
ASSUME NoneAssumption == None \notin Transactions /\ None \notin Txids

-----------------------------------------------------------------------------
(* The firmware: answers and the retained host transaction.                 *)

(* History: current tells whether the outcome an answer reports is that of  *)
(* the last command executed.                                               *)
Reply(q, code, data) ==
  [cmd |-> q.cmd, id |-> q.id, code |-> code, data |-> data, current |-> TRUE]

Answer(q, code, data) ==
  toPc' = Append(toPc, Reply(q, code, data)) /\ UNCHANGED <<mcu, pc>>

SameRequest(t, q) == t.id = q.id /\ t.cmd = q.cmd /\ t.arg = q.arg

(* A new command while a result is retained: the same request gets the      *)
(* result, which is terminal since commands are synchronous; any other one  *)
(* is refused.                                                              *)
Refuse(q) ==
  Answer(q, CASE SameRequest(mcu.txn, q) -> mcu.txn.code
              [] mcu.txn.id # q.id -> "RESULT_PENDING"
              [] OTHER -> "TRANSACTION_CONFLICT", None)

(* Begin, run and finish a managed command; m is the firmware's state after *)
(* it.  Result data are left out: two executions of CLOSE or ZEROIZE do not *)
(* differ in them, and they are the hard case.                              *)
Execute(q, code, m) ==
  /\ mcu' = [m EXCEPT !.txn = [id |-> q.id, cmd |-> q.cmd, arg |-> q.arg, code |-> code]]
  /\ toPc' = Append([i \in DOMAIN toPc |-> [toPc[i] EXCEPT !.current = FALSE]],
                    Reply(q, code, None))
  /\ pc' = [pc EXCEPT !.current = FALSE]

(* A failure leaves whatever state the controller made of it. *)
Fails(q, m) == \E s \in ControllerStates : Execute(q, "FAILED", [m EXCEPT !.state = s])

Runs(q, done) == Execute(q, "OK", done) \/ Fails(q, done)

(* Mutant: a new command overwrites the retained result of another one. *)
ManagedCommand_Overwrites(q, done) == Runs(q, done)

(* managed_transaction_begin, with done the state a success leaves. *)
ManagedCommand(q, done) == IF mcu.txn # None THEN Refuse(q) ELSE Runs(q, done)

BadState(q) == Answer(q, "BAD_STATE", None)

(* The state is tested before the retained transaction.  A failure may have *)
(* lost the old key pair, or have hit after the new one was made.           *)
HandleGenerate(q) ==
  IF mcu.state # "READY" THEN BadState(q)
  ELSE IF mcu.txn # None THEN Refuse(q)
  ELSE \/ Execute(q, "OK", [mcu EXCEPT !.keypair = TRUE])
       \/ \E k \in BOOLEAN : Fails(q, [mcu EXCEPT !.keypair = k])

HandleCreate(q) ==
  IF mcu.state # "READY" \/ ~mcu.keypair THEN BadState(q)
  ELSE ManagedCommand(q, [mcu EXCEPT !.state = "ACTIVE"])

HandleSend(q) ==
  IF mcu.txn # None \/ mcu.state = "ACTIVE" THEN ManagedCommand(q, mcu)
  ELSE Fails(q, mcu)

HandleClose(q) == ManagedCommand(q, [mcu EXCEPT !.state = "READY"])

(* The tests of the SN32 and the Tiny alone do not move the controller. *)
HandleSelfTest(q) ==
  \E s \in {mcu.state, "READY"} : ManagedCommand(q, [mcu EXCEPT !.state = s])

(* Mutant: a full zeroize is admitted like any other command. *)
HandleZeroize_Waits(q) ==
  ManagedCommand(q, [mcu EXCEPT !.state = "READY", !.keypair = mcu.keypair /\ ~EmergencyAll(q)])

(* A full zeroize discards the retained result first. *)
HandleZeroize(q) ==
  LET done == [mcu EXCEPT !.state = "READY", !.keypair = mcu.keypair /\ ~EmergencyAll(q)]
  IN IF EmergencyAll(q)
     THEN Runs(q, done) ELSE ManagedCommand(q, done)

(* GET_TXN_RESULT is local: no host transaction has a target's txid. *)
HandleGet(q) ==
  IF mcu.txn # None /\ mcu.txn.id = q.arg THEN Answer(q, "OK", mcu.txn)
  ELSE Answer(q, "RESULT_NOT_READY", None)

(* RETIRE_TXN_RESULT refreshes both Primers after it has retired. *)
HandleRetire(q) ==
  IF mcu.txn = None \/ mcu.txn.id # q.arg THEN Answer(q, "OK", None)
  ELSE /\ \E s \in ControllerStates : mcu' = [mcu EXCEPT !.txn = None, !.state = s]
       /\ toPc' = Append(toPc, Reply(q, "OK", None))
       /\ UNCHANGED pc

(* GET_SYSTEM_STATUS carries active_host_txid; PING and the other snapshots *)
(* carry nothing that matters here.                                         *)
HandleStatus(q) == Answer(q, "OK", IF mcu.txn = None THEN None ELSE mcu.txn.id)

HandlePing(q) == Answer(q, "OK", None)

Local == {"PING", "GET_SYSTEM_STATUS"}

HandleBusy(q) == Answer(q, "BUSY", None)

Dispatch(q) ==
  \/ mcu.booting /\ q.cmd \notin Local /\ HandleBusy(q)
  \/ q.cmd = "PING" /\ HandlePing(q)
  \/ q.cmd = "GET_SYSTEM_STATUS" /\ HandleStatus(q)
  \/ /\ ~mcu.booting
     /\ \/ q.cmd = "GET_TXN_RESULT" /\ HandleGet(q)
        \/ q.cmd = "RETIRE_TXN_RESULT" /\ HandleRetire(q)
        \/ q.cmd = "RUN_SELF_TEST" /\ HandleSelfTest(q)
        \/ q.cmd = "GENERATE_KEYPAIR" /\ HandleGenerate(q)
        \/ q.cmd = "CREATE_SESSION" /\ HandleCreate(q)
        \/ q.cmd = "CLOSE_SESSION" /\ HandleClose(q)
        \/ q.cmd = "ZEROIZE_SYSTEM" /\ HandleZeroize(q)
        \/ q.cmd = "SEND_ONE_TELEMETRY" /\ HandleSend(q)

(* pc_poll takes one frame and runs its handler to the end. *)
HandleRequest ==
  /\ toMcu # <<>>
  /\ Dispatch(Head(toMcu))
  /\ toMcu' = Tail(toMcu)
  /\ UNCHANGED <<calm, trouble>>

-----------------------------------------------------------------------------
(* The client process.  Its phase names the request whose answer it awaits: *)
(* the command itself, GET and RETIRE of its result, status and retirement  *)
(* after an error, and the two that emergency_zeroize begins with.          *)

Awaited(p) ==
  CASE p.phase = "request" -> p.op.cmd
    [] p.phase = "query" -> "GET_TXN_RESULT"
    [] p.phase \in {"retire", "clean", "preRetire"} -> "RETIRE_TXN_RESULT"
    [] p.phase \in {"status", "preStatus"} -> "GET_SYSTEM_STATUS"

Waiting == pc.phase \notin {"closed", "idle"}

(* request: a frame with the next identifier; p is the client without it. *)
Send(p, phase, cmd, arg) ==
  /\ toMcu' = Append(toMcu, [cmd |-> cmd, id |-> p.next, arg |-> arg])
  /\ pc' = [p EXCEPT !.phase = phase, !.id = p.next, !.next = (p.next % MaxTxid) + 1]

(* The operation returns, or an exception leaves it. *)
Done(p, outcome) ==
  /\ pc' = [p EXCEPT !.phase = "idle", !.outcome = outcome, !.id = None, !.host = None,
                    !.current = FALSE]
  /\ UNCHANGED toMcu

Closed == [phase |-> "closed", op |-> [cmd |-> "PING", arg |-> None], clean |-> FALSE,
           next |-> 1, id |-> None, host |-> None, ops |-> 0, current |-> FALSE,
           outcome |-> "none", alone |-> FALSE]

(* Mutant: opening the port keeps what has arrived. *)
Open_Keeps == pc' = [Closed EXCEPT !.phase = "idle", !.alone = TRUE] /\ UNCHANGED toPc

(* Opening the port discards what has arrived, and identifiers start at 1.  *)
(* History: alone tells that no older request is still on the line.         *)
Open == pc' = [Closed EXCEPT !.phase = "idle", !.alone = (toMcu = <<>>)] /\ toPc' = <<>>

OpenClient ==
  /\ pc.phase = "closed"
  /\ Open
  /\ calm' = (toMcu = <<>> /\ ~mcu.booting)
  /\ UNCHANGED <<mcu, toMcu, trouble>>

StartOp(op) ==
  /\ pc.phase = "idle" /\ pc.ops < MaxOps
  /\ LET p == [pc EXCEPT !.clean = pc.ops > 0 /\ pc.op \in RetainedOps, !.op = op, !.ops = pc.ops + 1,
                         !.outcome = "none"]
     IN IF EmergencyAll(op) THEN Send(p, "preStatus", "GET_SYSTEM_STATUS", None)
        ELSE Send(p, "request", op.cmd, op.arg)
  /\ UNCHANGED <<mcu, toPc, calm, trouble>>

(* An exception: from the status and the retirements that are wrapped in a  *)
(* try it is swallowed; elsewhere it ends the operation.                    *)
Raise(p, what) ==
  CASE p.phase \in {"status", "clean"} -> Done(p, p.outcome)
    [] p.phase \in {"preStatus", "preRetire"} -> Send(p, "request", p.op.cmd, p.op.arg)
    [] OTHER -> Done(p, what)

(* What _retained_request and wait_for_transaction compare. *)
Verified(r) ==
  r.data.id = pc.host /\ r.data.cmd = pc.op.cmd /\ r.data.code = "OK"

(* Mutant: an error answer ends the operation and retires nothing. *)
RemoteError_LeavesIt(r) == Raise(pc, r.code)

(* An error answer.  A managed command retires whatever the status says is  *)
(* active; the self-test does not.                                          *)
RemoteError(r) ==
  IF pc.phase = "request" /\ pc.op \in RetainedOps
  THEN Send([pc EXCEPT !.outcome = r.code], "status", "GET_SYSTEM_STATUS", None)
  ELSE Raise(pc, r.code)

(* The answer to the command itself: a ping is done, for any other command  *)
(* the retained result is fetched under the identifier of the answer.       *)
Answered(r) ==
  IF pc.op.cmd = "PING" THEN Done(pc, "OK")
  ELSE Send([pc EXCEPT !.host = r.id, !.current = r.current],
            "query", "GET_TXN_RESULT", r.id)

(* The fetched result.  A managed command retires it whatever it was; the   *)
(* self-test only if it is the expected one.                                *)
Fetched(r) ==
  LET outcome == IF Verified(r) THEN "OK" ELSE "HostProtocolError"
  IN IF Verified(r) \/ pc.op \in RetainedOps
     THEN Send([pc EXCEPT !.outcome = outcome], "retire", "RETIRE_TXN_RESULT", pc.host)
     ELSE Done(pc, outcome)

(* The status during a clean-up: nothing to retire, or the active one. *)
StatusKnown(r, next) ==
  IF r.data = None THEN Raise(pc, pc.outcome)
  ELSE Send(pc, next, "RETIRE_TXN_RESULT", r.data)

Received(r) ==
  CASE pc.phase = "request" -> Answered(r)
    [] pc.phase = "query" -> Fetched(r)
    [] pc.phase = "status" -> StatusKnown(r, "clean")
    [] pc.phase = "preStatus" -> StatusKnown(r, "preRetire")
    [] pc.phase \in {"retire", "clean"} -> Done(pc, pc.outcome)
    [] pc.phase = "preRetire" -> Send(pc, "request", pc.op.cmd, pc.op.arg)

Correlated(r) == r.cmd = Awaited(pc) /\ r.id = pc.id

Receive ==
  /\ Waiting /\ toPc # <<>>
  /\ LET r == Head(toPc)
     IN IF ~Correlated(r) THEN Raise(pc, "HostProtocolError")
        ELSE IF r.code # "OK" THEN RemoteError(r)
        ELSE Received(r)
  /\ toPc' = Tail(toPc)
  /\ UNCHANGED <<mcu, calm, trouble>>

-----------------------------------------------------------------------------
(* What goes wrong.                                                         *)

Trouble == trouble < MaxTrouble /\ trouble' = trouble + 1 /\ calm' = FALSE

(* No answer in time: it was lost, or it is still to come. *)
TimeOut ==
  /\ Waiting /\ toPc = <<>>
  /\ IF toMcu = <<>> THEN UNCHANGED <<trouble, calm>> ELSE Trouble
  /\ Raise(pc, "TimeoutError")
  /\ UNCHANGED <<mcu, toPc>>

CloseClient ==
  /\ pc.phase # "closed"
  /\ IF Waiting THEN Trouble ELSE UNCHANGED <<trouble, calm>>
  /\ pc' = Closed
  /\ UNCHANGED <<mcu, toMcu, toPc>>

(* A damaged request is dropped by the COBS and CRC checks. *)
DamageRequest ==
  /\ Trouble
  /\ \E i \in DOMAIN toMcu : toMcu' = RemoveAt(toMcu, i)
  /\ UNCHANGED <<mcu, toPc, pc>>

(* A damaged answer is noticed by the client, a lost one is not. *)
DamageAnswer ==
  /\ Trouble
  /\ \E i \in DOMAIN toPc :
       \/ toPc' = RemoveAt(toPc, i)
       \/ toPc[i].cmd # "NOISE" /\ toPc' = [toPc EXCEPT ![i].cmd = "NOISE"]
  /\ UNCHANGED <<mcu, toMcu, pc>>

Boot == [state |-> "DOWN", keypair |-> FALSE, booting |-> TRUE, txn |-> None]

(* A reset forgets everything, with the frames that had arrived; the ones   *)
(* still on the line come after it.                                         *)
ResetMcu ==
  /\ Trouble
  /\ mcu' = Boot
  /\ \E n \in 0..Len(toMcu) : toMcu' = SubSeq(toMcu, n + 1, Len(toMcu))
  /\ UNCHANGED <<toPc, pc>>

(* full_contain_tiny_fault, between two commands: the supervisor's fault    *)
(* locks the controller and discards keys and the retained result.          *)
ContainFault ==
  /\ Trouble
  /\ mcu' = [mcu EXCEPT !.state = "DOWN", !.keypair = FALSE, !.txn = None]
  /\ UNCHANGED <<toMcu, toPc, pc>>

(* The start-up probe ends, however the Primers answered it. *)
StartupDone ==
  /\ mcu.booting
  /\ \E s \in {"READY", "DOWN"} : mcu' = [mcu EXCEPT !.booting = FALSE, !.state = s]
  /\ UNCHANGED <<toMcu, toPc, pc, calm, trouble>>

(* The periodic probe, while no result is retained.  No frame is queued in  *)
(* the firmware then, but one may be on the line.                           *)
PeriodicProbe ==
  /\ ~mcu.booting /\ mcu.txn = None
  /\ \E s \in ControllerStates : mcu' = [mcu EXCEPT !.state = s]
  /\ UNCHANGED <<toMcu, toPc, pc, calm, trouble>>

Init ==
  /\ mcu = Boot
  /\ toMcu = <<>> /\ toPc = <<>>
  /\ pc = Closed
  /\ calm = FALSE /\ trouble = 0

Next ==
  \/ HandleRequest \/ StartupDone \/ PeriodicProbe \/ OpenClient \/ Receive \/ TimeOut \/ CloseClient
  \/ \E op \in Ops : StartOp(op)
  \/ DamageRequest \/ DamageAnswer \/ ResetMcu \/ ContainFault

HostSpec == Init /\ [][Next]_vars

-----------------------------------------------------------------------------
(* Properties.                                                              *)

(* When a client is told that its command succeeded, and until it has       *)
(* retired the result, that result is the one of the last command the       *)
(* firmware executed: never the result of an older execution, however late  *)
(* its answer.  A process that finds no request on the line is always told  *)
(* so; one that follows a killed process may take a left-over answer with   *)
(* its own identifier for its own once three troubles come together.        *)
ResultCurrent ==
  pc.phase = "retire" /\ pc.outcome = "OK" /\ (pc.alone \/ trouble <= 2) => pc.current

(* A process that finds the line quiet and meets no trouble is not confused *)
(* by what earlier ones left behind: its operations do not time out, and    *)
(* every answer it reads is the one to its request.                         *)
UndisturbedUnderstood ==
  calm => pc.outcome \notin {"TimeoutError", "HostProtocolError", "RESULT_NOT_READY"}

(* A result that a lost process left behind refuses at most one operation   *)
(* of an undisturbed one: the error path of _retained_request retires it.   *)
RefusedAtMostOnce ==
  calm /\ pc.clean => pc.outcome \notin {"RESULT_PENDING", "TRANSACTION_CONFLICT"}

(* No retained result refuses an emergency_zeroize of a process that is     *)
(* alone, no older process's request being on the line when it opened the   *)
(* port, whatever is lost before or during it: the client's retirement and  *)
(* the firmware's discarding cover for each other.                          *)
EmergencyNeverBlocked ==
  pc.alone /\ EmergencyAll(pc.op)
    => pc.outcome \notin {"RESULT_PENDING", "TRANSACTION_CONFLICT"}
=============================================================================
