--------------------------- MODULE HostLinkProofs ---------------------------
(* The PC link for any number of payloads, identifiers, operations and      *)
(* troubles: a quiet line carries one frame of one exchange at a time, and  *)
(* the frames of a process that is alone on the line keep their order.      *)
EXTENDS HostLink, TLAPS

Phases == {"closed", "idle", "request", "query", "retire", "status", "clean", "preStatus", "preRetire"}

OpCommands == {op.cmd : op \in Ops}

ManagedCommands == OpCommands \ {"PING"}

Arguments == {op.arg : op \in Ops}

Retrievals == {"GET_TXN_RESULT", "RETIRE_TXN_RESULT"}

Refusals == {"RESULT_PENDING", "TRANSACTION_CONFLICT"}

AnswerCodes == {"OK", "FAILED", "BAD_STATE", "BUSY", "RESULT_NOT_READY"} \cup Refusals

Frames ==
  [cmd: OpCommands, id: Txids, arg: Arguments]
    \cup [cmd: Retrievals, id: Txids, arg: Txids]
    \cup [cmd: {"GET_SYSTEM_STATUS"}, id: Txids, arg: {None}]

FrameCommands == OpCommands \cup Retrievals \cup {"GET_SYSTEM_STATUS"}

AnswerData == {None} \cup Txids \cup Transactions

Answers == [cmd: FrameCommands \cup {"NOISE"}, id: Txids, code: AnswerCodes, data: AnswerData, current: BOOLEAN]

Firmwares == [state: ControllerStates, keypair: BOOLEAN, booting: BOOLEAN, txn: Transactions \cup {None}]

Outcomes == AnswerCodes \cup {"none", "TimeoutError", "HostProtocolError"}

Clients ==
  [phase: Phases, op: Ops, clean: BOOLEAN, next: Txids, id: Txids \cup {None}, host: Txids \cup {None},
   ops: Nat, current: BOOLEAN, outcome: Outcomes, alone: BOOLEAN]

(* The codes and data the handlers of the local commands answer with. *)
Answerable(r) ==
  /\ r.cmd = "PING" => r.code = "OK"
  /\ r.cmd = "GET_SYSTEM_STATUS" => r.code = "OK" /\ r.data \in Txids \cup {None}
  /\ r.cmd = "GET_TXN_RESULT" => r.code \in {"OK", "BUSY", "RESULT_NOT_READY"}
  /\ r.cmd = "RETIRE_TXN_RESULT" => r.code \in {"OK", "BUSY"}

HostTypeOK ==
  /\ mcu \in Firmwares /\ pc \in Clients
  /\ toMcu \in Seq(Frames) /\ toPc \in Seq(Answers)
  /\ calm \in BOOLEAN /\ trouble \in Nat
  /\ \A i \in 1..Len(toPc) : Answerable(toPc[i])
  /\ Waiting => pc.id \in Txids
  /\ pc.phase \in {"query", "retire"} => pc.host \in Txids

-----------------------------------------------------------------------------
(* An undisturbed process: one exchange at a time.                          *)

(* The result t is retained, under the identifier id. *)
Holds(t, id) == t # None /\ t.id = id

Retained(id) == Holds(mcu.txn, id)

(* It tells the client p of a success. *)
Succeeded(p, t, id) == Holds(t, id) /\ t.cmd = p.op.cmd /\ t.code = "OK"

(* The request q of the client p is on its way, and t is retained. *)
CalmRequest(p, t, q) ==
  /\ q.cmd = Awaited(p) /\ q.id = p.id
  /\ p.phase = "query" => q.arg = p.host /\ Succeeded(p, t, p.host)
  /\ p.phase \in {"retire", "clean", "preRetire"} => Holds(t, q.arg)
  /\ p.phase \in {"request", "preStatus"} /\ p.clean => t = None

(* The answer r to it is on its way. *)
CalmAnswer(p, t, r) ==
  /\ r.cmd = Awaited(p) /\ r.id = p.id
  /\ p.phase # "request" => r.code = "OK"
  /\ p.phase = "request" =>
       /\ r.code # "RESULT_NOT_READY"
       /\ r.code = "OK" /\ p.op.cmd # "PING" => Succeeded(p, t, r.id)
       /\ p.clean => r.code \notin Refusals
  /\ p.phase = "query" => r.data = t /\ Succeeded(p, t, p.host)
  /\ p.phase \in {"retire", "clean", "preRetire"} => t = None
  /\ p.phase \in {"status", "preStatus"} => r.data = IF t = None THEN None ELSE t.id
  /\ p.phase = "preStatus" /\ p.clean => t = None

CalmInv ==
  calm =>
    /\ ~mcu.booting
    /\ ~Waiting => toMcu = <<>> /\ toPc = <<>>
    /\ Waiting => \/ toPc = <<>> /\ Len(toMcu) = 1 /\ CalmRequest(pc, mcu.txn, toMcu[1])
                  \/ toMcu = <<>> /\ Len(toPc) = 1 /\ CalmAnswer(pc, mcu.txn, toPc[1])
    /\ pc.phase = "idle" /\ pc.ops > 0 /\ pc.op \in RetainedOps => mcu.txn = None
    /\ pc.outcome \notin {"TimeoutError", "HostProtocolError", "RESULT_NOT_READY"}
    /\ pc.clean => pc.outcome \notin Refusals

-----------------------------------------------------------------------------
(* A process alone on the line: its frames carry ever larger identifiers.   *)

(* Identifiers one operation may use, up to the phase it is in. *)
Used ==
  CASE pc.phase = "preStatus" -> 1
    [] pc.phase = "preRetire" -> 2
    [] pc.phase = "request" -> 3
    [] pc.phase \in {"query", "status"} -> 4
    [] OTHER -> 5

AloneInv ==
  pc.alone =>
    /\ pc.phase # "closed" /\ pc.ops <= MaxOps
    /\ pc.next + 5 <= 5 * pc.ops + Used + 1
    /\ Waiting => pc.id + 1 = pc.next /\ pc.ops > 0
    /\ \A i \in 1..Len(toMcu) : toMcu[i].id < pc.next
    /\ \A i, j \in 1..Len(toMcu) : i < j => toMcu[i].id < toMcu[j].id
    /\ \A i \in 1..Len(toPc) : toPc[i].id < pc.next
    /\ Waiting => \A i \in 1..Len(toMcu) :
         toMcu[i].id = pc.id => /\ toMcu[i].cmd = Awaited(pc)
                                /\ pc.phase = "request" => toMcu[i].arg = pc.op.arg
    /\ Waiting => \A i \in 1..Len(toPc) :
         toPc[i].id = pc.id =>
           /\ toMcu = <<>> /\ toPc[i].current
           /\ pc.phase = "request" /\ EmergencyAll(pc.op) => toPc[i].code \notin Refusals
    /\ pc.phase \in {"query", "retire"} => pc.current /\ \A i \in 1..Len(toMcu) : toMcu[i].id = pc.id
    /\ EmergencyAll(pc.op) => pc.outcome \notin Refusals

-----------------------------------------------------------------------------
(* Sequences.                                                               *)

(* A removed element leaves the others in their order. *)
LEMMA RemoveFacts ==
  ASSUME NEW S, NEW s \in Seq(S), NEW i \in 1..Len(s)
  PROVE  /\ RemoveAt(s, i) \in Seq(S) /\ Len(RemoveAt(s, i)) = Len(s) - 1
         /\ \A j \in 1..Len(s) - 1 : RemoveAt(s, i)[j] = IF j < i THEN s[j] ELSE s[j + 1]
<1> DEFINE a == SubSeq(s, 1, i - 1)
           b == SubSeq(s, i + 1, Len(s))
<1>1. Len(s) \in Nat /\ i \in Nat /\ 1 <= i /\ i <= Len(s)
  OBVIOUS
<1>2. a \in Seq(S) /\ Len(a) = i - 1 /\ \A j \in 1..i - 1 : a[j] = s[j]
  BY <1>1
<1>3. b \in Seq(S) /\ Len(b) = Len(s) - i /\ \A j \in 1..Len(s) - i : b[j] = s[i + j]
  BY <1>1
<1>4. RemoveAt(s, i) = a \o b
  BY DEF RemoveAt
<1> HIDE DEF a, b
<1>5. a \o b \in Seq(S) /\ Len(a \o b) = Len(s) - 1
  <2>1. a \o b \in Seq(S) /\ Len(a \o b) = Len(a) + Len(b)
    <3>1. \A x, y \in Seq(S) : x \o y \in Seq(S) /\ Len(x \o y) = Len(x) + Len(y)
      OBVIOUS
    <3> QED BY <1>2, <1>3, <3>1
  <2> QED BY <1>1, <1>2, <1>3, <2>1
<1>6. ASSUME NEW j \in 1..Len(s) - 1
      PROVE  (a \o b)[j] = IF j < i THEN s[j] ELSE s[j + 1]
  <2>1. CASE j < i
    BY <1>1, <1>2, <1>3, <2>1
  <2>2. CASE ~(j < i)
    <3>1. j - (i - 1) \in 1..Len(s) - i /\ i + (j - (i - 1)) = j + 1
      BY <1>1, <2>2
    <3>2. (a \o b)[j] = b[j - (i - 1)]
      BY <1>1, <1>2, <1>3, <2>2
    <3> QED BY <1>3, <2>2, <3>1, <3>2
  <2> QED BY <2>1, <2>2
<1> QED BY <1>4, <1>5, <1>6

(* The answers on the line after another command was executed. *)
Stale(s) == [i \in DOMAIN s |-> [s[i] EXCEPT !.current = FALSE]]

(* Only their mark changes. *)
LEMMA StaleFacts ==
  ASSUME NEW s \in Seq(Answers)
  PROVE  /\ Stale(s) \in Seq(Answers) /\ Len(Stale(s)) = Len(s)
         /\ \A i \in 1..Len(s) : /\ Stale(s)[i].cmd = s[i].cmd /\ Stale(s)[i].id = s[i].id
                                 /\ Stale(s)[i].code = s[i].code /\ Stale(s)[i].data = s[i].data
<1>1. DOMAIN s = 1..Len(s) /\ Len(s) \in Nat
  OBVIOUS
<1>2. ASSUME NEW i \in 1..Len(s)
      PROVE  /\ [s[i] EXCEPT !.current = FALSE] \in Answers
             /\ Stale(s)[i] = [s[i] EXCEPT !.current = FALSE]
             /\ [s[i] EXCEPT !.current = FALSE].cmd = s[i].cmd
             /\ [s[i] EXCEPT !.current = FALSE].id = s[i].id
             /\ [s[i] EXCEPT !.current = FALSE].code = s[i].code
             /\ [s[i] EXCEPT !.current = FALSE].data = s[i].data
  <2>1. s[i] \in Answers /\ FALSE \in BOOLEAN
    OBVIOUS
  <2> QED BY <1>1, <2>1 DEF Answers, Stale
<1>3. Stale(s) \in [1..Len(s) -> Answers]
  BY <1>1, <1>2 DEF Stale
<1>4. Stale(s) \in Seq(Answers)
  BY <1>1, <1>3
<1>5. Len(Stale(s)) = Len(s)
  BY <1>1, <1>3, <1>4
<1> QED BY <1>2, <1>4, <1>5

-----------------------------------------------------------------------------
(* The firmware.                                                            *)

(* The commands and arguments of the operations. *)
LEMMA OpFacts ==
  /\ \A c \in OpCommands :
       c \in {"GENERATE_KEYPAIR", "CREATE_SESSION", "SEND_ONE_TELEMETRY", "CLOSE_SESSION",
             "ZEROIZE_SYSTEM", "RUN_SELF_TEST", "PING"}
  /\ \A op \in Ops : op.cmd \in OpCommands /\ op.arg \in Arguments
  /\ \A op \in RetainedOps : op \in Ops /\ op.cmd # "PING"
<1>1. ASSUME NEW op \in Ops
      PROVE  op.cmd \in {"GENERATE_KEYPAIR", "CREATE_SESSION", "SEND_ONE_TELEMETRY", "CLOSE_SESSION",
                         "ZEROIZE_SYSTEM", "RUN_SELF_TEST", "PING"}
  BY DEF Ops, RetainedOps
<1>2. \A op \in Ops : op.cmd \in OpCommands /\ op.arg \in Arguments
  BY DEF OpCommands, Arguments
<1>3. \A op \in RetainedOps : op \in Ops /\ op.cmd # "PING"
  BY DEF Ops, RetainedOps
<1> QED BY <1>1, <1>2, <1>3 DEF OpCommands

(* The handler answers and executes nothing. *)
Replied(q, code, data) == toPc' = Append(toPc, Reply(q, code, data)) /\ pc' = pc

(* What an answer without an execution tells. *)
Told(q, code, data) ==
  /\ code \in AnswerCodes /\ data \in AnswerData
  /\ code = "BUSY" => mcu.booting
  /\ q.cmd = "PING" => code = "OK"
  /\ q.cmd = "GET_SYSTEM_STATUS" => code = "OK" /\ data = IF mcu.txn = None THEN None ELSE mcu.txn.id
  /\ q.cmd = "GET_TXN_RESULT" =>
       /\ code \in {"OK", "BUSY", "RESULT_NOT_READY"}
       /\ Retained(q.arg) => code # "RESULT_NOT_READY" /\ (code = "OK" => data = mcu.txn)
  /\ q.cmd = "RETIRE_TXN_RESULT" => code \in {"OK", "BUSY"} /\ (code = "OK" => ~Retained(q.arg))
  /\ q.cmd \in ManagedCommands =>
       /\ code # "RESULT_NOT_READY"
       /\ code = "OK" => mcu.txn # None /\ SameRequest(mcu.txn, q) /\ mcu.txn.code = "OK"
       /\ code \in Refusals => mcu.txn # None /\ ~EmergencyAll(q)

(* A managed command was executed, and its result is the retained one. *)
Executed(q, code) ==
  /\ q.cmd \in ManagedCommands /\ code \in {"OK", "FAILED"}
  /\ mcu' \in Firmwares /\ mcu'.booting = mcu.booting
  /\ mcu'.txn = [id |-> q.id, cmd |-> q.cmd, arg |-> q.arg, code |-> code]
  /\ toPc' = Append(Stale(toPc), Reply(q, code, None))
  /\ pc' = [pc EXCEPT !.current = FALSE]

(* A result was retired. *)
Retired(q) ==
  /\ q.cmd = "RETIRE_TXN_RESULT" /\ Retained(q.arg)
  /\ mcu' \in Firmwares /\ mcu'.booting = mcu.booting /\ mcu'.txn = None
  /\ Replied(q, "OK", None)

Handled(q) ==
  \/ mcu' = mcu /\ \E code, data : Told(q, code, data) /\ Replied(q, code, data)
  \/ Retired(q)
  \/ \E code : Executed(q, code)

ManagedFrames == {q \in Frames : q.cmd \in ManagedCommands}

(* The frame of a managed command carries an argument of an operation. *)
LEMMA ManagedFacts ==
  ASSUME NEW q \in ManagedFrames
  PROVE  /\ q \in Frames /\ q.cmd \in ManagedCommands /\ q.id \in Txids /\ q.arg \in Arguments
         /\ q.cmd \in {"GENERATE_KEYPAIR", "CREATE_SESSION", "SEND_ONE_TELEMETRY", "CLOSE_SESSION",
                       "ZEROIZE_SYSTEM", "RUN_SELF_TEST"}
<1>1. q \in Frames /\ q.cmd \in OpCommands /\ q.cmd # "PING"
  BY DEF ManagedFrames, ManagedCommands
<1>2. q.cmd \in {"GENERATE_KEYPAIR", "CREATE_SESSION", "SEND_ONE_TELEMETRY", "CLOSE_SESSION",
                 "ZEROIZE_SYSTEM", "RUN_SELF_TEST"}
  BY <1>1, OpFacts
<1>3. q.cmd \notin Retrievals \cup {"GET_SYSTEM_STATUS"}
  BY <1>2 DEF Retrievals
<1> QED BY <1>1, <1>2, <1>3 DEF Frames, ManagedCommands

(* Execute. *)
LEMMA ExecuteSound ==
  ASSUME NEW q \in ManagedFrames, NEW code \in {"OK", "FAILED"}, NEW m \in Firmwares,
         m.booting = mcu.booting, Execute(q, code, m)
  PROVE  Executed(q, code)
<1> DEFINE t == [id |-> q.id, cmd |-> q.cmd, arg |-> q.arg, code |-> code]
<1>1. t \in Transactions
  BY ManagedFacts DEF Transactions, ManagedCommands, OpCommands, Arguments
<1>2. mcu' = [m EXCEPT !.txn = t]
  BY DEF Execute
<1> HIDE DEF t
<1>3. mcu' \in Firmwares /\ mcu'.booting = m.booting /\ mcu'.txn = t
  BY <1>1, <1>2 DEF Firmwares
<1> QED BY <1>3, ManagedFacts DEF Executed, Execute, Stale, t

(* Fails. *)
LEMMA FailsSound ==
  ASSUME NEW q \in ManagedFrames, NEW m \in Firmwares, m.booting = mcu.booting, Fails(q, m)
  PROVE  Executed(q, "FAILED")
<1>1. PICK s \in ControllerStates : Execute(q, "FAILED", [m EXCEPT !.state = s])
  BY DEF Fails
<1> DEFINE w == [m EXCEPT !.state = s]
<1>2. w \in Firmwares /\ w.booting = mcu.booting
  BY DEF Firmwares
<1> QED BY <1>1, <1>2, ExecuteSound

(* Runs. *)
LEMMA RunsSound ==
  ASSUME NEW q \in ManagedFrames, NEW m \in Firmwares, m.booting = mcu.booting, Runs(q, m)
  PROVE  Handled(q)
BY ExecuteSound, FailsSound DEF Runs, Handled

(* An answer that only tells. *)
LEMMA AnswerHandled ==
  ASSUME NEW q, NEW code, NEW data, Told(q, code, data), Answer(q, code, data)
  PROVE  Handled(q)
BY DEF Answer, Handled, Replied

(* A retained result refuses a new command, or answers for it. *)
LEMMA RefuseSound ==
  ASSUME HostTypeOK, NEW q \in ManagedFrames, mcu.txn # None, ~EmergencyAll(q), Refuse(q)
  PROVE  Handled(q)
<1> DEFINE code == CASE SameRequest(mcu.txn, q) -> mcu.txn.code
                     [] mcu.txn.id # q.id -> "RESULT_PENDING"
                     [] OTHER -> "TRANSACTION_CONFLICT"
<1>1. mcu.txn.code \in {"OK", "FAILED"}
  BY DEF HostTypeOK, Firmwares, Transactions
<1>2. \/ SameRequest(mcu.txn, q) /\ code = mcu.txn.code
      \/ code \in Refusals
  BY DEF Refusals, SameRequest
<1>3. Answer(q, code, None)
  BY DEF Refuse
<1> HIDE DEF code
<1>4. /\ code \in AnswerCodes /\ None \in AnswerData /\ code # "BUSY" /\ code # "RESULT_NOT_READY"
      /\ code = "OK" => SameRequest(mcu.txn, q) /\ mcu.txn.code = "OK"
  BY <1>1, <1>2 DEF AnswerCodes, AnswerData, Refusals
<1>5. Told(q, code, None)
  BY <1>4, ManagedFacts DEF Told
<1> QED BY <1>3, <1>5, AnswerHandled

(* managed_transaction_begin. *)
LEMMA ManagedSound ==
  ASSUME HostTypeOK, NEW q \in ManagedFrames, NEW m \in Firmwares, m.booting = mcu.booting,
         ~EmergencyAll(q), ManagedCommand(q, m)
  PROVE  Handled(q)
BY RefuseSound, RunsSound DEF ManagedCommand

(* A command the state does not admit. *)
LEMMA BadStateSound ==
  ASSUME NEW q \in ManagedFrames, BadState(q)
  PROVE  Handled(q)
<1>1. "BAD_STATE" \in AnswerCodes /\ None \in AnswerData /\ "BAD_STATE" \notin Refusals
  BY DEF AnswerCodes, AnswerData, Refusals
<1>2. Told(q, "BAD_STATE", None)
  BY <1>1, ManagedFacts DEF Told
<1> QED BY <1>2, AnswerHandled DEF BadState

(* Every handler answers, retires or executes. *)
LEMMA DispatchSound ==
  ASSUME HostTypeOK, NEW q \in Frames, Dispatch(q)
  PROVE  Handled(q)
<1>0. mcu \in Firmwares /\ mcu.txn \in Transactions \cup {None} /\ mcu.booting \in BOOLEAN
  BY DEF HostTypeOK, Firmwares
<1>1. CASE mcu.booting /\ q.cmd \notin Local /\ HandleBusy(q)
  <2>1. "BUSY" \in AnswerCodes /\ None \in AnswerData /\ "BUSY" \notin Refusals
    BY DEF AnswerCodes, AnswerData, Refusals
  <2>2. Told(q, "BUSY", None)
    BY <1>1, <2>1 DEF Told, Local
  <2> QED BY <1>1, <2>2, AnswerHandled DEF HandleBusy
<1>2. CASE q.cmd = "PING" /\ HandlePing(q)
  <2>1. "OK" \in AnswerCodes /\ None \in AnswerData /\ "PING" \notin ManagedCommands
    BY DEF AnswerCodes, AnswerData, ManagedCommands
  <2>2. Told(q, "OK", None)
    BY <1>2, <2>1 DEF Told
  <2> QED BY <1>2, <2>2, AnswerHandled DEF HandlePing
<1>3. CASE q.cmd = "GET_SYSTEM_STATUS" /\ HandleStatus(q)
  <2> DEFINE data == IF mcu.txn = None THEN None ELSE mcu.txn.id
  <2>1. "OK" \in AnswerCodes /\ data \in AnswerData /\ "GET_SYSTEM_STATUS" \notin ManagedCommands
    BY <1>0, OpFacts DEF AnswerCodes, AnswerData, Transactions, ManagedCommands
  <2>2. Told(q, "OK", data)
    BY <1>3, <2>1 DEF Told
  <2> QED BY <1>3, <2>2, AnswerHandled DEF HandleStatus
<1>4. CASE q.cmd = "GET_TXN_RESULT" /\ HandleGet(q)
  <2>1. /\ "OK" \in AnswerCodes /\ "RESULT_NOT_READY" \in AnswerCodes /\ None \in AnswerData
        /\ mcu.txn \in AnswerData /\ "GET_TXN_RESULT" \notin ManagedCommands
    BY <1>0, OpFacts DEF AnswerCodes, AnswerData, ManagedCommands
  <2>2. CASE Retained(q.arg)
    <3>1. Told(q, "OK", mcu.txn)
      BY <1>4, <2>1 DEF Told
    <3> QED BY <1>4, <2>2, <3>1, AnswerHandled DEF HandleGet, Retained, Holds
  <2>3. CASE ~Retained(q.arg)
    <3>1. Told(q, "RESULT_NOT_READY", None)
      BY <1>4, <2>1, <2>3 DEF Told
    <3> QED BY <1>4, <2>3, <3>1, AnswerHandled DEF HandleGet, Retained, Holds
  <2> QED BY <2>2, <2>3
<1>5. CASE q.cmd = "RETIRE_TXN_RESULT" /\ HandleRetire(q)
  <2>1. /\ "OK" \in AnswerCodes /\ None \in AnswerData /\ "RETIRE_TXN_RESULT" \notin ManagedCommands
    BY OpFacts DEF AnswerCodes, AnswerData, ManagedCommands
  <2>2. CASE Retained(q.arg)
    <3>1. PICK s \in ControllerStates : mcu' = [mcu EXCEPT !.txn = None, !.state = s]
      BY <1>5, <2>2 DEF HandleRetire, Retained, Holds
    <3>2. mcu' \in Firmwares /\ mcu'.booting = mcu.booting /\ mcu'.txn = None
      BY <1>0, <3>1 DEF Firmwares
    <3>3. Replied(q, "OK", None)
      BY <1>5, <2>2 DEF HandleRetire, Retained, Holds, Replied
    <3> QED BY <1>5, <2>2, <3>2, <3>3 DEF Handled, Retired
  <2>3. CASE ~Retained(q.arg)
    <3>1. Told(q, "OK", None)
      BY <1>5, <2>1, <2>3 DEF Told
    <3> QED BY <1>5, <2>3, <3>1, AnswerHandled DEF HandleRetire, Retained, Holds
  <2> QED BY <2>2, <2>3
<1>6. CASE q.cmd = "RUN_SELF_TEST" /\ HandleSelfTest(q)
  <2>1. PICK s \in {mcu.state, "READY"} : ManagedCommand(q, [mcu EXCEPT !.state = s])
    BY <1>6 DEF HandleSelfTest
  <2> DEFINE m == [mcu EXCEPT !.state = s]
  <2>2. m \in Firmwares /\ m.booting = mcu.booting
    BY <1>0 DEF Firmwares, ControllerStates
  <2>3. q \in ManagedFrames /\ ~EmergencyAll(q)
    BY <1>6, OpFacts DEF ManagedFrames, ManagedCommands, Frames, Retrievals, EmergencyAll
  <2> QED BY <2>1, <2>2, <2>3, ManagedSound
<1>7. CASE q.cmd = "GENERATE_KEYPAIR" /\ HandleGenerate(q)
  <2>1. q \in ManagedFrames /\ ~EmergencyAll(q)
    BY <1>7, OpFacts DEF ManagedFrames, ManagedCommands, Frames, Retrievals, EmergencyAll
  <2>2. CASE mcu.state # "READY"
    BY <1>7, <2>1, <2>2, BadStateSound DEF HandleGenerate
  <2>3. CASE mcu.state = "READY" /\ mcu.txn # None
    BY <1>7, <2>1, <2>3, RefuseSound DEF HandleGenerate
  <2>4. CASE mcu.state = "READY" /\ mcu.txn = None
    <3>1. PICK k \in BOOLEAN : \/ Execute(q, "OK", [mcu EXCEPT !.keypair = k])
                               \/ Fails(q, [mcu EXCEPT !.keypair = k])
      BY <1>7, <2>4 DEF HandleGenerate
    <3> DEFINE m == [mcu EXCEPT !.keypair = k]
    <3>2. m \in Firmwares /\ m.booting = mcu.booting
      BY <1>0 DEF Firmwares
    <3>3. Runs(q, m)
      BY <3>1 DEF Runs
    <3> QED BY <2>1, <3>2, <3>3, RunsSound
  <2> QED BY <2>2, <2>3, <2>4
<1>8. CASE q.cmd = "CREATE_SESSION" /\ HandleCreate(q)
  <2> DEFINE m == [mcu EXCEPT !.state = "ACTIVE"]
  <2>1. q \in ManagedFrames /\ ~EmergencyAll(q)
    BY <1>8, OpFacts DEF ManagedFrames, ManagedCommands, Frames, Retrievals, EmergencyAll
  <2>2. m \in Firmwares /\ m.booting = mcu.booting
    BY <1>0 DEF Firmwares, ControllerStates
  <2>3. BadState(q) \/ ManagedCommand(q, m)
    BY <1>8 DEF HandleCreate
  <2> QED BY <2>1, <2>2, <2>3, ManagedSound, BadStateSound
<1>9. CASE q.cmd = "CLOSE_SESSION" /\ HandleClose(q)
  <2> DEFINE m == [mcu EXCEPT !.state = "READY"]
  <2>1. q \in ManagedFrames /\ ~EmergencyAll(q)
    BY <1>9, OpFacts DEF ManagedFrames, ManagedCommands, Frames, Retrievals, EmergencyAll
  <2>2. m \in Firmwares /\ m.booting = mcu.booting
    BY <1>0 DEF Firmwares, ControllerStates
  <2> QED BY <1>9, <2>1, <2>2, ManagedSound DEF HandleClose
<1>10. CASE q.cmd = "ZEROIZE_SYSTEM" /\ HandleZeroize(q)
  <2> DEFINE k == mcu.keypair /\ ~EmergencyAll(q)
             m == [mcu EXCEPT !.state = "READY", !.keypair = k]
  <2>1. q \in ManagedFrames
    BY <1>10, OpFacts DEF ManagedFrames, ManagedCommands, Frames, Retrievals
  <2>2. k \in BOOLEAN
    OBVIOUS
  <2>3. IF EmergencyAll(q) THEN Runs(q, m) ELSE ManagedCommand(q, m)
    BY <1>10 DEF HandleZeroize
  <2> HIDE DEF k
  <2>4. m \in Firmwares /\ m.booting = mcu.booting
    BY <1>0, <2>2 DEF Firmwares, ControllerStates
  <2> HIDE DEF m
  <2> QED BY <2>1, <2>3, <2>4, ManagedSound, RunsSound
<1>11. CASE q.cmd = "SEND_ONE_TELEMETRY" /\ HandleSend(q)
  <2>1. q \in ManagedFrames /\ ~EmergencyAll(q)
    BY <1>11, OpFacts DEF ManagedFrames, ManagedCommands, Frames, Retrievals, EmergencyAll
  <2>2. ManagedCommand(q, mcu) \/ Fails(q, mcu)
    BY <1>11 DEF HandleSend
  <2> QED BY <1>0, <2>1, <2>2, ManagedSound, FailsSound DEF Handled
<1> QED BY <1>1, <1>2, <1>3, <1>4, <1>5, <1>6, <1>7, <1>8, <1>9, <1>10, <1>11 DEF Dispatch

-----------------------------------------------------------------------------
(* The client.                                                              *)

(* The operation goes on with a request in a new phase. *)
Sent(phase, cmd, arg, outcome, host, current) ==
  /\ pc' \in Clients /\ pc'.phase = phase /\ pc'.id = pc.next /\ pc'.next = (pc.next % MaxTxid) + 1
  /\ pc'.outcome = outcome /\ pc'.host = host /\ pc'.current = current
  /\ pc'.op = pc.op /\ pc'.clean = pc.clean /\ pc'.ops = pc.ops /\ pc'.alone = pc.alone
  /\ [cmd |-> cmd, id |-> pc.next, arg |-> arg] \in Frames
  /\ toMcu' = Append(toMcu, [cmd |-> cmd, id |-> pc.next, arg |-> arg])

(* The operation has ended. *)
Finished(outcome) ==
  /\ pc' \in Clients /\ pc'.phase = "idle" /\ pc'.outcome = outcome /\ pc'.next = pc.next
  /\ pc'.op = pc.op /\ pc'.clean = pc.clean /\ pc'.ops = pc.ops /\ pc'.alone = pc.alone
  /\ toMcu' = toMcu

(* An exception in the present phase. *)
Raised(what) ==
  \/ pc.phase \in {"status", "clean"} /\ Finished(pc.outcome)
  \/ pc.phase \in {"preStatus", "preRetire"}
     /\ Sent("request", pc.op.cmd, pc.op.arg, pc.outcome, pc.host, pc.current)
  \/ pc.phase \in {"request", "query", "retire"} /\ Finished(what)

(* Identifiers wrap round in their range. *)
LEMMA NextTxid == \A n \in Txids : (n % MaxTxid) + 1 \in Txids /\ (n < MaxTxid => (n % MaxTxid) + 1 = n + 1)
BY HostAssumption DEF HostAssumption, Txids

(* A client p that goes on with a request. *)
Onward(p, phase) ==
  /\ pc' \in Clients /\ pc'.phase = phase /\ pc'.id = p.next /\ pc'.next = (p.next % MaxTxid) + 1
  /\ pc'.outcome = p.outcome /\ pc'.host = p.host /\ pc'.current = p.current
  /\ pc'.op = p.op /\ pc'.clean = p.clean /\ pc'.ops = p.ops /\ pc'.alone = p.alone

(* request. *)
LEMMA SendOnward ==
  ASSUME NEW p \in Clients, NEW phase \in Phases, NEW cmd, NEW arg, Send(p, phase, cmd, arg)
  PROVE  Onward(p, phase)
<1> DEFINE i == p.next
           n == (i % MaxTxid) + 1
<1>1. i \in Txids
  BY DEF Clients
<1>2. n \in Txids
  BY <1>1, NextTxid
<1>3. pc' = [p EXCEPT !.phase = phase, !.id = i, !.next = n]
  BY DEF Send
<1> HIDE DEF i, n
<1>4. /\ pc' \in Clients /\ pc'.phase = phase /\ pc'.id = i /\ pc'.next = n
      /\ pc'.outcome = p.outcome /\ pc'.host = p.host /\ pc'.current = p.current
      /\ pc'.op = p.op /\ pc'.clean = p.clean /\ pc'.ops = p.ops /\ pc'.alone = p.alone
  BY <1>1, <1>2, <1>3 DEF Clients
<1> QED BY <1>4 DEF Onward, i, n

(* A client that differs from the present one in what an answer tells it. *)
Informed(p, outcome, host, current) ==
  /\ p \in Clients /\ p.next = pc.next /\ p.op = pc.op /\ p.clean = pc.clean /\ p.ops = pc.ops
  /\ p.alone = pc.alone /\ p.outcome = outcome /\ p.host = host /\ p.current = current

(* Such a client sends its request. *)
LEMMA SendSound ==
  ASSUME NEW p, NEW phase \in Phases, NEW cmd, NEW arg, NEW outcome, NEW host, NEW current,
         Informed(p, outcome, host, current), [cmd |-> cmd, id |-> pc.next, arg |-> arg] \in Frames,
         Send(p, phase, cmd, arg)
  PROVE  Sent(phase, cmd, arg, outcome, host, current)
<1>1. p \in Clients /\ p.next = pc.next
  BY DEF Informed
<1>2. Onward(p, phase)
  BY <1>1, SendOnward
<1>3. toMcu' = Append(toMcu, [cmd |-> cmd, id |-> pc.next, arg |-> arg])
  BY <1>1 DEF Send
<1> QED BY <1>2, <1>3 DEF Sent, Onward, Informed

(* The return of an operation. *)
LEMMA DoneSound ==
  ASSUME HostTypeOK, NEW outcome \in Outcomes, Done(pc, outcome)
  PROVE  Finished(outcome)
<1>1. pc \in Clients /\ toMcu' = toMcu
  BY DEF HostTypeOK, Done
<1>2. pc' = [pc EXCEPT !.phase = "idle", !.outcome = outcome, !.id = None, !.host = None, !.current = FALSE]
  BY DEF Done
<1> QED BY <1>1, <1>2 DEF Finished, Clients, Phases

(* The frame of the operation itself. *)
LEMMA OpFrame ==
  ASSUME HostTypeOK
  PROVE  [cmd |-> pc.op.cmd, id |-> pc.next, arg |-> pc.op.arg] \in Frames
<1>1. pc.op \in Ops /\ pc.next \in Txids
  BY DEF HostTypeOK, Clients
<1> QED BY <1>1, OpFacts DEF Frames

(* Frames of the client's own making. *)
LEMMA OwnFrames ==
  ASSUME HostTypeOK
  PROVE  /\ [cmd |-> "GET_SYSTEM_STATUS", id |-> pc.next, arg |-> None] \in Frames
         /\ \A x \in Txids : /\ [cmd |-> "GET_TXN_RESULT", id |-> pc.next, arg |-> x] \in Frames
                             /\ [cmd |-> "RETIRE_TXN_RESULT", id |-> pc.next, arg |-> x] \in Frames
<1>1. pc.next \in Txids
  BY DEF HostTypeOK, Clients
<1> QED BY <1>1 DEF Frames, Retrievals

(* A client as it is. *)
LEMMA SameClient ==
  ASSUME HostTypeOK
  PROVE  /\ Informed(pc, pc.outcome, pc.host, pc.current)
         /\ pc.outcome \in Outcomes /\ pc.host \in Txids \cup {None} /\ pc.current \in BOOLEAN
         /\ pc.phase \in Phases /\ pc.op \in Ops /\ pc.next \in Txids
BY DEF HostTypeOK, Clients, Informed

(* The command itself is sent. *)
LEMMA SendOp ==
  ASSUME HostTypeOK, Send(pc, "request", pc.op.cmd, pc.op.arg)
  PROVE  Sent("request", pc.op.cmd, pc.op.arg, pc.outcome, pc.host, pc.current)
<1>1. Informed(pc, pc.outcome, pc.host, pc.current) /\ "request" \in Phases
  BY SameClient DEF Phases
<1>2. [cmd |-> pc.op.cmd, id |-> pc.next, arg |-> pc.op.arg] \in Frames
  BY OpFrame
<1> QED BY <1>1, <1>2, SendSound

(* An exception ends the operation or goes on with it. *)
LEMMA RaiseSound ==
  ASSUME HostTypeOK, Waiting, NEW what \in Outcomes, Raise(pc, what)
  PROVE  Raised(what)
<1>1. pc.phase \in {"request", "query", "retire", "status", "clean", "preStatus", "preRetire"}
  BY SameClient DEF Waiting, Phases
<1>2. CASE pc.phase \in {"status", "clean"}
  BY <1>2, SameClient, DoneSound DEF Raise, Raised
<1>3. CASE pc.phase \in {"preStatus", "preRetire"}
  BY <1>3, SendOp DEF Raise, Raised
<1>4. CASE pc.phase \in {"request", "query", "retire"}
  BY <1>4, DoneSound DEF Raise, Raised
<1> QED BY <1>1, <1>2, <1>3, <1>4

(* What the client makes of the answer r. *)
Reaction(r) ==
  \/ ~Correlated(r) /\ Raised("HostProtocolError")
  \/ /\ Correlated(r) /\ r.code # "OK" /\ pc.phase = "request" /\ pc.op \in RetainedOps
     /\ Sent("status", "GET_SYSTEM_STATUS", None, r.code, pc.host, pc.current)
  \/ /\ Correlated(r) /\ r.code # "OK" /\ ~(pc.phase = "request" /\ pc.op \in RetainedOps)
     /\ Raised(r.code)
  \/ /\ Correlated(r) /\ r.code = "OK" /\ pc.phase = "request" /\ pc.op.cmd = "PING"
     /\ Finished("OK")
  \/ /\ Correlated(r) /\ r.code = "OK" /\ pc.phase = "request" /\ pc.op.cmd # "PING"
     /\ Sent("query", "GET_TXN_RESULT", r.id, pc.outcome, r.id, r.current)
  \/ /\ Correlated(r) /\ r.code = "OK" /\ pc.phase = "query" /\ (Verified(r) \/ pc.op \in RetainedOps)
     /\ Sent("retire", "RETIRE_TXN_RESULT", pc.host, IF Verified(r) THEN "OK" ELSE "HostProtocolError",
             pc.host, pc.current)
  \/ /\ Correlated(r) /\ r.code = "OK" /\ pc.phase = "query" /\ ~Verified(r) /\ pc.op \notin RetainedOps
     /\ Finished("HostProtocolError")
  \/ /\ Correlated(r) /\ r.code = "OK" /\ pc.phase = "status" /\ r.data = None
     /\ Finished(pc.outcome)
  \/ /\ Correlated(r) /\ r.code = "OK" /\ pc.phase = "preStatus" /\ r.data = None
     /\ Sent("request", pc.op.cmd, pc.op.arg, pc.outcome, pc.host, pc.current)
  \/ /\ Correlated(r) /\ r.code = "OK" /\ pc.phase = "status" /\ r.data # None
     /\ Sent("clean", "RETIRE_TXN_RESULT", r.data, pc.outcome, pc.host, pc.current)
  \/ /\ Correlated(r) /\ r.code = "OK" /\ pc.phase = "preStatus" /\ r.data # None
     /\ Sent("preRetire", "RETIRE_TXN_RESULT", r.data, pc.outcome, pc.host, pc.current)
  \/ /\ Correlated(r) /\ r.code = "OK" /\ pc.phase \in {"retire", "clean"}
     /\ Finished(pc.outcome)
  \/ /\ Correlated(r) /\ r.code = "OK" /\ pc.phase = "preRetire"
     /\ Sent("request", pc.op.cmd, pc.op.arg, pc.outcome, pc.host, pc.current)

(* The answer is judged by its correlation, its code and the phase. *)
LEMMA ReactionSound ==
  ASSUME HostTypeOK, Waiting, NEW r \in Answers, Answerable(r),
         IF ~Correlated(r) THEN Raise(pc, "HostProtocolError")
         ELSE IF r.code # "OK" THEN RemoteError(r)
         ELSE Received(r)
  PROVE  Reaction(r)
<1>6. pc.phase \in {"request", "query", "retire", "status", "clean", "preStatus", "preRetire"}
  BY SameClient DEF Waiting, Phases
<1>7. r.code \in Outcomes /\ r.id \in Txids /\ r.current \in BOOLEAN /\ {"OK", "HostProtocolError"} \subseteq Outcomes
  BY DEF Answers, Outcomes, AnswerCodes
<1>8. CASE ~Correlated(r)
  BY <1>7, <1>8, RaiseSound DEF Reaction
<1>9. CASE Correlated(r) /\ r.code # "OK" /\ pc.phase = "request" /\ pc.op \in RetainedOps
  <2>1. Send([pc EXCEPT !.outcome = r.code], "status", "GET_SYSTEM_STATUS", None)
    BY <1>9 DEF RemoteError
  <2>2. Informed([pc EXCEPT !.outcome = r.code], r.code, pc.host, pc.current)
    BY <1>7 DEF HostTypeOK, Clients, Informed
  <2>3. Sent("status", "GET_SYSTEM_STATUS", None, r.code, pc.host, pc.current)
    BY <1>7, <2>1, <2>2, SameClient, OwnFrames, SendSound DEF Phases
  <2> QED BY <1>9, <2>3 DEF Reaction
<1>10. CASE Correlated(r) /\ r.code # "OK" /\ ~(pc.phase = "request" /\ pc.op \in RetainedOps)
  BY <1>7, <1>10, RaiseSound DEF RemoteError, Reaction
<1>11. CASE Correlated(r) /\ r.code = "OK" /\ pc.phase = "request"
  <2>1. Answered(r)
    BY <1>11 DEF Received
  <2>2. CASE pc.op.cmd = "PING"
    BY <1>7, <1>11, <2>1, <2>2, DoneSound DEF Answered, Reaction
  <2>3. CASE pc.op.cmd # "PING"
    <3>1. Send([pc EXCEPT !.host = r.id, !.current = r.current], "query", "GET_TXN_RESULT", r.id)
      BY <2>1, <2>3 DEF Answered
    <3>2. Informed([pc EXCEPT !.host = r.id, !.current = r.current], pc.outcome, r.id, r.current)
      BY <1>7 DEF HostTypeOK, Clients, Informed
    <3>3. Sent("query", "GET_TXN_RESULT", r.id, pc.outcome, r.id, r.current)
      BY <1>7, <3>1, <3>2, SameClient, OwnFrames, SendSound DEF Phases
    <3> QED BY <1>11, <2>3, <3>3 DEF Reaction
  <2> QED BY <2>2, <2>3
<1>12. CASE Correlated(r) /\ r.code = "OK" /\ pc.phase = "query"
  <2> DEFINE outcome == IF Verified(r) THEN "OK" ELSE "HostProtocolError"
  <2>1. Fetched(r) /\ pc.host \in Txids /\ outcome \in Outcomes
    BY <1>7, <1>12 DEF Received, HostTypeOK
  <2>2. CASE Verified(r) \/ pc.op \in RetainedOps
    <3>1. Send([pc EXCEPT !.outcome = outcome], "retire", "RETIRE_TXN_RESULT", pc.host)
      BY <2>1, <2>2 DEF Fetched
    <3> HIDE DEF outcome
    <3>2. Informed([pc EXCEPT !.outcome = outcome], outcome, pc.host, pc.current)
      BY <2>1 DEF HostTypeOK, Clients, Informed
    <3>3. Sent("retire", "RETIRE_TXN_RESULT", pc.host, outcome, pc.host, pc.current)
      BY <2>1, <3>1, <3>2, SameClient, OwnFrames, SendSound DEF Phases
    <3> QED BY <1>12, <2>2, <3>3 DEF Reaction, outcome
  <2>3. CASE ~(Verified(r) \/ pc.op \in RetainedOps)
    <3>1. Done(pc, "HostProtocolError")
      BY <2>1, <2>3 DEF Fetched
    <3> QED BY <1>7, <1>12, <2>3, <3>1, DoneSound DEF Reaction
  <2> QED BY <2>2, <2>3
<1>13. CASE Correlated(r) /\ r.code = "OK" /\ pc.phase = "status"
  <2>1. StatusKnown(r, "clean") /\ r.data \in Txids \cup {None}
    BY <1>13 DEF Received, Answerable, Correlated, Awaited
  <2>2. CASE r.data = None
    <3>1. Done(pc, pc.outcome)
      BY <1>13, <2>1, <2>2 DEF StatusKnown, Raise
    <3> QED BY <1>13, <2>2, <3>1, SameClient, DoneSound DEF Reaction
  <2>3. CASE r.data # None
    <3>1. Send(pc, "clean", "RETIRE_TXN_RESULT", r.data)
      BY <2>1, <2>3 DEF StatusKnown
    <3>2. Sent("clean", "RETIRE_TXN_RESULT", r.data, pc.outcome, pc.host, pc.current)
      BY <2>1, <2>3, <3>1, SameClient, OwnFrames, SendSound DEF Phases
    <3> QED BY <1>13, <2>3, <3>2 DEF Reaction
  <2> QED BY <2>2, <2>3
<1>14. CASE Correlated(r) /\ r.code = "OK" /\ pc.phase = "preStatus"
  <2>1. StatusKnown(r, "preRetire") /\ r.data \in Txids \cup {None}
    BY <1>14 DEF Received, Answerable, Correlated, Awaited
  <2>2. CASE r.data = None
    <3>1. Send(pc, "request", pc.op.cmd, pc.op.arg)
      BY <1>14, <2>1, <2>2 DEF StatusKnown, Raise
    <3> QED BY <1>14, <2>2, <3>1, SendOp DEF Reaction
  <2>3. CASE r.data # None
    <3>1. Send(pc, "preRetire", "RETIRE_TXN_RESULT", r.data)
      BY <2>1, <2>3 DEF StatusKnown
    <3>2. Sent("preRetire", "RETIRE_TXN_RESULT", r.data, pc.outcome, pc.host, pc.current)
      BY <2>1, <2>3, <3>1, SameClient, OwnFrames, SendSound DEF Phases
    <3> QED BY <1>14, <2>3, <3>2 DEF Reaction
  <2> QED BY <2>2, <2>3
<1>15. CASE Correlated(r) /\ r.code = "OK" /\ pc.phase \in {"retire", "clean"}
  <2>1. Done(pc, pc.outcome)
    BY <1>15 DEF Received
  <2> QED BY <1>15, <2>1, SameClient, DoneSound DEF Reaction
<1>16. CASE Correlated(r) /\ r.code = "OK" /\ pc.phase = "preRetire"
  <2>1. Send(pc, "request", pc.op.cmd, pc.op.arg)
    BY <1>16 DEF Received
  <2> QED BY <1>16, <2>1, SendOp DEF Reaction
<1> QED BY <1>6, <1>8, <1>9, <1>10, <1>11, <1>12, <1>13, <1>14, <1>15, <1>16

(* Receive. *)
LEMMA ReceiveSound ==
  ASSUME HostTypeOK, Receive
  PROVE  /\ Waiting /\ toPc # <<>> /\ Head(toPc) \in Answers /\ Answerable(Head(toPc))
         /\ Reaction(Head(toPc)) /\ toPc' = Tail(toPc)
<1> DEFINE r == Head(toPc)
<1>1. Waiting /\ toPc # <<>> /\ toPc' = Tail(toPc)
  BY DEF Receive
<1>2. toPc \in Seq(Answers) /\ \A i \in 1..Len(toPc) : Answerable(toPc[i])
  BY DEF HostTypeOK
<1>3. Head(toPc) = toPc[1] /\ 1 \in 1..Len(toPc)
  BY <1>1, <1>2
<1>4. r \in Answers /\ Answerable(r)
  BY <1>1, <1>2, <1>3
<1>5. IF ~Correlated(r) THEN Raise(pc, "HostProtocolError")
      ELSE IF r.code # "OK" THEN RemoteError(r)
      ELSE Received(r)
  BY DEF Receive
<1>6. Reaction(r)
  BY <1>1, <1>4, <1>5, ReactionSound
<1> QED BY <1>1, <1>4, <1>6
-----------------------------------------------------------------------------
(* Types.                                                                   *)

(* The client, but for the mark of its result. *)
SameButCurrent ==
  /\ pc' \in Clients /\ pc'.phase = pc.phase /\ pc'.op = pc.op /\ pc'.clean = pc.clean /\ pc'.next = pc.next
  /\ pc'.id = pc.id /\ pc'.host = pc.host /\ pc'.ops = pc.ops /\ pc'.outcome = pc.outcome
  /\ pc'.alone = pc.alone

(* The answer r follows what the line holds already. *)
Extended(r) ==
  /\ toPc' \in Seq(Answers) /\ Len(toPc') = Len(toPc) + 1 /\ toPc'[Len(toPc) + 1] = r
  /\ \A i \in 1..Len(toPc) : /\ toPc'[i].cmd = toPc[i].cmd /\ toPc'[i].id = toPc[i].id
                             /\ toPc'[i].code = toPc[i].code /\ toPc'[i].data = toPc[i].data

(* An appended element is the last one. *)
LEMMA AppendFacts ==
  ASSUME NEW S, NEW s \in Seq(S), NEW x \in S
  PROVE  /\ Append(s, x) \in Seq(S) /\ Len(Append(s, x)) = Len(s) + 1 /\ Append(s, x)[Len(s) + 1] = x
         /\ \A i \in 1..Len(s) : Append(s, x)[i] = s[i]
OBVIOUS

(* A reply is an answer. *)
LEMMA ReplyFacts ==
  ASSUME NEW q \in Frames, NEW code \in AnswerCodes, NEW data \in AnswerData
  PROVE  /\ Reply(q, code, data) \in Answers
         /\ Reply(q, code, data).cmd = q.cmd /\ Reply(q, code, data).id = q.id
         /\ Reply(q, code, data).code = code /\ Reply(q, code, data).data = data
         /\ Reply(q, code, data).current = TRUE
<1>1. q.cmd \in FrameCommands /\ q.id \in Txids
  BY DEF Frames, FrameCommands
<1> QED BY <1>1 DEF Reply, Answers

(* An answerable reply. *)
LEMMA ReplyAnswerable ==
  ASSUME NEW q \in Frames, NEW code \in AnswerCodes, NEW data \in AnswerData,
         /\ q.cmd = "PING" => code = "OK"
         /\ q.cmd = "GET_SYSTEM_STATUS" => code = "OK" /\ data \in Txids \cup {None}
         /\ q.cmd = "GET_TXN_RESULT" => code \in {"OK", "BUSY", "RESULT_NOT_READY"}
         /\ q.cmd = "RETIRE_TXN_RESULT" => code \in {"OK", "BUSY"}
  PROVE  Answerable(Reply(q, code, data))
<1> DEFINE r == Reply(q, code, data)
<1>1. r.cmd = q.cmd /\ r.code = code /\ r.data = data
  BY DEF Reply
<1> HIDE DEF r
<1>2. Answerable(r)
  BY <1>1 DEF Answerable
<1> QED BY <1>2 DEF r

(* Replied. *)
LEMMA RepliedFacts ==
  ASSUME HostTypeOK, NEW q \in Frames, NEW code \in AnswerCodes, NEW data \in AnswerData, Replied(q, code, data)
  PROVE  Extended(Reply(q, code, data)) /\ SameButCurrent /\ pc' = pc
         /\ \A i \in 1..Len(toPc) : toPc'[i] = toPc[i]
<1>1. toPc \in Seq(Answers) /\ pc \in Clients /\ Reply(q, code, data) \in Answers
  BY ReplyFacts DEF HostTypeOK
<1>2. toPc' = Append(toPc, Reply(q, code, data)) /\ pc' = pc
  BY DEF Replied
<1>3. \A i \in 1..Len(toPc) : toPc'[i] = toPc[i]
  BY <1>1, <1>2, AppendFacts
<1>4. toPc' \in Seq(Answers) /\ Len(toPc') = Len(toPc) + 1 /\ toPc'[Len(toPc) + 1] = Reply(q, code, data)
  BY <1>1, <1>2, AppendFacts
<1> QED BY <1>1, <1>2, <1>3, <1>4 DEF Extended, SameButCurrent

(* Executed. *)
LEMMA ExecutedFacts ==
  ASSUME HostTypeOK, NEW q \in Frames, NEW code, Executed(q, code)
  PROVE  Extended(Reply(q, code, None)) /\ SameButCurrent
<1>1. toPc \in Seq(Answers) /\ pc \in Clients
  BY DEF HostTypeOK
<1>2. code \in AnswerCodes /\ None \in AnswerData
  BY DEF Executed, AnswerCodes, AnswerData
<1>3. Reply(q, code, None) \in Answers
  BY <1>2, ReplyFacts
<1>4. /\ Stale(toPc) \in Seq(Answers) /\ Len(Stale(toPc)) = Len(toPc)
      /\ toPc' = Append(Stale(toPc), Reply(q, code, None))
  BY <1>1, StaleFacts DEF Executed
<1>5. /\ toPc' \in Seq(Answers) /\ Len(toPc') = Len(toPc) + 1 /\ toPc'[Len(toPc) + 1] = Reply(q, code, None)
      /\ \A i \in 1..Len(toPc) : toPc'[i] = Stale(toPc)[i]
  BY <1>3, <1>4, AppendFacts
<1>6. SameButCurrent
  BY <1>1 DEF Executed, SameButCurrent, Clients
<1> QED BY <1>1, <1>5, <1>6, StaleFacts DEF Extended

(* What a handled request leaves on the line to the client. *)
LEMMA HandledFacts ==
  ASSUME HostTypeOK, NEW q \in Frames, Handled(q)
  PROVE  /\ SameButCurrent /\ mcu' \in Firmwares /\ mcu'.booting = mcu.booting
         /\ \E code \in AnswerCodes, data \in AnswerData :
              Extended(Reply(q, code, data)) /\ Answerable(Reply(q, code, data))
<1>0. mcu \in Firmwares /\ None \in AnswerData /\ {"OK", "FAILED"} \subseteq AnswerCodes
  BY DEF HostTypeOK, AnswerData, AnswerCodes
<1>1. CASE mcu' = mcu /\ \E code, data : Told(q, code, data) /\ Replied(q, code, data)
  <2>1. PICK code, data : Told(q, code, data) /\ Replied(q, code, data)
    BY <1>1
  <2>2. code \in AnswerCodes /\ data \in AnswerData
    BY <2>1 DEF Told
  <2>3. mcu.txn # None => mcu.txn.id \in Txids
    BY <1>0 DEF Firmwares, Transactions
  <2>4. Extended(Reply(q, code, data)) /\ SameButCurrent
    BY <2>1, <2>2, RepliedFacts
  <2>5. Answerable(Reply(q, code, data))
    BY <2>1, <2>2, <2>3, ReplyAnswerable DEF Told
  <2> QED BY <1>0, <1>1, <2>2, <2>4, <2>5
<1>2. CASE Retired(q)
  <2>1. Extended(Reply(q, "OK", None)) /\ SameButCurrent
    BY <1>0, <1>2, RepliedFacts DEF Retired
  <2>2. Answerable(Reply(q, "OK", None))
    BY <1>0, <1>2, ReplyAnswerable DEF Retired
  <2>3. mcu' \in Firmwares /\ mcu'.booting = mcu.booting
    BY <1>2 DEF Retired
  <2> QED BY <1>0, <2>1, <2>2, <2>3
<1>3. CASE \E code : Executed(q, code)
  <2>1. PICK code : Executed(q, code)
    BY <1>3
  <2>2. /\ q.cmd \in ManagedCommands /\ code \in AnswerCodes /\ mcu' \in Firmwares
        /\ mcu'.booting = mcu.booting
    BY <1>0, <2>1 DEF Executed
  <2>3. Extended(Reply(q, code, None)) /\ SameButCurrent
    BY <2>1, ExecutedFacts
  <2>4. q.cmd \notin {"PING", "GET_SYSTEM_STATUS", "GET_TXN_RESULT", "RETIRE_TXN_RESULT"}
    BY <2>2, OpFacts DEF ManagedCommands
  <2>5. Answerable(Reply(q, code, None))
    BY <1>0, <2>2, <2>4, ReplyAnswerable
  <2> QED BY <1>0, <2>2, <2>3, <2>5
<1> QED BY <1>1, <1>2, <1>3 DEF Handled

(* The frames after the first one. *)
LEMMA TailFacts ==
  ASSUME NEW S, NEW s \in Seq(S), s # <<>>
  PROVE  /\ Len(s) \in Nat /\ 1 <= Len(s) /\ Head(s) \in S /\ Head(s) = s[1]
         /\ Tail(s) \in Seq(S) /\ Len(Tail(s)) = Len(s) - 1
         /\ \A i \in 1..Len(s) - 1 : Tail(s)[i] = s[i + 1]
OBVIOUS

(* pc_poll. *)
LEMMA HandleFacts ==
  ASSUME HostTypeOK, HandleRequest
  PROVE  /\ toMcu # <<>> /\ Head(toMcu) \in Frames /\ Handled(Head(toMcu))
         /\ toMcu' = Tail(toMcu) /\ calm' = calm /\ trouble' = trouble
<1>1. toMcu # <<>> /\ toMcu \in Seq(Frames) /\ Dispatch(Head(toMcu))
  BY DEF HostTypeOK, HandleRequest
<1>2. Head(toMcu) \in Frames
  BY <1>1, TailFacts
<1> QED BY <1>1, <1>2, DispatchSound DEF HandleRequest

(* A handled request leaves typed states. *)
LEMMA TypeHandle ==
  ASSUME HostTypeOK, HandleRequest
  PROVE  HostTypeOK'
<1> DEFINE q == Head(toMcu)
<1>1. /\ toMcu # <<>> /\ q \in Frames /\ Handled(q) /\ toMcu' = Tail(toMcu)
      /\ calm' = calm /\ trouble' = trouble
  BY HandleFacts
<1> HIDE DEF q
<1>2. PICK code \in AnswerCodes, data \in AnswerData :
        Extended(Reply(q, code, data)) /\ Answerable(Reply(q, code, data))
  BY <1>1, HandledFacts
<1>3. SameButCurrent /\ mcu' \in Firmwares
  BY <1>1, HandledFacts
<1>4. toPc \in Seq(Answers) /\ Len(toPc) \in Nat /\ \A i \in 1..Len(toPc) : Answerable(toPc[i])
  BY DEF HostTypeOK
<1>5. toMcu' \in Seq(Frames)
  BY <1>1, TailFacts DEF HostTypeOK
<1>6. ASSUME NEW i \in 1..Len(toPc')
      PROVE  Answerable(toPc'[i])
  <2>1. CASE i \in 1..Len(toPc)
    BY <1>2, <1>4, <2>1 DEF Extended, Answerable
  <2>2. CASE i \notin 1..Len(toPc)
    <3>1. i = Len(toPc) + 1
      BY <1>2, <1>4, <2>2 DEF Extended
    <3> QED BY <1>2, <3>1 DEF Extended
  <2> QED BY <2>1, <2>2
<1>7. toPc' \in Seq(Answers)
  BY <1>2 DEF Extended
<1>8. (Waiting => pc.id \in Txids)' /\ (pc.phase \in {"query", "retire"} => pc.host \in Txids)'
  BY <1>3 DEF SameButCurrent, Waiting, HostTypeOK
<1>9. pc' \in Clients /\ calm' \in BOOLEAN /\ trouble' \in Nat
  BY <1>1, <1>3 DEF SameButCurrent, HostTypeOK
<1> QED BY <1>3, <1>5, <1>6, <1>7, <1>8, <1>9 DEF HostTypeOK

(* A request sent in another phase. *)
LEMMA TypeSent ==
  ASSUME HostTypeOK, NEW phase \in Phases, NEW cmd, NEW arg, NEW outcome, NEW host, NEW current,
         Sent(phase, cmd, arg, outcome, host, current), phase \in {"query", "retire"} => host \in Txids
  PROVE  /\ pc' \in Clients /\ toMcu' \in Seq(Frames)
         /\ (Waiting => pc.id \in Txids)' /\ (pc.phase \in {"query", "retire"} => pc.host \in Txids)'
<1> DEFINE f == [cmd |-> cmd, id |-> pc.next, arg |-> arg]
<1>1. toMcu' = Append(toMcu, f) /\ f \in Frames /\ pc' \in Clients
  BY DEF Sent
<1>2. toMcu \in Seq(Frames) /\ pc.next \in Txids
  BY DEF HostTypeOK, Clients
<1> HIDE DEF f
<1>3. toMcu' \in Seq(Frames)
  BY <1>1, <1>2, AppendFacts
<1> QED BY <1>1, <1>2, <1>3 DEF Sent

(* An operation that ends. *)
LEMMA TypeFinished ==
  ASSUME HostTypeOK, NEW outcome, Finished(outcome)
  PROVE  /\ pc' \in Clients /\ toMcu' \in Seq(Frames)
         /\ (Waiting => pc.id \in Txids)' /\ (pc.phase \in {"query", "retire"} => pc.host \in Txids)'
BY DEF Finished, Waiting, HostTypeOK

(* An exception. *)
LEMMA TypeRaised ==
  ASSUME HostTypeOK, NEW what, Raised(what)
  PROVE  /\ pc' \in Clients /\ toMcu' \in Seq(Frames)
         /\ (Waiting => pc.id \in Txids)' /\ (pc.phase \in {"query", "retire"} => pc.host \in Txids)'
<1>1. CASE Finished(pc.outcome) \/ Finished(what)
  BY <1>1, TypeFinished
<1>2. CASE Sent("request", pc.op.cmd, pc.op.arg, pc.outcome, pc.host, pc.current)
  <2>1. "request" \in Phases /\ "request" \notin {"query", "retire"}
    BY DEF Phases
  <2> QED BY <1>2, <2>1, TypeSent
<1> QED BY <1>1, <1>2 DEF Raised

(* What the client does with an answer. *)
LEMMA TypeReaction ==
  ASSUME HostTypeOK, NEW r \in Answers, Reaction(r)
  PROVE  /\ pc' \in Clients /\ toMcu' \in Seq(Frames)
         /\ (Waiting => pc.id \in Txids)' /\ (pc.phase \in {"query", "retire"} => pc.host \in Txids)'
<1>0. /\ r.id \in Txids /\ {"request", "query", "retire", "status", "clean", "preStatus", "preRetire"} \subseteq Phases
      /\ "request" \notin {"query", "retire"} /\ "status" \notin {"query", "retire"}
      /\ "clean" \notin {"query", "retire"} /\ "preRetire" \notin {"query", "retire"}
  BY DEF Answers, Phases
<1>1. CASE Raised("HostProtocolError") \/ Raised(r.code)
  BY <1>1, TypeRaised
<1>2. CASE Finished("OK") \/ Finished("HostProtocolError") \/ Finished(pc.outcome)
  BY <1>2, TypeFinished
<1>3. CASE \/ Sent("status", "GET_SYSTEM_STATUS", None, r.code, pc.host, pc.current)
           \/ Sent("request", pc.op.cmd, pc.op.arg, pc.outcome, pc.host, pc.current)
  BY <1>0, <1>3, TypeSent
<1>4. CASE \/ Sent("clean", "RETIRE_TXN_RESULT", r.data, pc.outcome, pc.host, pc.current)
           \/ Sent("preRetire", "RETIRE_TXN_RESULT", r.data, pc.outcome, pc.host, pc.current)
  BY <1>0, <1>4, TypeSent
<1>5. CASE Sent("query", "GET_TXN_RESULT", r.id, pc.outcome, r.id, r.current)
  BY <1>0, <1>5, TypeSent
<1>6. CASE pc.phase = "query"
           /\ Sent("retire", "RETIRE_TXN_RESULT", pc.host, IF Verified(r) THEN "OK" ELSE "HostProtocolError",
                   pc.host, pc.current)
  <2>1. pc.host \in Txids
    BY <1>6 DEF HostTypeOK
  <2> QED BY <1>0, <1>6, <2>1, TypeSent
<1> QED BY <1>1, <1>2, <1>3, <1>4, <1>5, <1>6 DEF Reaction

(* The client reads an answer. *)
LEMMA TypeReceive ==
  ASSUME HostTypeOK, Receive
  PROVE  HostTypeOK'
<1> DEFINE r == Head(toPc)
<1>1. Waiting /\ toPc # <<>> /\ r \in Answers /\ Reaction(r) /\ toPc' = Tail(toPc)
  BY ReceiveSound
<1> HIDE DEF r
<1>2. /\ pc' \in Clients /\ toMcu' \in Seq(Frames)
      /\ (Waiting => pc.id \in Txids)' /\ (pc.phase \in {"query", "retire"} => pc.host \in Txids)'
  BY <1>1, TypeReaction
<1>3. toPc \in Seq(Answers) /\ \A i \in 1..Len(toPc) : Answerable(toPc[i])
  BY DEF HostTypeOK
<1>4. toPc' \in Seq(Answers) /\ \A i \in 1..Len(toPc') : Answerable(toPc'[i])
  <2>1. /\ Len(toPc) \in Nat /\ toPc' \in Seq(Answers) /\ Len(toPc') = Len(toPc) - 1
        /\ \A i \in 1..Len(toPc) - 1 : toPc'[i] = toPc[i + 1]
    BY <1>1, <1>3, TailFacts
  <2>2. ASSUME NEW i \in 1..Len(toPc')
        PROVE  Answerable(toPc'[i])
    <3>1. i \in 1..Len(toPc) - 1 /\ i + 1 \in 1..Len(toPc)
      BY <2>1
    <3> QED BY <1>3, <2>1, <3>1
  <2> QED BY <2>1, <2>2
<1>5. mcu' \in Firmwares /\ calm' \in BOOLEAN /\ trouble' \in Nat
  BY DEF Receive, HostTypeOK
<1> QED BY <1>2, <1>4, <1>5 DEF HostTypeOK

(* A new operation. *)
Started(op, phase, cmd, arg) ==
  /\ pc' \in Clients /\ pc'.phase = phase /\ pc'.id = pc.next /\ pc'.next = (pc.next % MaxTxid) + 1
  /\ pc'.outcome = "none" /\ pc'.clean = (pc.ops > 0 /\ pc.op \in RetainedOps) /\ pc'.op = op
  /\ pc'.ops = pc.ops + 1 /\ pc'.alone = pc.alone
  /\ [cmd |-> cmd, id |-> pc.next, arg |-> arg] \in Frames
  /\ toMcu' = Append(toMcu, [cmd |-> cmd, id |-> pc.next, arg |-> arg])

(* StartOp. *)
LEMMA StartSound ==
  ASSUME HostTypeOK, NEW op \in Ops, StartOp(op)
  PROVE  /\ pc.phase = "idle" /\ pc.ops < MaxOps /\ pc.ops \in Nat
         /\ mcu' = mcu /\ toPc' = toPc /\ calm' = calm /\ trouble' = trouble
         /\ \/ EmergencyAll(op) /\ Started(op, "preStatus", "GET_SYSTEM_STATUS", None)
            \/ ~EmergencyAll(op) /\ Started(op, "request", op.cmd, op.arg)
<1> DEFINE c == pc.ops > 0 /\ pc.op \in RetainedOps
           n == pc.ops + 1
           p == [pc EXCEPT !.clean = c, !.op = op, !.ops = n, !.outcome = "none"]
<1>1. /\ pc.phase = "idle" /\ pc.ops < MaxOps
      /\ mcu' = mcu /\ toPc' = toPc /\ calm' = calm /\ trouble' = trouble
  BY DEF StartOp
<1>2. IF EmergencyAll(op) THEN Send(p, "preStatus", "GET_SYSTEM_STATUS", None)
      ELSE Send(p, "request", op.cmd, op.arg)
  BY DEF StartOp
<1>3. pc \in Clients /\ pc.next \in Txids /\ pc.ops \in Nat /\ "none" \in Outcomes
  BY DEF HostTypeOK, Clients, Outcomes
<1>4. c \in BOOLEAN /\ n \in Nat
  BY <1>3
<1> HIDE DEF c, n
<1>5. /\ p \in Clients /\ p.next = pc.next /\ p.outcome = "none" /\ p.clean = c /\ p.op = op
      /\ p.ops = n /\ p.alone = pc.alone
  BY <1>3, <1>4 DEF Clients
<1> HIDE DEF p
<1>6. CASE EmergencyAll(op)
  <2>1. Send(p, "preStatus", "GET_SYSTEM_STATUS", None)
    BY <1>2, <1>6
  <2>2. Onward(p, "preStatus")
    BY <1>5, <2>1, SendOnward DEF Phases
  <2>3. toMcu' = Append(toMcu, [cmd |-> "GET_SYSTEM_STATUS", id |-> pc.next, arg |-> None])
    BY <1>5, <2>1 DEF Send
  <2>4. Started(op, "preStatus", "GET_SYSTEM_STATUS", None)
    BY <1>5, <2>2, <2>3, OwnFrames DEF Started, Onward, c, n
  <2> QED BY <1>1, <1>3, <1>6, <2>4
<1>7. CASE ~EmergencyAll(op)
  <2>1. Send(p, "request", op.cmd, op.arg)
    BY <1>2, <1>7
  <2>2. Onward(p, "request")
    BY <1>5, <2>1, SendOnward DEF Phases
  <2>3. toMcu' = Append(toMcu, [cmd |-> op.cmd, id |-> pc.next, arg |-> op.arg])
    BY <1>5, <2>1 DEF Send
  <2>4. [cmd |-> op.cmd, id |-> pc.next, arg |-> op.arg] \in Frames
    BY <1>3, OpFacts DEF Frames
  <2>5. Started(op, "request", op.cmd, op.arg)
    BY <1>5, <2>2, <2>3, <2>4 DEF Started, Onward, c, n
  <2> QED BY <1>1, <1>3, <1>7, <2>5
<1> QED BY <1>6, <1>7

(* The line and the client in a step that leaves both alone. *)
LEMMA TypeFrame ==
  ASSUME HostTypeOK, mcu' \in Firmwares, UNCHANGED <<toPc, pc>>, toMcu' \in Seq(Frames),
         calm' \in BOOLEAN, trouble' \in Nat
  PROVE  HostTypeOK'
BY DEF HostTypeOK, Waiting

(* A closed client. *)
LEMMA ClosedFacts ==
  /\ Closed \in Clients /\ Closed.phase = "closed" /\ Closed.alone = FALSE /\ Closed.outcome = "none"
  /\ Closed.ops = 0 /\ Closed.next = 1 /\ Closed.clean = FALSE /\ Closed.op = [cmd |-> "PING", arg |-> None]
<1>1. [cmd |-> "PING", arg |-> None] \in Ops
  BY DEF Ops
<1>2. 1 \in Txids
  BY HostAssumption DEF HostAssumption, Txids
<1> QED BY <1>1, <1>2 DEF Closed, Clients, Phases, Outcomes

(* A trouble counts. *)
LEMMA TroubleFacts ==
  ASSUME HostTypeOK, Trouble
  PROVE  calm' = FALSE /\ calm' \in BOOLEAN /\ trouble' \in Nat
<1>1. calm' = FALSE
  BY DEF Trouble
<1>2. trouble' \in Nat
  BY DEF HostTypeOK, Trouble
<1> QED BY <1>1, <1>2

(* Opening and closing the port. *)
LEMMA TypePort ==
  ASSUME HostTypeOK, OpenClient \/ CloseClient
  PROVE  HostTypeOK'
<1>1. CASE OpenClient
  <2> DEFINE a == (toMcu = <<>>)
  <2>1. pc' = [Closed EXCEPT !.phase = "idle", !.alone = a] /\ toPc' = <<>>
    BY <1>1 DEF OpenClient, Open
  <2>2. a \in BOOLEAN /\ "idle" \in Phases
    BY DEF Phases
  <2> HIDE DEF a
  <2>3. pc' \in Clients /\ pc'.phase = "idle"
    BY <2>1, <2>2, ClosedFacts DEF Clients
  <2>4. toPc' \in Seq(Answers) /\ Len(toPc') = 0
    BY <2>1
  <2>5. mcu' \in Firmwares /\ toMcu' \in Seq(Frames) /\ trouble' \in Nat /\ calm' \in BOOLEAN
    BY <1>1 DEF OpenClient, HostTypeOK
  <2> QED BY <2>3, <2>4, <2>5 DEF HostTypeOK, Waiting
<1>2. CASE CloseClient
  <2>1. pc' = Closed /\ UNCHANGED <<mcu, toMcu, toPc>>
    BY <1>2 DEF CloseClient
  <2>2. calm' \in BOOLEAN /\ trouble' \in Nat
    BY <1>2, TroubleFacts DEF CloseClient, HostTypeOK
  <2>3. pc' \in Clients /\ pc'.phase = "closed"
    BY <2>1, ClosedFacts
  <2> QED BY <2>1, <2>2, <2>3 DEF HostTypeOK, Waiting
<1> QED BY <1>1, <1>2

(* A time-out. *)
LEMMA TimeOutSound ==
  ASSUME HostTypeOK, TimeOut
  PROVE  Waiting /\ toPc = <<>> /\ Raised("TimeoutError") /\ UNCHANGED <<mcu, toPc>>
<1>1. Waiting /\ toPc = <<>> /\ Raise(pc, "TimeoutError") /\ UNCHANGED <<mcu, toPc>>
  BY DEF TimeOut
<1>2. "TimeoutError" \in Outcomes
  BY DEF Outcomes
<1> QED BY <1>1, <1>2, RaiseSound

(* Loss and noise on the line. *)
LEMMA TypeDamage ==
  ASSUME HostTypeOK, DamageRequest \/ DamageAnswer
  PROVE  HostTypeOK'
<1>1. CASE DamageRequest
  <2>1. PICK i \in DOMAIN toMcu : toMcu' = RemoveAt(toMcu, i)
    BY <1>1 DEF DamageRequest
  <2>2. toMcu \in Seq(Frames) /\ i \in 1..Len(toMcu)
    BY <2>1 DEF HostTypeOK
  <2>3. toMcu' \in Seq(Frames)
    BY <2>1, <2>2, RemoveFacts
  <2>4. UNCHANGED <<mcu, toPc, pc>> /\ mcu' \in Firmwares
    BY <1>1 DEF DamageRequest, HostTypeOK
  <2>5. calm' \in BOOLEAN /\ trouble' \in Nat
    BY <1>1, TroubleFacts DEF DamageRequest
  <2> QED BY <2>3, <2>4, <2>5, TypeFrame
<1>2. CASE DamageAnswer
  <2>1. UNCHANGED <<mcu, toMcu, pc>> /\ calm' \in BOOLEAN /\ trouble' \in Nat
    BY <1>2, TroubleFacts DEF DamageAnswer
  <2>2. PICK i \in DOMAIN toPc :
          \/ toPc' = RemoveAt(toPc, i)
          \/ toPc[i].cmd # "NOISE" /\ toPc' = [toPc EXCEPT ![i].cmd = "NOISE"]
    BY <1>2 DEF DamageAnswer
  <2>3. /\ toPc \in Seq(Answers) /\ Len(toPc) \in Nat /\ i \in 1..Len(toPc)
        /\ \A j \in 1..Len(toPc) : Answerable(toPc[j])
    BY <2>2 DEF HostTypeOK
  <2>4. toPc' \in Seq(Answers) /\ \A j \in 1..Len(toPc') : Answerable(toPc'[j])
    <3>1. CASE toPc' = RemoveAt(toPc, i)
      <4>1. /\ toPc' \in Seq(Answers) /\ Len(toPc') = Len(toPc) - 1
            /\ \A j \in 1..Len(toPc) - 1 : toPc'[j] = IF j < i THEN toPc[j] ELSE toPc[j + 1]
        BY <2>3, <3>1, RemoveFacts
      <4>2. ASSUME NEW j \in 1..Len(toPc')
            PROVE  Answerable(toPc'[j])
        <5>1. j \in 1..Len(toPc) - 1 /\ j \in 1..Len(toPc) /\ j + 1 \in 1..Len(toPc)
          BY <2>3, <4>1
        <5> QED BY <2>3, <4>1, <5>1
      <4> QED BY <4>1, <4>2
    <3>2. CASE toPc' = [toPc EXCEPT ![i].cmd = "NOISE"]
      <4> DEFINE x == [toPc[i] EXCEPT !.cmd = "NOISE"]
      <4>1. x \in Answers /\ Answerable(x)
        <5>1. toPc[i] \in Answers
          BY <2>3
        <5>2. x \in Answers /\ x.cmd = "NOISE"
          BY <5>1 DEF Answers
        <5> QED BY <5>2 DEF Answerable
      <4>2. toPc' = [toPc EXCEPT ![i] = x]
        BY <3>2
      <4> HIDE DEF x
      <4>3. toPc' \in Seq(Answers) /\ Len(toPc') = Len(toPc)
        BY <2>3, <4>1, <4>2
      <4>4. \A j \in 1..Len(toPc) : toPc'[j] = IF j = i THEN x ELSE toPc[j]
        BY <2>3, <4>1, <4>2
      <4> QED BY <2>3, <4>1, <4>3, <4>4
    <3> QED BY <2>2, <3>1, <3>2
  <2> QED BY <2>1, <2>4 DEF HostTypeOK, Waiting
<1> QED BY <1>1, <1>2

(* The firmware's own steps, a reset and a fault. *)
LEMMA TypeFirmware ==
  ASSUME HostTypeOK, StartupDone \/ PeriodicProbe \/ ContainFault \/ ResetMcu
  PROVE  HostTypeOK'
<1>0. mcu \in Firmwares /\ None \in Transactions \cup {None} /\ {"READY", "DOWN"} \subseteq ControllerStates
  BY DEF HostTypeOK, ControllerStates
<1>1. CASE StartupDone \/ PeriodicProbe \/ ContainFault
  <2>1. UNCHANGED <<toMcu, toPc, pc>>
    BY <1>1 DEF StartupDone, PeriodicProbe, ContainFault
  <2>2. calm' \in BOOLEAN /\ trouble' \in Nat
    BY <1>1, TroubleFacts DEF StartupDone, PeriodicProbe, ContainFault, HostTypeOK
  <2>3. mcu' \in Firmwares
    BY <1>0, <1>1 DEF StartupDone, PeriodicProbe, ContainFault, Firmwares
  <2>4. toMcu' \in Seq(Frames)
    BY <2>1 DEF HostTypeOK
  <2> QED BY <2>1, <2>2, <2>3, <2>4, TypeFrame
<1>2. CASE ResetMcu
  <2>1. mcu' = Boot /\ UNCHANGED <<toPc, pc>> /\ calm' \in BOOLEAN /\ trouble' \in Nat
    BY <1>2, TroubleFacts DEF ResetMcu
  <2>2. PICK n \in 0..Len(toMcu) : toMcu' = SubSeq(toMcu, n + 1, Len(toMcu))
    BY <1>2 DEF ResetMcu
  <2>3. toMcu' \in Seq(Frames)
    <3>1. toMcu \in Seq(Frames) /\ Len(toMcu) \in Nat
      BY DEF HostTypeOK
    <3> QED BY <2>2, <3>1
  <2>4. Boot \in Firmwares
    BY DEF Boot, Firmwares, ControllerStates
  <2> QED BY <2>1, <2>3, <2>4, TypeFrame
<1> QED BY <1>1, <1>2

(* Every step leaves typed states. *)
LEMMA TypeNext ==
  ASSUME HostTypeOK, Next
  PROVE  HostTypeOK'
<1>1. CASE TimeOut
  <2>1. Raised("TimeoutError") /\ UNCHANGED <<mcu, toPc>>
    BY <1>1, TimeOutSound
  <2>2. calm' \in BOOLEAN /\ trouble' \in Nat
    BY <1>1, TroubleFacts DEF TimeOut, HostTypeOK
  <2>3. /\ pc' \in Clients /\ toMcu' \in Seq(Frames)
        /\ (Waiting => pc.id \in Txids)' /\ (pc.phase \in {"query", "retire"} => pc.host \in Txids)'
    BY <2>1, TypeRaised
  <2> QED BY <2>1, <2>2, <2>3 DEF HostTypeOK
<1>2. CASE \E op \in Ops : StartOp(op)
  <2>1. PICK op \in Ops : StartOp(op)
    BY <1>2
  <2>2. PICK phase, cmd, arg : phase \in {"preStatus", "request"} /\ Started(op, phase, cmd, arg)
    BY <2>1, StartSound
  <2> DEFINE f == [cmd |-> cmd, id |-> pc.next, arg |-> arg]
  <2>3. toMcu' = Append(toMcu, f) /\ f \in Frames
    BY <2>2 DEF Started
  <2> HIDE DEF f
  <2>4. toMcu' \in Seq(Frames)
    BY <2>3, AppendFacts DEF HostTypeOK
  <2>5. mcu' = mcu /\ toPc' = toPc /\ calm' = calm /\ trouble' = trouble
    BY <2>1, StartSound
  <2>6. pc' \in Clients /\ pc'.id \in Txids /\ pc'.phase \notin {"query", "retire"}
    BY <2>2, SameClient DEF Started
  <2> QED BY <2>4, <2>5, <2>6 DEF HostTypeOK, Waiting
<1>3. CASE HandleRequest \/ Receive \/ OpenClient \/ CloseClient
  BY <1>3, TypeHandle, TypeReceive, TypePort
<1>4. CASE StartupDone \/ PeriodicProbe \/ ContainFault \/ ResetMcu \/ DamageRequest \/ DamageAnswer
  BY <1>4, TypeFirmware, TypeDamage
<1> QED BY <1>1, <1>2, <1>3, <1>4 DEF Next

(* Every frame, answer and retained result is of its form.  In particular a *)
(* client that waits knows the identifier it waits for, and one that        *)
(* fetches or retires its result knows which one.                           *)
THEOREM HostTypeTheorem == HostSpec => []HostTypeOK
<1>1. Init => HostTypeOK
  <2> SUFFICES ASSUME Init PROVE HostTypeOK
    OBVIOUS
  <2>1. mcu \in Firmwares
    BY DEF Init, Boot, Firmwares, ControllerStates
  <2>2. pc \in Clients /\ pc.phase = "closed"
    BY ClosedFacts DEF Init
  <2>3. toMcu \in Seq(Frames) /\ toPc \in Seq(Answers) /\ Len(toPc) = 0
    BY DEF Init
  <2>4. calm \in BOOLEAN /\ trouble \in Nat
    BY DEF Init
  <2> QED BY <2>1, <2>2, <2>3, <2>4 DEF HostTypeOK, Waiting
<1>2. HostTypeOK /\ [Next]_vars => HostTypeOK'
  BY TypeNext DEF vars, HostTypeOK, Waiting
<1> QED BY <1>1, <1>2, PTL DEF HostSpec

-----------------------------------------------------------------------------
(* The undisturbed process.                                                 *)

(* Told, to an undisturbed process. *)
LEMMA CalmTold ==
  ASSUME HostTypeOK, ~mcu.booting, Waiting, NEW q \in Frames, CalmRequest(pc, mcu.txn, q), NEW code, NEW data,
         Told(q, code, data), NEW r, r.cmd = q.cmd, r.id = q.id, r.code = code, r.data = data
  PROVE  CalmAnswer(pc, mcu.txn, r)
<1>1. q.cmd = Awaited(pc) /\ q.id = pc.id /\ code # "BUSY"
  BY DEF CalmRequest, Told
<1>2. pc.phase \in {"request", "query", "retire", "status", "clean", "preStatus", "preRetire"}
  BY SameClient DEF Waiting, Phases
<1>3. CASE pc.phase = "request"
  <2>1. q.cmd = pc.op.cmd /\ pc.op.cmd \in OpCommands
    BY <1>1, <1>3, SameClient, OpFacts DEF Awaited
  <2>2. CASE pc.op.cmd = "PING"
    <3>1. code = "OK" /\ "OK" \notin Refusals
      BY <2>1, <2>2 DEF Told, Refusals
    <3> QED BY <1>1, <1>3, <2>1, <2>2, <3>1 DEF CalmAnswer
  <2>3. CASE pc.op.cmd # "PING"
    <3>1. /\ code # "RESULT_NOT_READY"
          /\ code = "OK" => mcu.txn # None /\ SameRequest(mcu.txn, q) /\ mcu.txn.code = "OK"
          /\ code \in Refusals => mcu.txn # None
      BY <2>1, <2>3 DEF Told, ManagedCommands
    <3>2. pc.clean => mcu.txn = None
      BY <1>3 DEF CalmRequest
    <3> QED BY <1>1, <1>3, <2>1, <3>1, <3>2 DEF CalmAnswer, Succeeded, Holds, SameRequest
  <2> QED BY <2>2, <2>3
<1>4. CASE pc.phase = "query"
  <2>1. q.cmd = "GET_TXN_RESULT" /\ Retained(q.arg) /\ Succeeded(pc, mcu.txn, pc.host)
    BY <1>1, <1>4 DEF CalmRequest, Awaited, Succeeded, Retained
  <2>2. code = "OK" /\ data = mcu.txn
    BY <1>1, <2>1 DEF Told
  <2> QED BY <1>1, <1>4, <2>1, <2>2 DEF CalmAnswer
<1>5. CASE pc.phase \in {"retire", "clean", "preRetire"}
  <2>1. q.cmd = "RETIRE_TXN_RESULT" /\ Retained(q.arg)
    BY <1>1, <1>5 DEF CalmRequest, Awaited, Retained
  <2> QED BY <1>1, <2>1 DEF Told
<1>6. CASE pc.phase \in {"status", "preStatus"}
  <2>1. q.cmd = "GET_SYSTEM_STATUS"
    BY <1>1, <1>6 DEF Awaited
  <2>2. code = "OK" /\ data = IF mcu.txn = None THEN None ELSE mcu.txn.id
    BY <2>1 DEF Told
  <2>3. pc.phase = "preStatus" /\ pc.clean => mcu.txn = None
    BY DEF CalmRequest
  <2> QED BY <1>1, <1>6, <2>2, <2>3 DEF CalmAnswer
<1> QED BY <1>2, <1>3, <1>4, <1>5, <1>6

(* A request of an undisturbed process is handled. *)
LEMMA CalmHandle ==
  ASSUME HostTypeOK, CalmInv, calm, HandleRequest
  PROVE  CalmInv'
<1> DEFINE q == Head(toMcu)
<1>1. toMcu # <<>> /\ q \in Frames /\ Handled(q) /\ toMcu' = Tail(toMcu)
  BY HandleFacts
<1>2. ~mcu.booting /\ Waiting /\ toPc = <<>> /\ Len(toMcu) = 1 /\ CalmRequest(pc, mcu.txn, toMcu[1])
  BY <1>1 DEF CalmInv
<1>3. q = toMcu[1] /\ toMcu' = <<>>
  BY <1>1, <1>2 DEF HostTypeOK
<1>4. SameButCurrent /\ mcu'.booting = mcu.booting
  BY <1>1, HandledFacts
<1> HIDE DEF q
<1>5. CalmRequest(pc, mcu.txn, q)
  BY <1>2, <1>3
<1>6. None \in AnswerData /\ {"OK", "FAILED"} \subseteq AnswerCodes
  BY DEF AnswerData, AnswerCodes
<1>7. Len(toPc') = 1 /\ CalmAnswer(pc', mcu'.txn, toPc'[1])
  <2>1. CASE mcu' = mcu /\ \E code, data : Told(q, code, data) /\ Replied(q, code, data)
    <3>1. PICK code, data : Told(q, code, data) /\ Replied(q, code, data)
      BY <2>1
    <3>2. code \in AnswerCodes /\ data \in AnswerData
      BY <3>1 DEF Told
    <3> DEFINE r == Reply(q, code, data)
    <3>3. Extended(r) /\ r.cmd = q.cmd /\ r.id = q.id /\ r.code = code /\ r.data = data
      <4>1. q \in Frames /\ Replied(q, code, data)
        BY <1>1, <3>1
      <4>2. Extended(r)
        BY <3>2, <4>1, RepliedFacts
      <4>3. r.cmd = q.cmd /\ r.id = q.id /\ r.code = code /\ r.data = data
        BY DEF Reply
      <4> QED BY <4>2, <4>3
    <3> HIDE DEF r
    <3>4. Len(toPc') = 1 /\ toPc'[1] = r
      BY <1>2, <3>3 DEF Extended
    <3>5. CalmAnswer(pc, mcu.txn, r)
      BY <1>1, <1>2, <1>5, <3>1, <3>3, CalmTold
    <3>6. CalmAnswer(pc', mcu'.txn, r)
      BY <1>4, <2>1, <3>5 DEF SameButCurrent, CalmAnswer, Awaited, Succeeded
    <3> QED BY <3>4, <3>6
  <2>2. CASE Retired(q)
    <3> DEFINE r == Reply(q, "OK", None)
    <3>0. Replied(q, "OK", None) /\ "OK" \in AnswerCodes
      BY <1>6, <2>2 DEF Retired
    <3>1. /\ Extended(r)
          /\ r.cmd = q.cmd /\ r.id = q.id /\ r.code = "OK" /\ r.data = None
      <4>1. Extended(r)
        BY <1>1, <1>6, <3>0, RepliedFacts
      <4>2. r.cmd = q.cmd /\ r.id = q.id /\ r.code = "OK" /\ r.data = None
        BY DEF Reply
      <4> QED BY <4>1, <4>2
    <3> HIDE DEF r
    <3>2. Len(toPc') = 1 /\ toPc'[1] = r
      BY <1>2, <3>1 DEF Extended
    <3>3. q.cmd = "RETIRE_TXN_RESULT" /\ mcu'.txn = None /\ q.cmd = Awaited(pc) /\ q.id = pc.id
      BY <1>5, <2>2 DEF Retired, CalmRequest
    <3>4. pc.phase \in {"request", "query", "retire", "status", "clean", "preStatus", "preRetire"}
      BY <1>2, SameClient DEF Waiting, Phases
    <3>5. pc.phase # "request"
      BY <3>3, SameClient, OpFacts DEF Awaited
    <3>6. pc.phase \in {"retire", "clean", "preRetire"}
      BY <3>3, <3>4, <3>5 DEF Awaited
    <3>7. CalmAnswer(pc', mcu'.txn, r)
      BY <1>4, <3>1, <3>3, <3>6 DEF CalmAnswer, Awaited, SameButCurrent
    <3> QED BY <3>2, <3>7
  <2>3. CASE \E code : Executed(q, code)
    <3>1. PICK code : Executed(q, code)
      BY <2>3
    <3>2. code \in {"OK", "FAILED"} /\ code \in AnswerCodes
      BY <1>6, <3>1 DEF Executed
    <3> DEFINE r == Reply(q, code, None)
    <3>3. Extended(r) /\ r.cmd = q.cmd /\ r.id = q.id /\ r.code = code /\ r.data = None
      <4>1. q \in Frames
        BY <1>1
      <4>2. Extended(r)
        BY <3>1, <4>1, ExecutedFacts
      <4>3. r.cmd = q.cmd /\ r.id = q.id /\ r.code = code /\ r.data = None
        BY DEF Reply
      <4> QED BY <4>2, <4>3
    <3> HIDE DEF r
    <3>4. Len(toPc') = 1 /\ toPc'[1] = r
      BY <1>2, <3>3 DEF Extended
    <3>5. /\ q.cmd \in ManagedCommands /\ q.cmd = Awaited(pc) /\ q.id = pc.id
          /\ mcu'.txn = [id |-> q.id, cmd |-> q.cmd, arg |-> q.arg, code |-> code] /\ mcu' \in Firmwares
      BY <1>5, <3>1 DEF Executed, CalmRequest
    <3>6. pc.phase \in {"request", "query", "retire", "status", "clean", "preStatus", "preRetire"}
      BY <1>2, SameClient DEF Waiting, Phases
    <3>7. q.cmd \notin {"PING", "GET_SYSTEM_STATUS", "GET_TXN_RESULT", "RETIRE_TXN_RESULT"}
      BY <3>5, OpFacts DEF ManagedCommands
    <3>8. pc.phase = "request" /\ q.cmd = pc.op.cmd
      BY <3>5, <3>6, <3>7 DEF Awaited
    <3>9. mcu'.txn \in Transactions
      BY <1>1, <3>2, <3>5, <3>7, ManagedFacts DEF ManagedFrames, Transactions, ManagedCommands, OpCommands, Arguments
    <3>10. mcu'.txn # None /\ mcu'.txn.id = q.id /\ mcu'.txn.cmd = q.cmd /\ mcu'.txn.code = code
      BY <3>5, <3>9, NoneAssumption DEF NoneAssumption
    <3>11. code \notin Refusals /\ code # "RESULT_NOT_READY"
      BY <3>2 DEF Refusals
    <3>12. CalmAnswer(pc', mcu'.txn, r)
      BY <1>4, <3>3, <3>5, <3>8, <3>10, <3>11 DEF CalmAnswer, Succeeded, Holds, Awaited, SameButCurrent
    <3> QED BY <3>4, <3>12
  <2> QED BY <1>1, <2>1, <2>2, <2>3 DEF Handled
<1>8. (~mcu.booting)' /\ (Waiting)'
  BY <1>2, <1>4 DEF Waiting, SameButCurrent
<1>9. /\ pc'.outcome \notin {"TimeoutError", "HostProtocolError", "RESULT_NOT_READY"}
      /\ pc'.clean => pc'.outcome \notin Refusals
  BY <1>4 DEF SameButCurrent, CalmInv
<1> QED BY <1>3, <1>7, <1>8, <1>9 DEF CalmInv, Waiting

(* A request sent on a quiet line is the one frame. *)
LEMMA CalmSent ==
  ASSUME HostTypeOK, ~mcu.booting, mcu' = mcu, toMcu = <<>>, toPc' = <<>>,
         NEW phase \in Phases \ {"closed", "idle"}, NEW cmd, NEW arg, NEW outcome, NEW host, NEW current,
         Sent(phase, cmd, arg, outcome, host, current),
         outcome \notin {"TimeoutError", "HostProtocolError", "RESULT_NOT_READY"},
         pc.clean => outcome \notin Refusals,
         NEW f, f = [cmd |-> cmd, id |-> pc.next, arg |-> arg], CalmRequest(pc', mcu'.txn, f)
  PROVE  CalmInv'
<1>1. toMcu' = Append(toMcu, f) /\ f \in Frames /\ toMcu \in Seq(Frames)
  BY DEF Sent, HostTypeOK
<1>2. Len(toMcu') = 1 /\ toMcu'[1] = f
  BY <1>1
<1>3. pc'.phase = phase /\ pc'.outcome = outcome /\ pc'.clean = pc.clean
  BY DEF Sent
<1> QED BY <1>2, <1>3 DEF CalmInv, Waiting

(* An operation ends on a quiet line. *)
LEMMA CalmFinished ==
  ASSUME ~mcu.booting, mcu' = mcu, toMcu = <<>>, toPc' = <<>>, NEW outcome, Finished(outcome),
         outcome \notin {"TimeoutError", "HostProtocolError", "RESULT_NOT_READY"},
         pc.clean => outcome \notin Refusals, pc.op \in RetainedOps => mcu.txn = None
  PROVE  CalmInv'
BY DEF CalmInv, Finished, Waiting

(* The answer of an undisturbed process is read. *)
LEMMA CalmReceive ==
  ASSUME HostTypeOK, CalmInv, calm, Receive
  PROVE  CalmInv'
<1> DEFINE r == Head(toPc)
<1>1. Waiting /\ toPc # <<>> /\ r \in Answers /\ Answerable(r) /\ Reaction(r) /\ toPc' = Tail(toPc)
  BY ReceiveSound
<1>2. ~mcu.booting /\ toMcu = <<>> /\ Len(toPc) = 1 /\ CalmAnswer(pc, mcu.txn, toPc[1])
  BY <1>1 DEF CalmInv
<1>3. r = toPc[1] /\ toPc' = <<>>
  BY <1>1, <1>2 DEF HostTypeOK
<1> HIDE DEF r
<1>4. CalmAnswer(pc, mcu.txn, r) /\ mcu' = mcu
  BY <1>2, <1>3 DEF Receive
<1>5. Correlated(r)
  BY <1>4 DEF CalmAnswer, Correlated
<1>6. /\ pc.outcome \notin {"TimeoutError", "HostProtocolError", "RESULT_NOT_READY"}
      /\ pc.clean => pc.outcome \notin Refusals
      /\ r.code \in AnswerCodes
      /\ mcu.txn # None => mcu.txn.id \in Txids /\ mcu.txn.id # None
  BY <1>1, NoneAssumption DEF CalmInv, Answers, HostTypeOK, Firmwares, Transactions, NoneAssumption
<1>7. /\ "OK" \notin {"TimeoutError", "HostProtocolError", "RESULT_NOT_READY"} /\ "OK" \notin Refusals
      /\ {"request", "query", "retire", "status", "clean", "preRetire"} \subseteq Phases \ {"closed", "idle"}
  BY DEF Refusals, Phases
<1>9. CASE /\ r.code # "OK" /\ pc.phase = "request" /\ pc.op \in RetainedOps
           /\ Sent("status", "GET_SYSTEM_STATUS", None, r.code, pc.host, pc.current)
  <2> DEFINE f == [cmd |-> "GET_SYSTEM_STATUS", id |-> pc.next, arg |-> None]
  <2>1. /\ f = [cmd |-> "GET_SYSTEM_STATUS", id |-> pc.next, arg |-> None]
        /\ f.cmd = "GET_SYSTEM_STATUS" /\ f.id = pc.next /\ f.arg = None
    OBVIOUS
  <2> HIDE DEF f
  <2>2. r.code \notin {"TimeoutError", "HostProtocolError", "RESULT_NOT_READY"}
    BY <1>4, <1>6, <1>9 DEF CalmAnswer, AnswerCodes, Refusals
  <2>3. pc.clean => r.code \notin Refusals
    BY <1>4, <1>9 DEF CalmAnswer
  <2>4. CalmRequest(pc', mcu'.txn, f)
    BY <1>9, <2>1 DEF Sent, CalmRequest, Awaited
  <2> QED BY <1>2, <1>3, <1>4, <1>7, <1>9, <2>1, <2>2, <2>3, <2>4, CalmSent
<1>10. CASE /\ r.code # "OK" /\ ~(pc.phase = "request" /\ pc.op \in RetainedOps) /\ Raised(r.code)
  <2>1. pc.phase = "request" /\ pc.op \notin RetainedOps
    BY <1>4, <1>10 DEF CalmAnswer
  <2>2. Finished(r.code)
    BY <1>10, <2>1 DEF Raised
  <2>3. r.code \notin {"TimeoutError", "HostProtocolError", "RESULT_NOT_READY"}
    BY <1>4, <1>6, <2>1 DEF CalmAnswer, AnswerCodes, Refusals
  <2>4. pc.clean => r.code \notin Refusals
    BY <1>4, <2>1 DEF CalmAnswer
  <2> QED BY <1>2, <1>3, <1>4, <2>1, <2>2, <2>3, <2>4, CalmFinished
<1>11. CASE r.code = "OK" /\ pc.phase = "request" /\ pc.op.cmd = "PING" /\ Finished("OK")
  <2>1. pc.op \notin RetainedOps
    BY <1>11, OpFacts
  <2> QED BY <1>2, <1>3, <1>4, <1>7, <1>11, <2>1, CalmFinished
<1>12. CASE /\ r.code = "OK" /\ pc.phase = "request" /\ pc.op.cmd # "PING"
            /\ Sent("query", "GET_TXN_RESULT", r.id, pc.outcome, r.id, r.current)
  <2> DEFINE f == [cmd |-> "GET_TXN_RESULT", id |-> pc.next, arg |-> r.id]
  <2>1. /\ f = [cmd |-> "GET_TXN_RESULT", id |-> pc.next, arg |-> r.id]
        /\ f.cmd = "GET_TXN_RESULT" /\ f.id = pc.next /\ f.arg = r.id
    OBVIOUS
  <2> HIDE DEF f
  <2>2. Succeeded(pc, mcu.txn, r.id)
    BY <1>4, <1>12 DEF CalmAnswer
  <2>3. CalmRequest(pc', mcu'.txn, f)
    BY <1>4, <1>12, <2>1, <2>2 DEF Sent, CalmRequest, Awaited, Succeeded
  <2> QED BY <1>2, <1>3, <1>4, <1>6, <1>7, <1>12, <2>1, <2>3, CalmSent
<1>13. CASE /\ r.code = "OK" /\ pc.phase = "query"
            /\ Sent("retire", "RETIRE_TXN_RESULT", pc.host, IF Verified(r) THEN "OK" ELSE "HostProtocolError",
                    pc.host, pc.current)
  <2> DEFINE f == [cmd |-> "RETIRE_TXN_RESULT", id |-> pc.next, arg |-> pc.host]
  <2>1. /\ f = [cmd |-> "RETIRE_TXN_RESULT", id |-> pc.next, arg |-> pc.host]
        /\ f.cmd = "RETIRE_TXN_RESULT" /\ f.id = pc.next /\ f.arg = pc.host
    OBVIOUS
  <2> HIDE DEF f
  <2>2. r.data = mcu.txn /\ Succeeded(pc, mcu.txn, pc.host)
    BY <1>4, <1>13 DEF CalmAnswer
  <2>3. Verified(r)
    BY <2>2 DEF Verified, Succeeded, Holds
  <2>4. Sent("retire", "RETIRE_TXN_RESULT", pc.host, "OK", pc.host, pc.current)
    BY <1>13, <2>3
  <2>5. CalmRequest(pc', mcu'.txn, f)
    BY <1>4, <2>1, <2>2, <2>4 DEF Sent, CalmRequest, Awaited, Succeeded
  <2> QED BY <1>2, <1>3, <1>4, <1>7, <2>1, <2>4, <2>5, CalmSent
<1>14. CASE r.code = "OK" /\ pc.phase = "query" /\ ~Verified(r)
  BY <1>4, <1>14 DEF CalmAnswer, Verified, Succeeded, Holds
<1>15. CASE r.code = "OK" /\ pc.phase = "status" /\ r.data = None /\ Finished(pc.outcome)
  <2>1. mcu.txn = None
    BY <1>4, <1>6, <1>15 DEF CalmAnswer
  <2> QED BY <1>2, <1>3, <1>4, <1>6, <1>15, <2>1, CalmFinished
<1>16. CASE /\ r.code = "OK" /\ pc.phase = "preStatus" /\ r.data = None
            /\ Sent("request", pc.op.cmd, pc.op.arg, pc.outcome, pc.host, pc.current)
  <2> DEFINE f == [cmd |-> pc.op.cmd, id |-> pc.next, arg |-> pc.op.arg]
  <2>1. /\ f = [cmd |-> pc.op.cmd, id |-> pc.next, arg |-> pc.op.arg]
        /\ f.cmd = pc.op.cmd /\ f.id = pc.next /\ f.arg = pc.op.arg
    OBVIOUS
  <2> HIDE DEF f
  <2>2. mcu.txn = None
    BY <1>4, <1>6, <1>16 DEF CalmAnswer
  <2>3. CalmRequest(pc', mcu'.txn, f)
    BY <1>4, <1>16, <2>1, <2>2 DEF Sent, CalmRequest, Awaited
  <2> QED BY <1>2, <1>3, <1>4, <1>6, <1>7, <1>16, <2>1, <2>3, CalmSent
<1>17. CASE /\ r.code = "OK" /\ pc.phase = "status" /\ r.data # None
            /\ Sent("clean", "RETIRE_TXN_RESULT", r.data, pc.outcome, pc.host, pc.current)
  <2> DEFINE f == [cmd |-> "RETIRE_TXN_RESULT", id |-> pc.next, arg |-> r.data]
  <2>1. /\ f = [cmd |-> "RETIRE_TXN_RESULT", id |-> pc.next, arg |-> r.data]
        /\ f.cmd = "RETIRE_TXN_RESULT" /\ f.id = pc.next /\ f.arg = r.data
    OBVIOUS
  <2> HIDE DEF f
  <2>2. Holds(mcu.txn, r.data)
    BY <1>4, <1>17 DEF CalmAnswer, Holds
  <2>3. CalmRequest(pc', mcu'.txn, f)
    BY <1>4, <1>17, <2>1, <2>2 DEF Sent, CalmRequest, Awaited
  <2> QED BY <1>2, <1>3, <1>4, <1>6, <1>7, <1>17, <2>1, <2>3, CalmSent
<1>18. CASE /\ r.code = "OK" /\ pc.phase = "preStatus" /\ r.data # None
            /\ Sent("preRetire", "RETIRE_TXN_RESULT", r.data, pc.outcome, pc.host, pc.current)
  <2> DEFINE f == [cmd |-> "RETIRE_TXN_RESULT", id |-> pc.next, arg |-> r.data]
  <2>1. /\ f = [cmd |-> "RETIRE_TXN_RESULT", id |-> pc.next, arg |-> r.data]
        /\ f.cmd = "RETIRE_TXN_RESULT" /\ f.id = pc.next /\ f.arg = r.data
    OBVIOUS
  <2> HIDE DEF f
  <2>2. Holds(mcu.txn, r.data)
    BY <1>4, <1>18 DEF CalmAnswer, Holds
  <2>3. CalmRequest(pc', mcu'.txn, f)
    BY <1>4, <1>18, <2>1, <2>2 DEF Sent, CalmRequest, Awaited
  <2> QED BY <1>2, <1>3, <1>4, <1>6, <1>7, <1>18, <2>1, <2>3, CalmSent
<1>19. CASE r.code = "OK" /\ pc.phase \in {"retire", "clean"} /\ Finished(pc.outcome)
  <2>1. mcu.txn = None
    BY <1>4, <1>19 DEF CalmAnswer
  <2> QED BY <1>2, <1>3, <1>4, <1>6, <1>19, <2>1, CalmFinished
<1>20. CASE /\ r.code = "OK" /\ pc.phase = "preRetire"
            /\ Sent("request", pc.op.cmd, pc.op.arg, pc.outcome, pc.host, pc.current)
  <2> DEFINE f == [cmd |-> pc.op.cmd, id |-> pc.next, arg |-> pc.op.arg]
  <2>1. /\ f = [cmd |-> pc.op.cmd, id |-> pc.next, arg |-> pc.op.arg]
        /\ f.cmd = pc.op.cmd /\ f.id = pc.next /\ f.arg = pc.op.arg
    OBVIOUS
  <2> HIDE DEF f
  <2>2. mcu.txn = None
    BY <1>4, <1>20 DEF CalmAnswer
  <2>3. CalmRequest(pc', mcu'.txn, f)
    BY <1>4, <1>20, <2>1, <2>2 DEF Sent, CalmRequest, Awaited
  <2> QED BY <1>2, <1>3, <1>4, <1>6, <1>7, <1>20, <2>1, <2>3, CalmSent
<1> QED BY <1>1, <1>5, <1>9, <1>10, <1>11, <1>12, <1>13, <1>14, <1>15, <1>16, <1>17, <1>18, <1>19, <1>20
        DEF Reaction

(* An undisturbed process starts an operation. *)
LEMMA CalmStart ==
  ASSUME HostTypeOK, CalmInv, calm, NEW op \in Ops, StartOp(op)
  PROVE  CalmInv'
<1>1. PICK phase, cmd, arg :
        /\ phase \in {"preStatus", "request"}
        /\ Started(op, phase, cmd, arg) /\ cmd = (IF phase = "request" THEN op.cmd ELSE "GET_SYSTEM_STATUS")
  <2>1. CASE Started(op, "preStatus", "GET_SYSTEM_STATUS", None)
    BY <2>1
  <2>2. CASE Started(op, "request", op.cmd, op.arg)
    BY <2>2
  <2> QED BY <2>1, <2>2, StartSound
<1>2. pc.phase = "idle" /\ mcu' = mcu /\ toPc' = toPc
  BY StartSound
<1>3. ~mcu.booting /\ toMcu = <<>> /\ toPc = <<>> /\ (pc.ops > 0 /\ pc.op \in RetainedOps => mcu.txn = None)
  BY <1>2 DEF CalmInv, Waiting
<1> DEFINE f == [cmd |-> cmd, id |-> pc.next, arg |-> arg]
<1>4. f = [cmd |-> cmd, id |-> pc.next, arg |-> arg] /\ f.cmd = cmd /\ f.id = pc.next
  OBVIOUS
<1> HIDE DEF f
<1>5. toMcu' = Append(toMcu, f) /\ f \in Frames /\ toMcu \in Seq(Frames)
  BY <1>1, <1>4 DEF Started, HostTypeOK
<1>6. Len(toMcu') = 1 /\ toMcu'[1] = f
  BY <1>3, <1>5
<1>7. /\ pc'.phase = phase /\ pc'.id = pc.next /\ pc'.outcome = "none" /\ pc'.op = op
      /\ pc'.clean => mcu.txn = None
  BY <1>1, <1>3 DEF Started
<1>8. CalmRequest(pc', mcu'.txn, f)
  BY <1>1, <1>2, <1>4, <1>7 DEF CalmRequest, Awaited
<1> QED BY <1>1, <1>2, <1>3, <1>6, <1>7, <1>8 DEF CalmInv, Waiting, Refusals

(* The invariant of an undisturbed process. *)
LEMMA CalmNext ==
  ASSUME HostTypeOK, CalmInv, Next
  PROVE  CalmInv'
<1>1. CASE ~calm'
  BY <1>1 DEF CalmInv
<1> SUFFICES ASSUME calm' PROVE CalmInv'
  BY <1>1
<1>2. CASE HandleRequest
  BY <1>2, CalmHandle DEF HandleRequest
<1>3. CASE Receive
  BY <1>3, CalmReceive DEF Receive
<1>4. CASE \E op \in Ops : StartOp(op)
  BY <1>4, CalmStart DEF StartOp
<1>5. CASE OpenClient
  <2> DEFINE a == (toMcu = <<>>)
  <2>1. pc' = [Closed EXCEPT !.phase = "idle", !.alone = a] /\ toPc' = <<>>
    BY <1>5 DEF OpenClient, Open
  <2>2. toMcu = <<>> /\ ~mcu.booting /\ mcu' = mcu /\ toMcu' = toMcu
    BY <1>5 DEF OpenClient
  <2> HIDE DEF a
  <2>3. pc'.phase = "idle" /\ pc'.ops = 0 /\ pc'.outcome = "none" /\ pc'.clean = FALSE
    BY <2>1, ClosedFacts DEF Clients
  <2> QED BY <2>1, <2>2, <2>3 DEF CalmInv, Waiting
<1>6. CASE CloseClient
  <2>1. ~Waiting /\ calm /\ pc' = Closed /\ UNCHANGED <<mcu, toMcu, toPc>>
    BY <1>6 DEF CloseClient, Trouble
  <2>2. pc'.phase = "closed" /\ pc'.outcome = "none" /\ pc'.clean = FALSE
    BY <2>1, ClosedFacts
  <2> QED BY <2>1, <2>2 DEF CalmInv, Waiting
<1>7. CASE TimeOut
  <2>1. Waiting /\ toPc = <<>> /\ toMcu = <<>> /\ calm
    BY <1>7 DEF TimeOut, Trouble
  <2> QED BY <2>1 DEF CalmInv
<1>8. CASE StartupDone
  BY <1>8 DEF StartupDone, CalmInv
<1>9. CASE PeriodicProbe
  <2>1. PICK s \in ControllerStates : mcu' = [mcu EXCEPT !.state = s]
    BY <1>9 DEF PeriodicProbe
  <2>2. mcu'.txn = mcu.txn /\ mcu'.booting = mcu.booting
    BY <2>1 DEF HostTypeOK, Firmwares
  <2> QED BY <1>9, <2>2 DEF PeriodicProbe, CalmInv, Waiting
<1>10. CASE DamageRequest \/ DamageAnswer \/ ResetMcu \/ ContainFault
  BY <1>10 DEF DamageRequest, DamageAnswer, ResetMcu, ContainFault, Trouble
<1> QED BY <1>2, <1>3, <1>4, <1>5, <1>6, <1>7, <1>8, <1>9, <1>10 DEF Next

(* While nothing disturbs a process, one frame of one exchange is on its    *)
(* way, and the firmware holds what the phase of the client supposes.       *)
LEMMA CalmInvariant == HostSpec => [](HostTypeOK /\ CalmInv)
<1>1. Init => CalmInv
  BY DEF Init, CalmInv
<1>2. HostTypeOK /\ CalmInv /\ [Next]_vars => CalmInv'
  <2> SUFFICES ASSUME HostTypeOK, CalmInv, [Next]_vars PROVE CalmInv'
    OBVIOUS
  <2>1. CASE UNCHANGED vars
    BY <2>1 DEF vars, CalmInv, Waiting
  <2> QED BY <2>1, CalmNext
<1> QED BY <1>1, <1>2, HostTypeTheorem, PTL DEF HostSpec

(* A process that finds the line quiet and the firmware started, and meets  *)
(* no trouble, reads the answer to its own request every time.              *)
THEOREM UndisturbedTheorem == HostSpec => []UndisturbedUnderstood
<1>1. CalmInv => UndisturbedUnderstood
  BY DEF CalmInv, UndisturbedUnderstood
<1> QED BY <1>1, CalmInvariant, PTL

(* A left-over result refuses no operation of an undisturbed process after  *)
(* a managed one: that one retired whatever was active.                     *)
THEOREM RefusedTheorem == HostSpec => []RefusedAtMostOnce
<1>1. CalmInv => RefusedAtMostOnce
  BY DEF CalmInv, RefusedAtMostOnce, Refusals
<1> QED BY <1>1, CalmInvariant, PTL

-----------------------------------------------------------------------------
(* The process that is alone on the line.                                   *)

(* No process lives long enough for its identifiers to come round. *)
NoWrap == 5 * MaxOps < MaxTxid

(* An identifier that is free while the process is alone. *)
LEMMA AloneNumbers ==
  ASSUME HostTypeOK, AloneInv, pc.alone, NoWrap, Waiting \/ pc.ops < MaxOps, Used <= 4 \/ pc.phase = "idle"
  PROVE  /\ pc.next \in Nat /\ pc.next < MaxTxid /\ (pc.next % MaxTxid) + 1 = pc.next + 1
         /\ pc.ops \in Nat
<1>1. pc.next \in Txids /\ pc.ops \in Nat /\ MaxOps \in Nat /\ MaxTxid \in Nat
  BY HostAssumption DEF HostTypeOK, Clients, HostAssumption
<1>2. pc.next \in Nat /\ Used \in 1..5
  BY <1>1 DEF Txids, Used
<1>3. pc.ops <= MaxOps /\ pc.next + 5 <= 5 * pc.ops + Used + 1
  BY DEF AloneInv
<1>4. pc.next < MaxTxid
  <2>1. CASE Used <= 4
    BY <1>1, <1>2, <1>3, <2>1 DEF NoWrap
  <2>2. CASE pc.phase = "idle"
    <3>1. pc.ops < MaxOps
      BY <2>2 DEF Waiting
    <3> QED BY <1>1, <1>2, <1>3, <3>1 DEF NoWrap
  <2> QED BY <2>1, <2>2
<1> QED BY <1>1, <1>2, <1>4, NextTxid

(* The new frame has the largest identifier on the line. *)
LEMMA AloneAppend ==
  ASSUME HostTypeOK, AloneInv, pc.alone, NEW f \in Frames, f.id = pc.next, toMcu' = Append(toMcu, f),
         pc'.next = pc.next + 1, pc.next \in Nat
  PROVE  /\ \A i \in 1..Len(toMcu') : toMcu'[i].id < pc'.next
         /\ \A i, j \in 1..Len(toMcu') : i < j => toMcu'[i].id < toMcu'[j].id
         /\ \A i \in 1..Len(toMcu') : toMcu'[i].id = pc.next => toMcu'[i] = f
         /\ toMcu = <<>> => Len(toMcu') = 1 /\ toMcu'[1] = f
<1>1. toMcu \in Seq(Frames) /\ Len(toMcu) \in Nat
  BY DEF HostTypeOK
<1>2. /\ Len(toMcu') = Len(toMcu) + 1 /\ toMcu'[Len(toMcu) + 1] = f
      /\ \A i \in 1..Len(toMcu) : toMcu'[i] = toMcu[i]
  BY <1>1, AppendFacts
<1>3. /\ \A i \in 1..Len(toMcu) : toMcu[i].id < pc.next
      /\ \A i, j \in 1..Len(toMcu) : i < j => toMcu[i].id < toMcu[j].id
  BY DEF AloneInv
<1>4. \A i \in 1..Len(toMcu) : toMcu[i].id \in Nat
  <2>1. \A q \in Frames : q.id \in Txids
    BY DEF Frames
  <2>2. \A i \in 1..Len(toMcu) : toMcu[i] \in Frames
    BY <1>1
  <2> QED BY <2>1, <2>2 DEF Txids
<1>5. \A i \in 1..Len(toMcu') : i = Len(toMcu) + 1 \/ i \in 1..Len(toMcu)
  BY <1>1, <1>2
<1>6. \A i \in 1..Len(toMcu') : toMcu'[i].id < pc'.next
  BY <1>2, <1>3, <1>4, <1>5
<1>7. \A i \in 1..Len(toMcu') : toMcu'[i].id = pc.next => toMcu'[i] = f
  BY <1>2, <1>3, <1>4, <1>5
<1>8. ASSUME NEW i \in 1..Len(toMcu'), NEW j \in 1..Len(toMcu'), i < j
      PROVE  toMcu'[i].id < toMcu'[j].id
  <2>1. i \in 1..Len(toMcu)
    BY <1>1, <1>2, <1>8
  <2>2. toMcu'[i] = toMcu[i] /\ toMcu[i].id < pc.next
    BY <1>3, <1>4, <2>1
  <2>3. CASE j \in 1..Len(toMcu)
    BY <1>3, <1>8, <2>1, <2>2, <2>3
  <2>4. CASE j \notin 1..Len(toMcu)
    <3>1. j = Len(toMcu) + 1
      BY <1>1, <1>2, <2>4
    <3> QED BY <1>2, <1>5, <2>2, <3>1
  <2> QED BY <2>3, <2>4
<1> QED BY <1>1, <1>2, <1>6, <1>7, <1>8

(* What the line to the client may hold when the next request is sent. *)
Behind == \A i \in 1..Len(toPc') : toPc'[i].id \in Nat /\ toPc'[i].id < pc.next

(* A request of a process that goes on with its operation. *)
LEMMA AloneSent ==
  ASSUME HostTypeOK, HostTypeOK', AloneInv, NoWrap, Waiting, Used <= 4, Used' >= Used + 1, Behind,
         NEW phase \in Phases \ {"closed", "idle"}, NEW cmd, NEW arg, NEW outcome, NEW host, NEW current,
         Sent(phase, cmd, arg, outcome, host, current),
         cmd = Awaited(pc'), phase = "request" => arg = pc.op.arg,
         pc.alone /\ phase \in {"query", "retire"} => current /\ toMcu = <<>>,
         pc.alone /\ EmergencyAll(pc.op) => outcome \notin Refusals
  PROVE  AloneInv'
<1> SUFFICES ASSUME pc.alone PROVE AloneInv'
  BY DEF Sent, AloneInv
<1> DEFINE f == [cmd |-> cmd, id |-> pc.next, arg |-> arg]
<1>1. f \in Frames /\ toMcu' = Append(toMcu, f) /\ f.id = pc.next /\ f.cmd = cmd /\ f.arg = arg
  BY DEF Sent
<1> HIDE DEF f
<1>2. pc.next \in Nat /\ (pc.next % MaxTxid) + 1 = pc.next + 1 /\ pc.ops \in Nat
  BY AloneNumbers
<1>3. /\ pc'.phase = phase /\ pc'.id = pc.next /\ pc'.next = pc.next + 1 /\ pc'.outcome = outcome
      /\ pc'.current = current /\ pc'.op = pc.op /\ pc'.ops = pc.ops /\ pc'.alone = pc.alone
  BY <1>2 DEF Sent
<1>4. /\ \A i \in 1..Len(toMcu') : toMcu'[i].id < pc'.next
      /\ \A i, j \in 1..Len(toMcu') : i < j => toMcu'[i].id < toMcu'[j].id
      /\ \A i \in 1..Len(toMcu') : toMcu'[i].id = pc.next => toMcu'[i] = f
      /\ toMcu = <<>> => Len(toMcu') = 1 /\ toMcu'[1] = f
  BY <1>1, <1>2, <1>3, AloneAppend
<1>5. pc'.phase # "closed" /\ pc'.ops <= MaxOps
  BY <1>3 DEF AloneInv
<1>6. pc'.next + 5 <= 5 * pc'.ops + Used' + 1
  <2>1. pc.next + 5 <= 5 * pc.ops + Used + 1
    BY DEF AloneInv
  <2>2. Used \in 1..5 /\ Used' \in 1..5
    BY DEF Used
  <2>3. pc'.next = pc.next + 1 /\ pc'.ops = pc.ops /\ Used' >= Used + 1
    BY <1>3
  <2> DEFINE n == pc.next
             m == pc.ops
             u == Used
             v == Used'
  <2> HIDE DEF n, m, u, v
  <2>4. n \in Nat /\ m \in Nat /\ u \in Nat /\ v \in Nat /\ n + 5 <= 5 * m + u + 1 /\ v >= u + 1
    BY <1>2, <2>1, <2>2, <2>3 DEF n, m, u, v
  <2>5. (n + 1) + 5 <= 5 * m + v + 1
    BY <2>4
  <2> QED BY <2>3, <2>5 DEF n, m, v
<1>7. Waiting' /\ pc'.id + 1 = pc'.next /\ pc'.ops > 0
  BY <1>3 DEF AloneInv, Waiting
<1>8. \A i \in 1..Len(toPc') : toPc'[i].id < pc'.next /\ toPc'[i].id # pc'.id
  BY <1>2, <1>3 DEF Behind
<1>9. \A i \in 1..Len(toMcu') : toMcu'[i].id = pc'.id =>
         toMcu'[i].cmd = Awaited(pc') /\ (pc'.phase = "request" => toMcu'[i].arg = pc'.op.arg)
  BY <1>1, <1>3, <1>4
<1>10. pc'.phase \in {"query", "retire"} => pc'.current /\ \A i \in 1..Len(toMcu') : toMcu'[i].id = pc'.id
  BY <1>1, <1>3, <1>4
<1>11. EmergencyAll(pc'.op) => pc'.outcome \notin Refusals
  BY <1>3
<1> QED BY <1>4, <1>5, <1>6, <1>7, <1>8, <1>9, <1>10, <1>11 DEF AloneInv

(* Its operation ends. *)
LEMMA AloneFinished ==
  ASSUME HostTypeOK, AloneInv, Behind, NEW outcome, Finished(outcome),
         pc.alone /\ EmergencyAll(pc.op) => outcome \notin Refusals
  PROVE  AloneInv'
<1> SUFFICES ASSUME pc.alone PROVE AloneInv'
  BY DEF Finished, AloneInv
<1>1. /\ pc'.phase = "idle" /\ pc'.next = pc.next /\ pc'.op = pc.op /\ pc'.ops = pc.ops
      /\ pc'.outcome = outcome /\ toMcu' = toMcu
  BY DEF Finished
<1>2. ~Waiting' /\ Used' = 5 /\ Used \in 1..5
  BY <1>1 DEF Waiting, Used
<1>3. pc.next + 5 <= 5 * pc.ops + Used + 1 /\ pc.next \in Nat /\ pc.ops \in Nat
  BY DEF AloneInv, HostTypeOK, Clients, Txids
<1>4. pc'.next + 5 <= 5 * pc'.ops + Used' + 1
  BY <1>1, <1>2, <1>3
<1>5. \A i \in 1..Len(toPc') : toPc'[i].id < pc'.next
  BY <1>1 DEF Behind
<1> QED BY <1>1, <1>2, <1>4, <1>5 DEF AloneInv

(* Its exception. *)
LEMMA AloneRaised ==
  ASSUME HostTypeOK, HostTypeOK', AloneInv, NoWrap, Waiting, Behind, NEW what, Raised(what),
         pc.alone /\ EmergencyAll(pc.op) => what \notin Refusals
  PROVE  AloneInv'
<1>1. pc.alone /\ EmergencyAll(pc.op) => pc.outcome \notin Refusals
  BY DEF AloneInv
<1>2. CASE Finished(pc.outcome)
  BY <1>1, <1>2, AloneFinished
<1>3. CASE Finished(what)
  BY <1>3, AloneFinished
<1>4. CASE pc.phase \in {"preStatus", "preRetire"}
           /\ Sent("request", pc.op.cmd, pc.op.arg, pc.outcome, pc.host, pc.current)
  <2>1. pc'.phase = "request" /\ pc'.op = pc.op
    BY <1>4 DEF Sent
  <2>2. Used \in {1, 2} /\ Used' = 3 /\ Awaited(pc') = pc.op.cmd
    BY <1>4, <2>1 DEF Used, Awaited
  <2>3. "request" \in Phases \ {"closed", "idle"} /\ "request" \notin {"query", "retire"}
    BY DEF Phases
  <2> QED BY <1>1, <1>4, <2>2, <2>3, AloneSent
<1> QED BY <1>2, <1>3, <1>4 DEF Raised

(* The answers that remain after one is read are older than the next        *)
(* request.                                                                 *)
LEMMA AloneBehind ==
  ASSUME HostTypeOK, AloneInv, pc.alone, toPc # <<>>, toPc' = Tail(toPc)
  PROVE  Behind
<1>1. toPc \in Seq(Answers) /\ \A i \in 1..Len(toPc) : toPc[i].id < pc.next
  BY DEF HostTypeOK, AloneInv
<1>2. /\ Len(toPc) \in Nat /\ Len(toPc') = Len(toPc) - 1
      /\ \A i \in 1..Len(toPc) - 1 : toPc'[i] = toPc[i + 1]
  BY <1>1, TailFacts
<1>3. ASSUME NEW i \in 1..Len(toPc')
      PROVE  toPc'[i].id \in Nat /\ toPc'[i].id < pc.next
  <2>1. i \in 1..Len(toPc) - 1 /\ i + 1 \in 1..Len(toPc)
    BY <1>2
  <2>2. toPc[i + 1] \in Answers
    BY <1>1, <2>1
  <2> QED BY <1>1, <1>2, <2>1, <2>2 DEF Answers, Txids
<1> QED BY <1>3 DEF Behind

(* The process reads an answer. *)
LEMMA AloneReceive ==
  ASSUME HostTypeOK, HostTypeOK', AloneInv, NoWrap, Receive
  PROVE  AloneInv'
<1> DEFINE r == Head(toPc)
<1>1. Waiting /\ toPc # <<>> /\ r \in Answers /\ Answerable(r) /\ Reaction(r) /\ toPc' = Tail(toPc)
  BY ReceiveSound
<1>2. r = toPc[1] /\ 1 \in 1..Len(toPc)
  BY <1>1, TailFacts DEF HostTypeOK
<1>3. CASE ~pc.alone
  <2>1. pc'.alone = pc.alone
    BY <1>1 DEF Reaction, Raised, Sent, Finished
  <2> QED BY <1>3, <2>1 DEF AloneInv
<1>4. CASE pc.alone
  <2>1. Behind
    BY <1>1, <1>4, AloneBehind
  <2>2. Correlated(r) => /\ toMcu = <<>> /\ r.current
                         /\ pc.phase = "request" /\ EmergencyAll(pc.op) => r.code \notin Refusals
    BY <1>1, <1>2, <1>4 DEF AloneInv, Correlated
  <2> HIDE DEF r
  <2>3. EmergencyAll(pc.op) => pc.outcome \notin Refusals
    BY <1>4 DEF AloneInv
  <2>4. /\ "OK" \notin Refusals /\ "HostProtocolError" \notin Refusals
        /\ {"request", "query", "retire", "status", "clean", "preRetire"} \subseteq Phases \ {"closed", "idle"}
    BY DEF Refusals, Phases
  <2>5. CASE ~Correlated(r) /\ Raised("HostProtocolError")
    BY <1>1, <2>1, <2>4, <2>5, AloneRaised
  <2>6. CASE /\ Correlated(r) /\ pc.phase = "request"
             /\ Sent("status", "GET_SYSTEM_STATUS", None, r.code, pc.host, pc.current)
    <3>1. pc'.phase = "status"
      BY <2>6 DEF Sent
    <3>2. Used = 3 /\ Used' = 4 /\ Awaited(pc') = "GET_SYSTEM_STATUS"
      BY <2>6, <3>1 DEF Used, Awaited
    <3> QED BY <1>1, <2>1, <2>2, <2>4, <2>6, <3>2, AloneSent
  <2>7. CASE Correlated(r) /\ Raised(r.code)
    <3>1. EmergencyAll(pc.op) /\ pc.phase \in {"query", "retire"} => r.code \notin Refusals
      BY <1>1, <2>7 DEF Correlated, Awaited, Answerable, Refusals
    <3>2. CASE pc.phase \in {"request", "query", "retire"}
      BY <1>1, <2>1, <2>2, <2>7, <3>1, <3>2, AloneRaised
    <3>3. CASE pc.phase \notin {"request", "query", "retire"}
      <4>1. Raised("OK")
        BY <2>7, <3>3 DEF Raised
      <4> QED BY <1>1, <2>1, <2>4, <4>1, AloneRaised
    <3> QED BY <3>2, <3>3
  <2>8. CASE Finished("OK") \/ Finished("HostProtocolError") \/ Finished(pc.outcome)
    BY <2>1, <2>3, <2>4, <2>8, AloneFinished
  <2>9. CASE /\ Correlated(r) /\ pc.phase = "request"
             /\ Sent("query", "GET_TXN_RESULT", r.id, pc.outcome, r.id, r.current)
    <3>1. pc'.phase = "query"
      BY <2>9 DEF Sent
    <3>2. Used = 3 /\ Used' = 4 /\ Awaited(pc') = "GET_TXN_RESULT"
      BY <2>9, <3>1 DEF Used, Awaited
    <3> QED BY <1>1, <2>1, <2>2, <2>3, <2>4, <2>9, <3>2, AloneSent
  <2>10. CASE /\ Correlated(r) /\ pc.phase = "query"
              /\ Sent("retire", "RETIRE_TXN_RESULT", pc.host, IF Verified(r) THEN "OK" ELSE "HostProtocolError",
                      pc.host, pc.current)
    <3> DEFINE o == IF Verified(r) THEN "OK" ELSE "HostProtocolError"
    <3>1. Sent("retire", "RETIRE_TXN_RESULT", pc.host, o, pc.host, pc.current) /\ o \notin Refusals
      BY <2>4, <2>10
    <3> HIDE DEF o
    <3>2. pc'.phase = "retire"
      BY <3>1 DEF Sent
    <3>3. Used = 4 /\ Used' = 5 /\ Awaited(pc') = "RETIRE_TXN_RESULT"
      BY <2>10, <3>2 DEF Used, Awaited
    <3>4. pc.current
      BY <1>4, <2>10 DEF AloneInv
    <3>5. /\ Used <= 4 /\ Used' >= Used + 1 /\ "retire" \in Phases \ {"closed", "idle"}
          /\ "retire" # "request" /\ toMcu = <<>>
      BY <2>2, <2>4, <2>10, <3>3
    <3> QED BY <1>1, <2>1, <3>1, <3>3, <3>4, <3>5, AloneSent
  <2>11. CASE /\ pc.phase \in {"preStatus", "preRetire"}
              /\ Sent("request", pc.op.cmd, pc.op.arg, pc.outcome, pc.host, pc.current)
    <3>1. Raised("OK")
      BY <2>11 DEF Raised
    <3> QED BY <1>1, <2>1, <2>4, <3>1, AloneRaised
  <2>12. CASE /\ pc.phase = "status"
              /\ Sent("clean", "RETIRE_TXN_RESULT", r.data, pc.outcome, pc.host, pc.current)
    <3>1. pc'.phase = "clean"
      BY <2>12 DEF Sent
    <3>2. Used = 4 /\ Used' = 5 /\ Awaited(pc') = "RETIRE_TXN_RESULT"
      BY <2>12, <3>1 DEF Used, Awaited
    <3> QED BY <1>1, <2>1, <2>3, <2>4, <2>12, <3>2, AloneSent
  <2>13. CASE /\ pc.phase = "preStatus"
              /\ Sent("preRetire", "RETIRE_TXN_RESULT", r.data, pc.outcome, pc.host, pc.current)
    <3>1. pc'.phase = "preRetire"
      BY <2>13 DEF Sent
    <3>2. Used = 1 /\ Used' = 2 /\ Awaited(pc') = "RETIRE_TXN_RESULT"
      BY <2>13, <3>1 DEF Used, Awaited
    <3> QED BY <1>1, <2>1, <2>3, <2>4, <2>13, <3>2, AloneSent
  <2> QED BY <1>1, <2>5, <2>6, <2>7, <2>8, <2>9, <2>10, <2>11, <2>12, <2>13 DEF Reaction
<1> QED BY <1>3, <1>4

(* What the handling of q tells the process. *)
LEMMA AloneHandled ==
  ASSUME HostTypeOK, NEW q \in Frames, Handled(q)
  PROVE  /\ q.cmd \notin ManagedCommands => pc' = pc
         /\ \E r \in Answers : /\ Extended(r) /\ r.id = q.id /\ r.current
                               /\ q.cmd \in ManagedCommands /\ EmergencyAll(q) => r.code \notin Refusals
<1>0. None \in AnswerData /\ {"OK", "FAILED"} \subseteq AnswerCodes
  BY DEF AnswerData, AnswerCodes
<1>1. CASE \E code, data : Told(q, code, data) /\ Replied(q, code, data)
  <2>1. PICK code, data : Told(q, code, data) /\ Replied(q, code, data)
    BY <1>1
  <2>2. /\ code \in AnswerCodes /\ data \in AnswerData
        /\ q.cmd \in ManagedCommands /\ EmergencyAll(q) => code \notin Refusals
    BY <2>1 DEF Told
  <2> DEFINE r == Reply(q, code, data)
  <2>3. Extended(r) /\ pc' = pc
    BY <2>1, <2>2, RepliedFacts
  <2>4. r \in Answers /\ r.id = q.id /\ r.code = code /\ r.current = TRUE
    <3>1. r \in Answers
      BY <2>2, ReplyFacts
    <3> QED BY <3>1 DEF Reply
  <2> HIDE DEF r
  <2> QED BY <2>2, <2>3, <2>4
<1>2. CASE Retired(q)
  <2>1. Replied(q, "OK", None) /\ "OK" \in AnswerCodes /\ "OK" \notin Refusals
    BY <1>0, <1>2 DEF Retired, Refusals
  <2> DEFINE r == Reply(q, "OK", None)
  <2>2. Extended(r) /\ pc' = pc
    BY <1>0, <2>1, RepliedFacts
  <2>3. r \in Answers /\ r.id = q.id /\ r.code = "OK" /\ r.current = TRUE
    <3>1. r \in Answers
      BY <1>0, <2>1, ReplyFacts
    <3> QED BY <3>1 DEF Reply
  <2> HIDE DEF r
  <2> QED BY <2>1, <2>2, <2>3
<1>3. CASE \E code : Executed(q, code)
  <2>1. PICK code : Executed(q, code)
    BY <1>3
  <2>2. code \in AnswerCodes /\ code \notin Refusals /\ q.cmd \in ManagedCommands
    BY <1>0, <2>1 DEF Executed, Refusals
  <2> DEFINE r == Reply(q, code, None)
  <2>3. Extended(r)
    BY <2>1, ExecutedFacts
  <2>4. r \in Answers /\ r.id = q.id /\ r.code = code /\ r.current = TRUE
    <3>1. r \in Answers
      BY <1>0, <2>2, ReplyFacts
    <3> QED BY <3>1 DEF Reply
  <2> HIDE DEF r
  <2> QED BY <2>2, <2>3, <2>4
<1> QED BY <1>1, <1>2, <1>3 DEF Handled

(* A request of the line is handled. *)
LEMMA AloneHandle ==
  ASSUME HostTypeOK, HostTypeOK', AloneInv, HandleRequest
  PROVE  AloneInv'
<1> DEFINE q == Head(toMcu)
<1>1. toMcu # <<>> /\ q \in Frames /\ Handled(q) /\ toMcu' = Tail(toMcu)
  BY HandleFacts
<1>2. SameButCurrent
  BY <1>1, HandledFacts
<1> SUFFICES ASSUME pc.alone PROVE AloneInv'
  BY <1>2 DEF AloneInv, SameButCurrent
<1>3. /\ toMcu \in Seq(Frames) /\ Len(toMcu) \in Nat /\ 1 <= Len(toMcu) /\ q = toMcu[1]
      /\ toMcu' \in Seq(Frames) /\ Len(toMcu') = Len(toMcu) - 1
      /\ \A i \in 1..Len(toMcu) - 1 : toMcu'[i] = toMcu[i + 1]
  BY <1>1, TailFacts DEF HostTypeOK
<1> HIDE DEF q
<1>4. PICK r \in Answers : /\ Extended(r) /\ r.id = q.id /\ r.current
                           /\ q.cmd \in ManagedCommands /\ EmergencyAll(q) => r.code \notin Refusals
  BY <1>1, AloneHandled
<1>5. /\ \A i \in 1..Len(toMcu) : toMcu[i].id < pc.next
      /\ \A i, j \in 1..Len(toMcu) : i < j => toMcu[i].id < toMcu[j].id
      /\ \A i \in 1..Len(toPc) : toPc[i].id < pc.next
      /\ Waiting => \A i \in 1..Len(toMcu) :
           toMcu[i].id = pc.id => /\ toMcu[i].cmd = Awaited(pc)
                                  /\ pc.phase = "request" => toMcu[i].arg = pc.op.arg
  BY DEF AloneInv
<1>6. \A i \in 1..Len(toMcu') : i \in 1..Len(toMcu) - 1 /\ i + 1 \in 1..Len(toMcu)
  BY <1>3
<1>7. \A i \in 1..Len(toMcu') : toMcu'[i].id < pc.next
  BY <1>3, <1>5, <1>6
<1>8. ASSUME NEW i \in 1..Len(toMcu'), NEW j \in 1..Len(toMcu'), i < j
      PROVE  toMcu'[i].id < toMcu'[j].id
  <2>1. i + 1 < j + 1 /\ i + 1 \in 1..Len(toMcu) /\ j + 1 \in 1..Len(toMcu)
    BY <1>6, <1>8
  <2> QED BY <1>3, <1>5, <1>6, <2>1
<1>9. 1 \in 1..Len(toMcu) /\ q.id < pc.next
  BY <1>3, <1>5
<1>10. toPc \in Seq(Answers) /\ Len(toPc) \in Nat
  BY DEF HostTypeOK
<1>11. \A i \in 1..Len(toPc') : (i \in 1..Len(toPc) /\ toPc'[i].id = toPc[i].id) \/ toPc'[i] = r
  BY <1>4, <1>10 DEF Extended
<1>12. \A i \in 1..Len(toPc') : toPc'[i].id < pc.next
  BY <1>4, <1>5, <1>9, <1>11
<1>13. Waiting => \A i \in 1..Len(toMcu') :
           toMcu'[i].id = pc.id => /\ toMcu'[i].cmd = Awaited(pc)
                                   /\ pc.phase = "request" => toMcu'[i].arg = pc.op.arg
  BY <1>3, <1>5, <1>6
<1>14. ASSUME Waiting, NEW i \in 1..Len(toPc'), toPc'[i].id = pc.id
       PROVE  /\ toMcu' = <<>> /\ toPc'[i].current
              /\ pc.phase = "request" /\ EmergencyAll(pc.op) => toPc'[i].code \notin Refusals
  <2>1. toPc'[i] = r
    <3>1. \A k \in 1..Len(toPc) : toPc[k].id # pc.id
      BY <1>1, <1>14 DEF AloneInv
    <3> QED BY <1>11, <1>14, <3>1
  <2>2. q.id = pc.id /\ pc.id + 1 = pc.next /\ pc.id \in Nat
    BY <1>4, <1>14, <2>1 DEF AloneInv, HostTypeOK, Txids
  <2>3. Len(toMcu) = 1
    <3>1. ASSUME Len(toMcu) # 1
          PROVE  FALSE
      <4>1. 2 \in 1..Len(toMcu) /\ 1 < 2
        BY <1>3, <3>1
      <4>2. toMcu[1].id < toMcu[2].id /\ toMcu[2].id < pc.next
        BY <1>5, <1>9, <4>1
      <4>3. toMcu[2].id \in Nat
        <5>1. toMcu[2] \in Frames
          BY <1>3, <4>1
        <5> QED BY <5>1 DEF Frames, Txids
      <4> QED BY <1>3, <2>2, <4>2, <4>3
    <3> QED BY <3>1
  <2>4. toMcu' = <<>>
    BY <1>3, <2>3
  <2>5. pc.phase = "request" /\ EmergencyAll(pc.op) => q.cmd \in ManagedCommands /\ EmergencyAll(q)
    <3>1. q.cmd = Awaited(pc) /\ (pc.phase = "request" => q.arg = pc.op.arg)
      BY <1>3, <1>5, <1>9, <1>14, <2>2
    <3>2. pc.op.cmd \in OpCommands
      BY SameClient, OpFacts
    <3> QED BY <3>1, <3>2 DEF Awaited, EmergencyAll, ManagedCommands
  <2> QED BY <1>4, <2>1, <2>4, <2>5
<1>15. pc.phase \in {"query", "retire"} => pc' = pc
  <2> SUFFICES ASSUME pc.phase \in {"query", "retire"} PROVE pc' = pc
    OBVIOUS
  <2>1. Waiting /\ q.id = pc.id
    BY <1>3, <1>9 DEF Waiting, AloneInv
  <2>2. q.cmd \in Retrievals
    BY <1>3, <1>5, <1>9, <2>1 DEF Awaited, Retrievals
  <2>3. q.cmd \notin ManagedCommands
    BY <2>2, OpFacts DEF Retrievals, ManagedCommands
  <2> QED BY <1>1, <2>3, AloneHandled
<1>16. pc.phase \in {"query", "retire"} => pc'.current /\ \A i \in 1..Len(toMcu') : toMcu'[i].id = pc.id
  BY <1>3, <1>6, <1>15 DEF AloneInv
<1>17. /\ pc.phase # "closed" /\ pc.ops <= MaxOps /\ pc.next + 5 <= 5 * pc.ops + Used + 1
       /\ Waiting => pc.id + 1 = pc.next /\ pc.ops > 0
       /\ EmergencyAll(pc.op) => pc.outcome \notin Refusals
  BY DEF AloneInv
<1>18. Used' = Used /\ Awaited(pc') = Awaited(pc) /\ Waiting' = Waiting
  BY <1>2 DEF SameButCurrent, Used, Awaited, Waiting
<1> QED BY <1>2, <1>7, <1>8, <1>12, <1>13, <1>14, <1>16, <1>17, <1>18 DEF AloneInv, SameButCurrent

(* Frames are lost, in their order, and answers lost or damaged. *)
LEMMA AloneLost ==
  ASSUME HostTypeOK, HostTypeOK', AloneInv, pc' = pc,
         \A i \in 1..Len(toMcu') : \E k \in 1..Len(toMcu) : toMcu'[i] = toMcu[k],
         pc.alone => \A i, j \in 1..Len(toMcu') : i < j => toMcu'[i].id < toMcu'[j].id,
         \A i \in 1..Len(toPc') : \E k \in 1..Len(toPc) :
           toPc'[i].id = toPc[k].id /\ toPc'[i].code = toPc[k].code /\ toPc'[i].current = toPc[k].current
  PROVE  AloneInv'
<1> SUFFICES ASSUME pc.alone PROVE AloneInv'
  BY DEF AloneInv
<1>1. Used' = Used /\ Awaited(pc') = Awaited(pc) /\ Waiting' = Waiting
  BY DEF Used, Awaited, Waiting
<1>2. toMcu = <<>> => toMcu' = <<>>
  <2> SUFFICES ASSUME toMcu = <<>> PROVE toMcu' = <<>>
    OBVIOUS
  <2>1. 1..Len(toMcu) = {} /\ toMcu' \in Seq(Frames)
    BY DEF HostTypeOK
  <2>2. 1 \notin 1..Len(toMcu')
    BY <2>1
  <2> QED BY <2>1, <2>2
<1>3. \A i \in 1..Len(toMcu') : toMcu'[i].id < pc.next
  BY DEF AloneInv
<1>4. \A i \in 1..Len(toPc') : toPc'[i].id < pc.next
  BY DEF AloneInv
<1>5. Waiting => \A i \in 1..Len(toMcu') :
         toMcu'[i].id = pc.id => /\ toMcu'[i].cmd = Awaited(pc)
                                 /\ pc.phase = "request" => toMcu'[i].arg = pc.op.arg
  <2> SUFFICES ASSUME Waiting, NEW i \in 1..Len(toMcu'), toMcu'[i].id = pc.id
               PROVE  /\ toMcu'[i].cmd = Awaited(pc)
                      /\ pc.phase = "request" => toMcu'[i].arg = pc.op.arg
    OBVIOUS
  <2>1. PICK k \in 1..Len(toMcu) : toMcu'[i] = toMcu[k]
    OBVIOUS
  <2>2. toMcu[k].id = pc.id =>
          toMcu[k].cmd = Awaited(pc) /\ (pc.phase = "request" => toMcu[k].arg = pc.op.arg)
    BY DEF AloneInv
  <2> QED BY <2>1, <2>2
<1>6. Waiting => \A i \in 1..Len(toPc') :
         toPc'[i].id = pc.id =>
           /\ toMcu' = <<>> /\ toPc'[i].current
           /\ pc.phase = "request" /\ EmergencyAll(pc.op) => toPc'[i].code \notin Refusals
  <2> SUFFICES ASSUME Waiting, NEW i \in 1..Len(toPc'), toPc'[i].id = pc.id
               PROVE  /\ toMcu' = <<>> /\ toPc'[i].current
                      /\ pc.phase = "request" /\ EmergencyAll(pc.op) => toPc'[i].code \notin Refusals
    OBVIOUS
  <2>1. PICK k \in 1..Len(toPc) :
          toPc'[i].id = toPc[k].id /\ toPc'[i].code = toPc[k].code /\ toPc'[i].current = toPc[k].current
    OBVIOUS
  <2>2. toPc[k].id = pc.id =>
          /\ toMcu = <<>> /\ toPc[k].current
          /\ pc.phase = "request" /\ EmergencyAll(pc.op) => toPc[k].code \notin Refusals
    BY DEF AloneInv
  <2> QED BY <1>2, <2>1, <2>2
<1>7. pc.phase \in {"query", "retire"} => pc.current /\ \A i \in 1..Len(toMcu') : toMcu'[i].id = pc.id
  BY DEF AloneInv
<1>8. /\ pc.phase # "closed" /\ pc.ops <= MaxOps /\ pc.next + 5 <= 5 * pc.ops + Used + 1
      /\ Waiting => pc.id + 1 = pc.next /\ pc.ops > 0
      /\ EmergencyAll(pc.op) => pc.outcome \notin Refusals
  BY DEF AloneInv
<1> QED BY <1>1, <1>3, <1>4, <1>5, <1>6, <1>7, <1>8 DEF AloneInv

(* A new operation of the process. *)
LEMMA AloneStart ==
  ASSUME HostTypeOK, AloneInv, NoWrap, NEW op \in Ops, StartOp(op)
  PROVE  AloneInv'
<1>1. PICK phase, cmd, arg :
        /\ phase \in {"preStatus", "request"}
        /\ Started(op, phase, cmd, arg) /\ cmd = (IF phase = "request" THEN op.cmd ELSE "GET_SYSTEM_STATUS")
        /\ phase = "request" => arg = op.arg
  BY StartSound
<1>2. pc.phase = "idle" /\ pc.ops < MaxOps /\ pc.ops \in Nat /\ toPc' = toPc
  BY StartSound
<1> SUFFICES ASSUME pc.alone PROVE AloneInv'
  BY <1>1 DEF Started, AloneInv
<1> DEFINE f == [cmd |-> cmd, id |-> pc.next, arg |-> arg]
<1>3. f \in Frames /\ toMcu' = Append(toMcu, f) /\ f.id = pc.next /\ f.cmd = cmd /\ f.arg = arg
  BY <1>1 DEF Started
<1> HIDE DEF f
<1>4. pc.next \in Nat /\ (pc.next % MaxTxid) + 1 = pc.next + 1
  BY <1>2, AloneNumbers
<1>5. /\ pc'.phase = phase /\ pc'.id = pc.next /\ pc'.next = pc.next + 1 /\ pc'.outcome = "none"
      /\ pc'.op = op /\ pc'.ops = pc.ops + 1
  BY <1>1, <1>4 DEF Started
<1>6. /\ \A i \in 1..Len(toMcu') : toMcu'[i].id < pc'.next
      /\ \A i, j \in 1..Len(toMcu') : i < j => toMcu'[i].id < toMcu'[j].id
      /\ \A i \in 1..Len(toMcu') : toMcu'[i].id = pc.next => toMcu'[i] = f
  BY <1>3, <1>4, <1>5, AloneAppend
<1>7. pc'.next + 5 <= 5 * pc'.ops + Used' + 1 /\ pc'.ops <= MaxOps /\ pc'.ops > 0
  <2>1. Used = 5 /\ Used' >= 1 /\ Used' \in Nat /\ MaxOps \in Nat
    BY <1>2, <1>5, HostAssumption DEF Used, HostAssumption
  <2>2. pc.next + 5 <= 5 * pc.ops + Used + 1
    BY DEF AloneInv
  <2> QED BY <1>2, <1>4, <1>5, <2>1, <2>2
<1>8. \A i \in 1..Len(toPc) : toPc[i].id < pc.next /\ toPc[i].id \in Nat
  <2>1. \A i \in 1..Len(toPc) : toPc[i] \in Answers
    BY DEF HostTypeOK
  <2> QED BY <2>1 DEF AloneInv, Answers, Txids
<1>9. \A i \in 1..Len(toPc') : toPc'[i].id < pc'.next /\ toPc'[i].id # pc'.id
  BY <1>2, <1>4, <1>5, <1>8
<1>10. \A i \in 1..Len(toMcu') : toMcu'[i].id = pc'.id =>
         toMcu'[i].cmd = Awaited(pc') /\ (pc'.phase = "request" => toMcu'[i].arg = pc'.op.arg)
  <2>1. Awaited(pc') = cmd
    BY <1>1, <1>5 DEF Awaited
  <2> QED BY <1>1, <1>3, <1>5, <1>6, <2>1
<1> QED BY <1>1, <1>4, <1>5, <1>6, <1>7, <1>9, <1>10 DEF AloneInv, Waiting, Refusals

(* The invariant of a process that is alone. *)
LEMMA AloneNext ==
  ASSUME HostTypeOK, HostTypeOK', AloneInv, NoWrap, Next
  PROVE  AloneInv'
<1>0. /\ toMcu \in Seq(Frames) /\ toPc \in Seq(Answers) /\ Len(toMcu) \in Nat /\ Len(toPc) \in Nat
  BY DEF HostTypeOK
<1>1. CASE HandleRequest \/ Receive \/ \E op \in Ops : StartOp(op)
  BY <1>1, AloneHandle, AloneReceive, AloneStart
<1>2. CASE OpenClient
  <2> DEFINE a == (toMcu = <<>>)
  <2>1. pc' = [Closed EXCEPT !.phase = "idle", !.alone = a] /\ toPc' = <<>> /\ toMcu' = toMcu
    BY <1>2 DEF OpenClient, Open
  <2>2. a => Len(toMcu') = 0
    BY <2>1
  <2>3. a \in BOOLEAN
    OBVIOUS
  <2> HIDE DEF a
  <2>4. pc'.phase = "idle" /\ pc'.ops = 0 /\ pc'.outcome = "none" /\ pc'.next = 1 /\ pc'.alone = a
    BY <2>1, <2>3, ClosedFacts DEF Clients
  <2>5. Used' = 5 /\ MaxOps \in Nat
    BY <2>4, HostAssumption DEF Used, HostAssumption
  <2> QED BY <2>1, <2>2, <2>4, <2>5 DEF AloneInv, Waiting, Refusals
<1>3. CASE CloseClient
  BY <1>3, ClosedFacts DEF CloseClient, AloneInv
<1>4. CASE TimeOut
  <2>1. Waiting /\ toPc = <<>> /\ Raised("TimeoutError") /\ toPc' = toPc
    BY <1>4, TimeOutSound
  <2>2. Behind /\ "TimeoutError" \notin Refusals
    BY <2>1 DEF Behind, Refusals
  <2> QED BY <2>1, <2>2, AloneRaised
<1>5. CASE StartupDone \/ PeriodicProbe \/ ContainFault
  <2>1. UNCHANGED <<toMcu, toPc, pc>>
    BY <1>5 DEF StartupDone, PeriodicProbe, ContainFault
  <2> QED BY <2>1 DEF AloneInv, Used, Waiting
<1>6. CASE DamageRequest
  <2>1. PICK i \in DOMAIN toMcu : toMcu' = RemoveAt(toMcu, i)
    BY <1>6 DEF DamageRequest
  <2>2. UNCHANGED <<toPc, pc>> /\ i \in 1..Len(toMcu)
    BY <1>0, <1>6, <2>1 DEF DamageRequest
  <2>3. /\ Len(toMcu') = Len(toMcu) - 1
        /\ \A j \in 1..Len(toMcu) - 1 : toMcu'[j] = IF j < i THEN toMcu[j] ELSE toMcu[j + 1]
    BY <1>0, <2>1, <2>2, RemoveFacts
  <2>4. \A j \in 1..Len(toMcu') : j \in 1..Len(toMcu) - 1 /\ j \in 1..Len(toMcu) /\ j + 1 \in 1..Len(toMcu)
    BY <1>0, <2>3
  <2>5. \A j \in 1..Len(toMcu') : \E k \in 1..Len(toMcu) : toMcu'[j] = toMcu[k]
    BY <2>3, <2>4
  <2>6. ASSUME pc.alone, NEW j \in 1..Len(toMcu'), NEW k \in 1..Len(toMcu'), j < k
        PROVE  toMcu'[j].id < toMcu'[k].id
    <3>1. \A m, n \in 1..Len(toMcu) : m < n => toMcu[m].id < toMcu[n].id
      BY <2>6 DEF AloneInv
    <3>2. toMcu'[j] = (IF j < i THEN toMcu[j] ELSE toMcu[j + 1])
          /\ toMcu'[k] = IF k < i THEN toMcu[k] ELSE toMcu[k + 1]
      BY <2>3, <2>4
    <3>3. j < k + 1 /\ j + 1 < k + 1 /\ (k < i => j < i)
      BY <1>0, <2>2, <2>4, <2>6
    <3> QED BY <2>4, <2>6, <3>1, <3>2, <3>3
  <2> QED BY <2>2, <2>5, <2>6, AloneLost
<1>7. CASE DamageAnswer
  <2>1. UNCHANGED <<toMcu, pc>>
    BY <1>7 DEF DamageAnswer
  <2>2. PICK i \in DOMAIN toPc :
          \/ toPc' = RemoveAt(toPc, i)
          \/ toPc' = [toPc EXCEPT ![i].cmd = "NOISE"]
    BY <1>7 DEF DamageAnswer
  <2>3. i \in 1..Len(toPc)
    BY <1>0, <2>2
  <2>4. ASSUME NEW j \in 1..Len(toPc')
        PROVE  \E k \in 1..Len(toPc) :
                 toPc'[j].id = toPc[k].id /\ toPc'[j].code = toPc[k].code /\ toPc'[j].current = toPc[k].current
    <3>1. CASE toPc' = RemoveAt(toPc, i)
      <4>1. /\ Len(toPc') = Len(toPc) - 1
            /\ \A m \in 1..Len(toPc) - 1 : toPc'[m] = IF m < i THEN toPc[m] ELSE toPc[m + 1]
        BY <1>0, <2>3, <3>1, RemoveFacts
      <4>2. j \in 1..Len(toPc) - 1 /\ j \in 1..Len(toPc) /\ j + 1 \in 1..Len(toPc)
        BY <1>0, <4>1
      <4> QED BY <4>1, <4>2
    <3>2. CASE toPc' = [toPc EXCEPT ![i].cmd = "NOISE"]
      <4> DEFINE x == [toPc[i] EXCEPT !.cmd = "NOISE"]
      <4>1. toPc[i] \in Answers
        BY <1>0, <2>3
      <4>2. x \in Answers /\ x.id = toPc[i].id /\ x.code = toPc[i].code /\ x.current = toPc[i].current
        BY <4>1 DEF Answers
      <4>3. toPc' = [toPc EXCEPT ![i] = x]
        BY <3>2
      <4> HIDE DEF x
      <4>4. Len(toPc') = Len(toPc) /\ \A m \in 1..Len(toPc) : toPc'[m] = IF m = i THEN x ELSE toPc[m]
        BY <1>0, <2>3, <4>2, <4>3
      <4> QED BY <2>3, <4>2, <4>4
    <3> QED BY <2>2, <3>1, <3>2
  <2>5. pc.alone => \A j, k \in 1..Len(toMcu') : j < k => toMcu'[j].id < toMcu'[k].id
    BY <2>1 DEF AloneInv
  <2> QED BY <2>1, <2>4, <2>5, AloneLost
<1>8. CASE ResetMcu
  <2>1. PICK n \in 0..Len(toMcu) : toMcu' = SubSeq(toMcu, n + 1, Len(toMcu))
    BY <1>8 DEF ResetMcu
  <2>2. UNCHANGED <<toPc, pc>>
    BY <1>8 DEF ResetMcu
  <2>3. Len(toMcu') = Len(toMcu) - n /\ \A j \in 1..Len(toMcu) - n : toMcu'[j] = toMcu[n + j]
    BY <1>0, <2>1
  <2>4. \A j \in 1..Len(toMcu') : j \in 1..Len(toMcu) - n /\ n + j \in 1..Len(toMcu)
    BY <1>0, <2>3
  <2>5. \A j \in 1..Len(toMcu') : \E k \in 1..Len(toMcu) : toMcu'[j] = toMcu[k]
    BY <2>3, <2>4
  <2>6. ASSUME pc.alone, NEW j \in 1..Len(toMcu'), NEW k \in 1..Len(toMcu'), j < k
        PROVE  toMcu'[j].id < toMcu'[k].id
    <3>1. n + j < n + k /\ n + j \in 1..Len(toMcu) /\ n + k \in 1..Len(toMcu)
      BY <2>4, <2>6
    <3> QED BY <2>3, <2>4, <2>6, <3>1 DEF AloneInv
  <2> QED BY <2>2, <2>5, <2>6, AloneLost
<1> QED BY <1>1, <1>2, <1>3, <1>4, <1>5, <1>6, <1>7, <1>8 DEF Next

(* The frames of a process that is alone on the line carry identifiers in   *)
(* order, so that an answer with the awaited one is the answer to the last  *)
(* request, and nothing was executed since.                                 *)
LEMMA AloneInvariant ==
  ASSUME NoWrap
  PROVE  HostSpec => [](HostTypeOK /\ AloneInv)
<1>1. Init => AloneInv
  BY ClosedFacts DEF Init, AloneInv
<1>2. HostTypeOK /\ HostTypeOK' /\ AloneInv /\ [Next]_vars => AloneInv'
  <2> SUFFICES ASSUME HostTypeOK, HostTypeOK', AloneInv, [Next]_vars PROVE AloneInv'
    OBVIOUS
  <2>1. CASE UNCHANGED vars
    BY <2>1 DEF vars, AloneInv, Used, Waiting
  <2> QED BY <2>1, AloneNext
<1> QED BY <1>1, <1>2, HostTypeTheorem, PTL DEF HostSpec

(* No retained result refuses the emergency_zeroize of a process that found *)
(* no request on the line, whatever is lost: the firmware discards the      *)
(* result before it executes, and the answer the client accepts is the one  *)
(* to that request.                                                         *)
THEOREM EmergencyTheorem ==
  ASSUME NoWrap
  PROVE  HostSpec => []EmergencyNeverBlocked
<1>1. AloneInv => EmergencyNeverBlocked
  BY DEF AloneInv, EmergencyNeverBlocked, Refusals
<1> QED BY <1>1, AloneInvariant, PTL

-----------------------------------------------------------------------------
(* A process that follows a killed one: the frames it finds on the line     *)
(* come before its own.                                                     *)

(* Frames and answers on their way, in the order in which they are read. *)
Pending == Len(toPc) + Len(toMcu)

Item(x) == [cmd |-> x.cmd, id |-> x.id]

Line == [i \in 1..Pending |-> IF i <= Len(toPc) THEN Item(toPc[i]) ELSE Item(toMcu[i - Len(toPc)])]

Busy == IF Waiting THEN 1 ELSE 0

(* Identifiers of a process, whoever was there before it. *)
NumberInv ==
  /\ pc.ops <= MaxOps /\ pc.next + 5 <= 5 * pc.ops + Used + 1
  /\ Waiting => pc.id + 1 = pc.next /\ pc.ops > 0
  /\ pc.phase = "request" /\ EmergencyAll(pc.op) => pc.next > 2

(* Of the n items of l, those after the first f carry increasing identifiers *)
(* below m.                                                                 *)
Ordered(l, n, f, m) ==
  /\ \A i \in f + 1..n : l[i].id < m
  /\ \A i, j \in f + 1..n : i < j => l[i].id < l[j].id
  /\ n - f < m

(* The process's own items are all but the first f. *)
Own(f) ==
  /\ Ordered(Line, Pending, f, pc.next)
  /\ Waiting => \A i \in 1..Len(toMcu) :
       Len(toPc) + i > f /\ toMcu[i].id = pc.id => /\ toMcu[i].cmd = Awaited(pc)
                                                   /\ pc.phase = "request" => toMcu[i].arg = pc.op.arg
  /\ Waiting => \A i \in 1..Len(toPc) : i > f /\ toPc[i].id = pc.id => toMcu = <<>> /\ toPc[i].current

(* Each older item has cost a trouble, and so has each request but the      *)
(* present one that the process sent while some remain, and a lost one.     *)
Older(f) ==
  f > 0 => /\ pc.next + f <= trouble + Busy + 1
           /\ Pending - f < pc.next - 1 => pc.next + f <= trouble + Busy

(* The answer to an older command that the process may take for its own. *)
Mistakable(f) ==
  f > 0 /\ pc.phase \in {"idle", "request"} /\ toPc # <<>> /\ toPc[1].cmd \in ManagedCommands /\ toPc[1].code = "OK" =>
    /\ trouble = 1 => toPc[1].current /\ mcu.txn # None
    /\ trouble = 2 /\ f = 2 /\ Line[2].cmd = "GET_TXN_RESULT" => toPc[1].current /\ mcu.txn # None
    /\ trouble = 2 /\ Pending = 1 /\ Waiting => toPc[1].current

(* Nothing on the line executes. *)
Clean == pc.current /\ \A i \in 1..Len(toMcu) : toMcu[i].cmd \notin ManagedCommands

(* The first frame will be refused, and its answer is not the awaited one. *)
Shielded ==
  /\ pc.current /\ toPc = <<>> /\ toMcu # <<>> /\ mcu.txn # None
  /\ ~EmergencyAll(toMcu[1]) /\ toMcu[1].id # pc.id
  /\ \A i \in 2..Len(toMcu) : toMcu[i].cmd \notin ManagedCommands

(* Every command on the line will be refused. *)
Harmless ==
  /\ pc.current /\ mcu.txn # None
  /\ \A i \in 1..Len(toMcu) : toMcu[i].cmd \in ManagedCommands =>
       ~EmergencyAll(toMcu[i]) /\ \A k \in 1..i : toMcu[k].cmd # "RETIRE_TXN_RESULT"

(* The next answer ends the operation. *)
Doomed == Pending > 0 /\ ~Correlated(Line[1])

(* What a process knows once it has been told of a success. *)
ToldInv ==
  /\ pc.phase = "query" /\ trouble <= 2 =>
       \/ Clean
       \/ trouble = 1 /\ Shielded
       \/ trouble = 2 /\ Harmless
       \/ trouble = 2 /\ Doomed
  /\ pc.phase = "retire" /\ trouble <= 2 => Clean \/ (trouble = 2 /\ Harmless)

(* The first f items are older than the process. *)
After(f) == Own(f) /\ Older(f) /\ (trouble <= 2 => Mistakable(f))

LineInv ==
  /\ Pending <= trouble + Busy
  /\ NumberInv /\ ToldInv
  /\ pc.phase # "closed" => \E f \in 0..Pending : After(f)

(* Types of the line, and its items. *)
LineShape ==
  /\ toMcu \in Seq(Frames) /\ toPc \in Seq(Answers) /\ Len(toMcu) \in Nat /\ Len(toPc) \in Nat
  /\ Pending \in Nat /\ Pending = Len(toPc) + Len(toMcu)
  /\ \A i \in 1..Len(toPc) : i \in 1..Pending /\ toPc[i] \in Answers /\ toPc[i].id \in Nat
                             /\ Line[i].id = toPc[i].id /\ Line[i].cmd = toPc[i].cmd
  /\ \A i \in 1..Len(toMcu) :
       /\ Len(toPc) + i \in 1..Pending /\ toMcu[i] \in Frames /\ toMcu[i].id \in Nat
       /\ Line[Len(toPc) + i].id = toMcu[i].id /\ Line[Len(toPc) + i].cmd = toMcu[i].cmd
  /\ \A i \in 1..Pending : Line[i].id \in Nat

(* They follow from the types of both directions. *)
LEMMA LineFacts == HostTypeOK => LineShape
<1> SUFFICES ASSUME HostTypeOK PROVE LineShape
  OBVIOUS
<1>1. toMcu \in Seq(Frames) /\ toPc \in Seq(Answers) /\ Len(toMcu) \in Nat /\ Len(toPc) \in Nat
  BY DEF HostTypeOK
<1>2. Pending \in Nat /\ Pending = Len(toPc) + Len(toMcu)
  BY <1>1 DEF Pending
<1>3. (\A q \in Frames : q.id \in Nat) /\ (\A r \in Answers : r.id \in Nat)
  BY DEF Frames, Answers, Txids
<1>4. ASSUME NEW i \in 1..Len(toPc)
      PROVE  i \in 1..Pending /\ toPc[i] \in Answers /\ toPc[i].id \in Nat
             /\ Line[i].id = toPc[i].id /\ Line[i].cmd = toPc[i].cmd
  <2>1. i \in 1..Pending /\ i <= Len(toPc) /\ toPc[i] \in Answers
    BY <1>1, <1>2
  <2>2. Line[i] = Item(toPc[i])
    BY <2>1 DEF Line
  <2> QED BY <1>3, <2>1, <2>2 DEF Item
<1>5. ASSUME NEW i \in 1..Len(toMcu)
      PROVE  /\ Len(toPc) + i \in 1..Pending /\ toMcu[i] \in Frames /\ toMcu[i].id \in Nat
             /\ Line[Len(toPc) + i].id = toMcu[i].id /\ Line[Len(toPc) + i].cmd = toMcu[i].cmd
  <2>1. Len(toPc) + i \in 1..Pending /\ ~(Len(toPc) + i <= Len(toPc)) /\ toMcu[i] \in Frames
        /\ (Len(toPc) + i) - Len(toPc) = i
    BY <1>1, <1>2
  <2>2. Line[Len(toPc) + i] = Item(toMcu[i])
    BY <2>1 DEF Line
  <2> QED BY <1>3, <2>1, <2>2 DEF Item
<1>6. ASSUME NEW i \in 1..Pending
      PROVE  Line[i].id \in Nat
  <2>1. CASE i <= Len(toPc)
    <3>1. i \in 1..Len(toPc)
      BY <1>1, <1>2, <2>1
    <3> QED BY <1>4, <3>1
  <2>2. CASE ~(i <= Len(toPc))
    <3>1. i - Len(toPc) \in 1..Len(toMcu) /\ Len(toPc) + (i - Len(toPc)) = i
      BY <1>1, <1>2, <2>2
    <3> QED BY <1>5, <3>1
  <2> QED BY <2>1, <2>2
<1> QED BY <1>1, <1>2, <1>4, <1>5, <1>6 DEF LineShape

(* An item with the largest identifier follows. *)
LEMMA OrderedAppend ==
  ASSUME NEW l, NEW k, NEW n \in Nat, NEW f \in 0..n, NEW m \in Nat, Ordered(l, n, f, m),
         \A i \in 1..n : l[i].id \in Nat /\ k[i].id = l[i].id, k[n + 1].id = m
  PROVE  Ordered(k, n + 1, f, m + 1)
<1>1. \A i \in f + 1..n + 1 : i = n + 1 \/ (i \in f + 1..n /\ i \in 1..n)
  OBVIOUS
<1>2. \A i \in f + 1..n : l[i].id < m /\ k[i].id = l[i].id /\ k[i].id \in Nat
  BY DEF Ordered
<1>3. \A i \in f + 1..n + 1 : k[i].id < m + 1
  BY <1>1, <1>2
<1>4. ASSUME NEW i \in f + 1..n + 1, NEW j \in f + 1..n + 1, i < j
      PROVE  k[i].id < k[j].id
  <2>1. i \in f + 1..n
    BY <1>4
  <2>2. CASE j = n + 1
    BY <1>2, <2>1, <2>2
  <2>3. CASE j # n + 1
    <3>1. j \in f + 1..n
      BY <2>3
    <3>2. l[i].id < l[j].id
      BY <1>4, <2>1, <3>1 DEF Ordered
    <3> QED BY <1>2, <2>1, <3>1, <3>2
  <2> QED BY <2>2, <2>3
<1>5. (n + 1) - f < m + 1
  BY DEF Ordered
<1> QED BY <1>3, <1>4, <1>5 DEF Ordered

(* d items after the first k are gone. *)
Shift(i, k, d) == IF i <= k THEN i ELSE i + d

Before(f, k, d) == IF f <= k THEN f ELSE IF f <= k + d THEN k ELSE f - d

(* The others keep their order. *)
LEMMA OrderedDrop ==
  ASSUME NEW l, NEW g, NEW n \in Nat, NEW f \in 0..n, NEW m \in Nat, NEW k \in 0..n, NEW d \in 0..n - k,
         Ordered(l, n, f, m), \A i \in 1..n - d : g[i].id = l[Shift(i, k, d)].id
  PROVE  Before(f, k, d) \in 0..n - d /\ Before(f, k, d) <= f /\ Ordered(g, n - d, Before(f, k, d), m)
<1> DEFINE b == Before(f, k, d)
<1>1. b \in 0..n - d /\ b <= f /\ (n - d) - b <= n - f
  BY DEF Before
<1>2. ASSUME NEW i \in b + 1..n - d
      PROVE  i \in 1..n - d /\ Shift(i, k, d) \in f + 1..n
  BY <1>1 DEF Shift, Before
<1>3. \A i, j \in b + 1..n - d : i < j => Shift(i, k, d) < Shift(j, k, d)
  BY <1>1 DEF Shift
<1> HIDE DEF b
<1>4. \A i \in b + 1..n - d : g[i].id < m
  BY <1>2 DEF Ordered
<1>5. ASSUME NEW i \in b + 1..n - d, NEW j \in b + 1..n - d, i < j
      PROVE  g[i].id < g[j].id
  <2>1. Shift(i, k, d) < Shift(j, k, d) /\ Shift(i, k, d) \in f + 1..n /\ Shift(j, k, d) \in f + 1..n
    BY <1>2, <1>3, <1>5
  <2>2. l[Shift(i, k, d)].id < l[Shift(j, k, d)].id
    BY <2>1 DEF Ordered
  <2> QED BY <1>2, <2>2
<1>6. (n - d) - b < m
  BY <1>1 DEF Ordered
<1> QED BY <1>1, <1>4, <1>5, <1>6 DEF Ordered, b

(* The same after a step. *)
LEMMA LineFactsNext == HostTypeOK' => LineShape'
BY LineFacts, PTL

(* Where the own items begin. *)
LEMMA ShiftAfter ==
  ASSUME NEW n \in Nat, NEW f \in 0..n, NEW k \in 0..n, NEW d \in 0..n - k, NEW p \in 1..n - d, p > Before(f, k, d)
  PROVE  Shift(p, k, d) > f
BY DEF Before, Shift

(* The numbers of a process. *)
LEMMA ProcessNumbers ==
  ASSUME HostTypeOK, NumberInv
  PROVE  /\ pc.next \in Nat /\ pc.next >= 1 /\ trouble \in Nat /\ Busy \in 0..1
         /\ Waiting => pc.id \in Nat /\ pc.id + 1 = pc.next /\ pc.next >= 2 /\ Busy = 1
         /\ ~Waiting => Busy = 0
<1>1. pc.next \in Txids /\ trouble \in Nat /\ (Waiting => pc.id \in Txids /\ pc.id + 1 = pc.next)
  BY DEF HostTypeOK, Clients, NumberInv
<1> QED BY <1>1 DEF Txids, Busy

(* Items of the line are lost, and answers damaged. *)
LEMMA LineLost ==
  ASSUME HostTypeOK, HostTypeOK', LineInv, pc' = pc, trouble' = trouble + 1,
         NEW k \in 0..Pending, NEW d \in 0..Pending - k, Pending' = Pending - d,
         \A i \in 1..Pending' : Line'[i].id = Line[Shift(i, k, d)].id,
         \A i \in 1..Len(toPc') :
           /\ Shift(i, k, d) \in 1..Len(toPc) /\ toPc'[i].current = toPc[Shift(i, k, d)].current
           /\ toPc'[i].code = toPc[Shift(i, k, d)].code
           /\ toPc'[i].cmd \in {toPc[Shift(i, k, d)].cmd, "NOISE"},
         \A i \in 1..Len(toMcu') : \E j \in 1..Len(toMcu) :
           toMcu'[i] = toMcu[j] /\ Len(toPc) + j = Shift(Len(toPc') + i, k, d)
  PROVE  LineInv'
<1>0. LineShape /\ LineShape'
  BY LineFacts, LineFactsNext
<1>1. Used' = Used /\ Awaited(pc') = Awaited(pc) /\ Waiting' = Waiting /\ Busy' = Busy
  BY DEF Used, Awaited, Waiting, Busy
<1>2. NumberInv /\ NumberInv'
  BY <1>1 DEF LineInv, NumberInv
<1>3. /\ pc.next \in Nat /\ pc.next >= 1 /\ trouble \in Nat /\ Busy \in 0..1
      /\ Waiting => pc.id \in Nat /\ pc.id + 1 = pc.next /\ pc.next >= 2 /\ Busy = 1
      /\ ~Waiting => Busy = 0
  BY <1>2, ProcessNumbers
<1>4. Pending \in Nat /\ Pending' <= trouble' + Busy'
  BY <1>0, <1>1, <1>3 DEF LineInv, LineShape
<1>5. toMcu = <<>> => toMcu' = <<>>
  <2> SUFFICES ASSUME toMcu = <<>> PROVE toMcu' = <<>>
    OBVIOUS
  <2>1. 1..Len(toMcu) = {} /\ toMcu' \in Seq(Frames)
    BY <1>0 DEF LineShape
  <2>2. 1 \notin 1..Len(toMcu')
    BY <2>1
  <2> QED BY <2>1, <2>2
<1>6. toPc = <<>> => toPc' = <<>>
  <2> SUFFICES ASSUME toPc = <<>> PROVE toPc' = <<>>
    OBVIOUS
  <2>1. 1..Len(toPc) = {} /\ toPc' \in Seq(Answers)
    BY <1>0 DEF LineShape
  <2>2. 1 \notin 1..Len(toPc')
    BY <2>1
  <2> QED BY <2>1, <2>2
<1>7. ToldInv'
  <2>1. Clean => Clean'
    BY DEF Clean
  <2>2. ASSUME Shielded, ~Clean'
        PROVE  Doomed'
    <3>1. PICK i \in 1..Len(toMcu') : toMcu'[i].cmd \in ManagedCommands
      BY <2>2 DEF Clean, Shielded
    <3>2. PICK j \in 1..Len(toMcu) : toMcu'[i] = toMcu[j] /\ Len(toPc) + j = Shift(Len(toPc') + i, k, d)
      OBVIOUS
    <3>3. j = 1 /\ Len(toPc) = 0 /\ Len(toPc') = 0 /\ toMcu[1].id # pc.id
      BY <1>0, <1>6, <2>2, <3>1, <3>2 DEF Shielded, LineShape
    <3>4. i = 1
      BY <1>0, <3>2, <3>3 DEF Shift, LineShape
    <3>5. Line'[1].id = toMcu[1].id /\ Pending' > 0
      BY <1>0, <3>2, <3>3, <3>4 DEF LineShape
    <3> QED BY <3>3, <3>5 DEF Doomed, Correlated
  <2>3. trouble' <= 2 => trouble <= 1 /\ (trouble = 1 => trouble' = 2)
    BY <1>3
  <2>4. pc.phase = "query" /\ trouble' <= 2 => Clean' \/ (trouble' = 2 /\ Doomed')
    BY <1>3, <2>1, <2>2, <2>3 DEF LineInv, ToldInv
  <2>5. pc.phase = "retire" /\ trouble' <= 2 => Clean'
    BY <1>3, <2>1, <2>3 DEF LineInv, ToldInv
  <2> QED BY <2>4, <2>5 DEF ToldInv
<1>8. ASSUME pc.phase # "closed"
      PROVE  \E f \in 0..Pending' : After(f)'
  <2>1. PICK f \in 0..Pending : After(f)
    BY <1>8 DEF LineInv
  <2> DEFINE b == Before(f, k, d)
  <2>2. b \in 0..Pending' /\ b <= f /\ Ordered(Line', Pending', b, pc'.next)
    <3>1. Ordered(Line, Pending, f, pc.next) /\ Pending \in Nat /\ pc.next \in Nat
      BY <1>3, <1>4, <2>1 DEF After, Own
    <3>2. \A i \in 1..Pending - d : Line'[i].id = Line[Shift(i, k, d)].id
      OBVIOUS
    <3>3. b \in 0..Pending - d /\ b <= f /\ Ordered(Line', Pending - d, b, pc.next)
      BY <3>1, <3>2, OrderedDrop
    <3> HIDE DEF b
    <3> QED BY <3>3
  <2>3. \A p \in 1..Pending' : p > b => Shift(p, k, d) > f
    BY <1>4, ShiftAfter
  <2> HIDE DEF b
  <2>4. ASSUME Waiting, NEW i \in 1..Len(toMcu'), Len(toPc') + i > b, toMcu'[i].id = pc.id
        PROVE  toMcu'[i].cmd = Awaited(pc) /\ (pc.phase = "request" => toMcu'[i].arg = pc.op.arg)
    <3>1. PICK j \in 1..Len(toMcu) : toMcu'[i] = toMcu[j] /\ Len(toPc) + j = Shift(Len(toPc') + i, k, d)
      OBVIOUS
    <3>2. Len(toPc') + i \in 1..Pending'
      BY <1>0 DEF LineShape
    <3>3. Len(toPc) + j > f
      BY <2>3, <2>4, <3>1, <3>2
    <3> QED BY <2>1, <2>4, <3>1, <3>3, SMTT(30) DEF After, Own
  <2>5. ASSUME Waiting, NEW i \in 1..Len(toPc'), i > b, toPc'[i].id = pc.id
        PROVE  toMcu' = <<>> /\ toPc'[i].current
    <3> DEFINE j == Shift(i, k, d)
    <3>1. i \in 1..Pending' /\ j \in 1..Len(toPc) /\ j > f /\ toPc'[i].current = toPc[j].current
      BY <1>0, <2>3, <2>5 DEF LineShape
    <3>2. Line'[i].id = Line[j].id
      BY <3>1
    <3> HIDE DEF j
    <3>3. Line'[i].id = toPc'[i].id /\ Line[j].id = toPc[j].id
      BY <1>0, <3>1 DEF LineShape
    <3>4. toPc[j].id = pc.id
      BY <2>5, <3>2, <3>3
    <3> QED BY <1>5, <2>1, <2>5, <3>1, <3>4 DEF After, Own
  <2>6. Own(b)'
    BY <1>1, <2>2, <2>4, <2>5 DEF Own
  <2>7. Older(b)'
    BY <1>1, <1>3, <2>1, <2>2 DEF After, Older
  <2>8. ASSUME trouble' <= 2
        PROVE  Mistakable(b)'
    <3> SUFFICES ASSUME b > 0, toPc' # <<>>, toPc'[1].cmd \in ManagedCommands, toPc'[1].code = "OK",
                        pc.phase \in {"idle", "request"}
                 PROVE  /\ trouble' # 1 /\ b # 2
                        /\ Pending' = 1 => toPc'[1].current
      BY <1>1 DEF Mistakable
    <3>1. f \in Nat /\ f > 0 /\ pc.next + f <= trouble + Busy + 1
      BY <2>1, <2>2 DEF After, Older
    <3>2. trouble = 1 /\ f = 1 /\ b = 1
      BY <1>3, <2>2, <2>8, <3>1
    <3>3. 1 \in 1..Len(toPc')
      BY <1>0 DEF LineShape
    <3>4. Shift(1, k, d) = 1
      BY <1>4, <2>2, <3>2 DEF b, Before, Shift
    <3>5. /\ toPc # <<>> /\ toPc[1].code = "OK" /\ toPc'[1].current = toPc[1].current
          /\ toPc'[1].cmd \in {toPc[1].cmd, "NOISE"}
      BY <1>6, <3>3, <3>4
    <3>6. toPc[1].cmd \in ManagedCommands
      BY <3>5, OpFacts DEF ManagedCommands
    <3>7. toPc[1].current
      BY <2>1, <3>1, <3>2, <3>5, <3>6 DEF After, Mistakable
    <3> QED BY <3>2, <3>5, <3>7
  <2> QED BY <2>2, <2>6, <2>7, <2>8 DEF After
<1> QED BY <1>2, <1>4, <1>7, <1>8 DEF LineInv

(* The next identifier does not come round. *)
LEMMA FreeNumber ==
  ASSUME HostTypeOK, NumberInv, NoWrap, \/ Used <= 4
                                        \/ pc.phase = "idle" /\ pc.ops < MaxOps
  PROVE  pc.next \in Nat /\ pc.ops \in Nat /\ (pc.next % MaxTxid) + 1 = pc.next + 1
<1>1. pc.next \in Txids /\ pc.ops \in Nat /\ MaxOps \in Nat /\ MaxTxid \in Nat
  BY HostAssumption DEF HostTypeOK, Clients, HostAssumption
<1>2. pc.next \in Nat /\ Used \in 1..5
  BY <1>1 DEF Txids, Used
<1>3. pc.ops <= MaxOps /\ pc.next + 5 <= 5 * pc.ops + Used + 1
  BY DEF NumberInv
<1>4. pc.next < MaxTxid
  BY <1>1, <1>2, <1>3 DEF NoWrap
<1> QED BY <1>1, <1>2, <1>4, NextTxid

(* The operation goes on with a request. *)
LEMMA NumberSent ==
  ASSUME HostTypeOK, NumberInv, NoWrap, Waiting, Used <= 4, Used' >= Used + 1,
         NEW phase \in Phases \ {"closed", "idle"}, NEW cmd, NEW arg, NEW outcome, NEW host, NEW current,
         Sent(phase, cmd, arg, outcome, host, current)
  PROVE  NumberInv' /\ pc'.next = pc.next + 1
<1>1. pc.next \in Nat /\ pc.ops \in Nat /\ (pc.next % MaxTxid) + 1 = pc.next + 1
  BY FreeNumber
<1>2. pc'.phase = phase /\ pc'.id = pc.next /\ pc'.next = pc.next + 1 /\ pc'.ops = pc.ops
  BY <1>1 DEF Sent
<1>3. pc.next >= 2
  BY ProcessNumbers
<1>4. pc.ops <= MaxOps /\ pc.ops > 0
  BY DEF NumberInv
<1>5. pc'.next + 5 <= 5 * pc'.ops + Used' + 1
  <2> DEFINE n == pc.next
             m == pc.ops
             u == Used
             v == Used'
  <2>1. u \in Nat /\ v \in Nat
    BY DEF Used
  <2>2. n + 5 <= 5 * m + u + 1 /\ v >= u + 1 /\ n \in Nat /\ m \in Nat
    BY <1>1 DEF NumberInv
  <2> HIDE DEF n, m, u, v
  <2>3. (n + 1) + 5 <= 5 * m + v + 1
    BY <2>1, <2>2
  <2> QED BY <1>2, <2>3 DEF n, m, v
<1> QED BY <1>1, <1>2, <1>3, <1>4, <1>5 DEF NumberInv, Waiting

(* It ends. *)
LEMMA NumberFinished ==
  ASSUME HostTypeOK, NumberInv, NEW outcome, Finished(outcome)
  PROVE  NumberInv'
<1>1. pc'.phase = "idle" /\ pc'.next = pc.next /\ pc'.ops = pc.ops
  BY DEF Finished
<1>2. ~Waiting' /\ Used' = 5 /\ Used \in 1..5
  BY <1>1 DEF Waiting, Used
<1>3. pc.next + 5 <= 5 * pc.ops + Used + 1 /\ pc.next \in Nat /\ pc.ops \in Nat /\ pc.ops <= MaxOps
  BY DEF NumberInv, HostTypeOK, Clients, Txids
<1>4. pc'.next + 5 <= 5 * pc'.ops + Used' + 1
  BY <1>1, <1>2, <1>3
<1> QED BY <1>1, <1>2, <1>3, <1>4 DEF NumberInv

(* A new one begins. *)
LEMMA NumberStarted ==
  ASSUME HostTypeOK, NumberInv, NoWrap, NEW op \in Ops, StartOp(op)
  PROVE  NumberInv' /\ pc'.next = pc.next + 1 /\ pc'.id = pc.next /\ Waiting'
<1>1. /\ pc.phase = "idle" /\ pc.ops < MaxOps /\ pc.ops \in Nat
      /\ pc'.ops = pc.ops + 1 /\ pc'.op = op /\ pc'.id = pc.next /\ pc'.next = (pc.next % MaxTxid) + 1
      /\ \/ EmergencyAll(op) /\ pc'.phase = "preStatus"
         \/ ~EmergencyAll(op) /\ pc'.phase = "request"
  BY StartSound DEF Started
<1>2. pc.next \in Nat /\ (pc.next % MaxTxid) + 1 = pc.next + 1
  BY <1>1, FreeNumber
<1>3. Waiting' /\ Used = 5 /\ Used' \in 1..5 /\ MaxOps \in Nat
  BY <1>1, HostAssumption DEF Waiting, Used, HostAssumption
<1>4. pc.next + 5 <= 5 * pc.ops + Used + 1
  BY DEF NumberInv
<1>5. pc'.next + 5 <= 5 * pc'.ops + Used' + 1 /\ pc'.ops <= MaxOps /\ pc'.ops > 0
  BY <1>1, <1>2, <1>3, <1>4
<1> QED BY <1>1, <1>2, <1>3, <1>5 DEF NumberInv

(* The process has read c answers, and what it had sent is still there. *)
Moved(c) ==
  /\ Len(toPc') = Len(toPc) - c /\ \A i \in 1..Len(toPc') : toPc'[i] = toPc[i + c]
  /\ Len(toMcu') >= Len(toMcu) /\ \A i \in 1..Len(toMcu) : toMcu'[i] = toMcu[i]

(* The items move up. *)
LEMMA LineMoved ==
  ASSUME HostTypeOK, HostTypeOK', NEW c \in 0..1, Moved(c)
  PROVE  \A i \in 1..Pending - c : Line'[i].id = Line[Shift(i, 0, c)].id /\ Line'[i].cmd = Line[Shift(i, 0, c)].cmd
<1>1. LineShape /\ LineShape'
  BY LineFacts, LineFactsNext
<1>2. /\ Len(toMcu) \in Nat /\ Len(toPc) \in Nat /\ Len(toMcu') \in Nat /\ Len(toPc') \in Nat
      /\ Pending = Len(toPc) + Len(toMcu)
  BY <1>1 DEF LineShape
<1> SUFFICES ASSUME NEW i \in 1..Pending - c
             PROVE  Line'[i].id = Line[Shift(i, 0, c)].id /\ Line'[i].cmd = Line[Shift(i, 0, c)].cmd
  OBVIOUS
<1>0. Shift(i, 0, c) = i + c /\ i \in Nat
  BY <1>2 DEF Shift
<1> SUFFICES Line'[i].id = Line[i + c].id /\ Line'[i].cmd = Line[i + c].cmd
  BY <1>0
<1>3. CASE i <= Len(toPc')
  <2> DEFINE k == i + c
  <2>1. i \in 1..Len(toPc') /\ k \in 1..Len(toPc) /\ toPc'[i] = toPc[k]
    BY <1>2, <1>3, SMTT(30) DEF Moved
  <2> HIDE DEF k
  <2>2. Line'[i].id = toPc'[i].id /\ Line'[i].cmd = toPc'[i].cmd
    BY <1>1, <2>1 DEF LineShape
  <2>3. Line[k].id = toPc[k].id /\ Line[k].cmd = toPc[k].cmd
    BY <1>1, <2>1 DEF LineShape
  <2> QED BY <2>1, <2>2, <2>3 DEF k
<1>4. CASE ~(i <= Len(toPc'))
  <2> DEFINE j == i - Len(toPc')
  <2>1. /\ j \in 1..Len(toMcu) /\ j \in 1..Len(toMcu') /\ Len(toPc') + j = i /\ Len(toPc) + j = i + c
        /\ toMcu'[j] = toMcu[j]
    BY <1>2, <1>4 DEF Moved
  <2> HIDE DEF j
  <2>2. Line'[Len(toPc') + j].id = toMcu'[j].id /\ Line'[Len(toPc') + j].cmd = toMcu'[j].cmd
    BY <1>1, <2>1 DEF LineShape
  <2>3. Line[Len(toPc) + j].id = toMcu[j].id /\ Line[Len(toPc) + j].cmd = toMcu[j].cmd
    BY <1>1, <2>1 DEF LineShape
  <2> QED BY <2>1, <2>2, <2>3
<1> QED BY <1>3, <1>4

(* What an answer read, a time-out or a new operation costs. *)
Paid(c) ==
  \/ c = 1 /\ Waiting /\ trouble' = trouble
  \/ c = 0 /\ ~Waiting /\ trouble' = trouble
  \/ c = 0 /\ Waiting /\ trouble' = trouble + 1
  \/ c = 0 /\ Waiting /\ Pending = 0 /\ trouble' = trouble

(* The cost of a request. *)
LEMMA CostSent ==
  ASSUME NEW n \in Nat, NEW f \in Nat, NEW p \in Nat, NEW t \in Nat, NEW u, NEW y \in 0..1, NEW c \in 0..1,
         n + f <= t + y + 1, p - f < n - 1 => n + f <= t + y,
         (c = 1 /\ y = 1 /\ u = t) \/ (c = 0 /\ y = 0 /\ u = t) \/ (c = 0 /\ y = 1 /\ u = t + 1)
  PROVE  /\ (n + 1) + (f - c) <= u + 1 + 1
         /\ ((p - c) + 1) - (f - c) < (n + 1) - 1 => (n + 1) + (f - c) <= u + 1
OBVIOUS

(* A request behind what is on the line. *)
LEMMA LineSent ==
  ASSUME HostTypeOK, HostTypeOK', LineInv, NEW c \in 0..1, Moved(c), Paid(c),
         NEW q \in Frames, toMcu' = Append(toMcu, q), q.id = pc.next, pc'.id = pc.next, pc'.next = pc.next + 1,
         Waiting', q.cmd = Awaited(pc'), pc'.phase = "request" => q.arg = pc'.op.arg,
         NEW f \in 0..Pending, Own(f), Older(f)
  PROVE  /\ Pending' <= trouble' + Busy' /\ Pending' = (Pending - c) + 1 /\ Before(f, 0, c) \in 0..Pending'
         /\ Own(Before(f, 0, c))' /\ Older(Before(f, 0, c))'
<1>0. LineShape /\ LineShape'
  BY LineFacts, LineFactsNext
<1>1. /\ pc.next \in Nat /\ pc.next >= 1 /\ trouble \in Nat /\ Busy \in 0..1 /\ Busy' = 1
      /\ (Waiting => Busy = 1) /\ (~Waiting => Busy = 0)
  BY ProcessNumbers DEF LineInv, Busy
<1>2. /\ Len(toMcu) \in Nat /\ Len(toPc) \in Nat /\ Len(toPc') \in Nat /\ Pending \in Nat /\ Pending' \in Nat
      /\ Pending = Len(toPc) + Len(toMcu) /\ Pending' = Len(toPc') + Len(toMcu') /\ Len(toPc') = Len(toPc) - c
  BY <1>0 DEF LineShape, Moved
<1>3. Len(toMcu') = Len(toMcu) + 1 /\ toMcu'[Len(toMcu) + 1] = q
  BY <1>0, AppendFacts DEF LineShape
<1>4. Pending' = (Pending - c) + 1 /\ Pending <= trouble + Busy
  BY <1>2, <1>3 DEF LineInv
<1>5. Pending' <= trouble' + Busy'
  <2>1. \/ c = 1 /\ Busy = 1 /\ trouble' = trouble
        \/ c = 0 /\ Busy = 0 /\ trouble' = trouble
        \/ c = 0 /\ Busy = 1 /\ trouble' = trouble + 1
        \/ c = 0 /\ Pending = 0 /\ trouble' = trouble
    BY <1>1 DEF Paid
  <2>2. \A p, t, u \in Nat, y \in 0..1 : /\ p <= t + y
                                       /\ \/ c = 1 /\ y = 1 /\ u = t
                                          \/ c = 0 /\ y = 0 /\ u = t
                                          \/ c = 0 /\ y = 1 /\ u = t + 1
                                          \/ c = 0 /\ p = 0 /\ u = t
                                       => (p - c) + 1 <= u + 1
    OBVIOUS
  <2>3. trouble' \in Nat
    BY DEF HostTypeOK
  <2> QED BY <1>1, <1>2, <1>4, <2>1, <2>2, <2>3, SMTT(30)
<1> DEFINE b == Before(f, 0, c)
           n == Pending - c
<1>6. n \in Nat /\ c \in 0..Pending /\ 0 \in 0..Pending /\ c \in 0..Pending - 0
  BY <1>2
<1>7. \A i \in 1..n : Line'[i].id = Line[Shift(i, 0, c)].id
  BY LineMoved
<1>8. b \in 0..n /\ b <= f /\ Ordered(Line', n, b, pc.next)
  <2>1. Pending \in Nat /\ pc.next \in Nat /\ c \in 0..Pending - 0 /\ 0 \in 0..Pending
    BY <1>1, <1>2, <1>6
  <2>2. Ordered(Line, Pending, f, pc.next)
    BY DEF Own
  <2> QED BY <1>7, <2>1, <2>2, OrderedDrop
<1>9. n \in Nat /\ n + 1 = Pending' /\ n = Len(toPc') + Len(toMcu) /\ b \in Nat
  BY <1>2, <1>4, <1>6, <1>8, SMTT(30)
<1> HIDE DEF b, n
<1>10. Line'[n + 1].id = pc.next
  <2>1. Len(toMcu) + 1 \in 1..Len(toMcu') /\ Len(toPc') + (Len(toMcu) + 1) = n + 1
    BY <1>2, <1>3, <1>9
  <2>2. Line'[Len(toPc') + (Len(toMcu) + 1)].id = toMcu'[Len(toMcu) + 1].id
    BY <1>0, <2>1 DEF LineShape
  <2> QED BY <1>3, <2>1, <2>2
<1>11. \A i \in 1..n : Line'[i].id \in Nat /\ Line'[i].id = Line'[i].id
  <2>1. \A i \in 1..n : i \in 1..Pending'
    BY <1>9
  <2> QED BY <1>0, <2>1 DEF LineShape
<1>12. b \in 0..Pending' /\ Ordered(Line', Pending', b, pc'.next)
  <2>1. Ordered(Line', n + 1, b, pc.next + 1)
    BY <1>1, <1>6, <1>8, <1>10, <1>11, OrderedAppend
  <2> QED BY <1>8, <1>9, <2>1
<1>13. \A i \in b + 1..n : Line'[i].id < pc.next
  BY <1>8 DEF Ordered
<1>14. ASSUME NEW i \in 1..Len(toMcu'), Len(toPc') + i > b, toMcu'[i].id = pc'.id
       PROVE  toMcu'[i].cmd = Awaited(pc') /\ (pc'.phase = "request" => toMcu'[i].arg = pc'.op.arg)
  <2>1. Line'[Len(toPc') + i].id = pc.next
    BY <1>0, <1>14 DEF LineShape
  <2>2. ~(Len(toPc') + i \in b + 1..n)
    BY <1>1, <1>13, <2>1
  <2>3. i = Len(toMcu) + 1
    BY <1>2, <1>3, <1>9, <1>14, <2>2, SMTT(30)
  <2> QED BY <1>3, <2>3
<1>15. ASSUME NEW i \in 1..Len(toPc'), i > b
       PROVE  toPc'[i].id # pc'.id
  <2>1. i \in b + 1..n
    BY <1>2, <1>9, <1>15, SMTT(30)
  <2>2. Line'[i].id = toPc'[i].id
    BY <1>0 DEF LineShape
  <2> QED BY <1>1, <1>13, <2>1, <2>2
<1>16. Own(b)'
  BY <1>12, <1>14, <1>15 DEF Own
<1>17. Older(b)'
  <2> SUFFICES ASSUME b > 0
               PROVE  /\ pc'.next + b <= trouble' + Busy' + 1
                      /\ Pending' - b < pc'.next - 1 => pc'.next + b <= trouble' + Busy'
    BY DEF Older
  <2>1. f > 0 /\ f \in Nat /\ Pending > 0 /\ b = f - c
    BY <1>2, <1>8 DEF Before, b
  <2>2. pc.next + f <= trouble + Busy + 1 /\ (Pending - f < pc.next - 1 => pc.next + f <= trouble + Busy)
    BY <2>1 DEF Older
  <2>3. \/ c = 1 /\ Busy = 1 /\ trouble' = trouble
        \/ c = 0 /\ Busy = 0 /\ trouble' = trouble
        \/ c = 0 /\ Busy = 1 /\ trouble' = trouble + 1
    BY <1>1, <2>1 DEF Paid
  <2>4. /\ (pc.next + 1) + (f - c) <= trouble' + 1 + 1
        /\ ((Pending - c) + 1) - (f - c) < (pc.next + 1) - 1 => (pc.next + 1) + (f - c) <= trouble' + 1
    <3>1. pc.next \in Nat /\ f \in Nat /\ Pending \in Nat /\ trouble \in Nat /\ Busy \in 0..1
      BY <1>1, <1>2, <2>1
    <3> QED BY <2>2, <2>3, <3>1, CostSent, Zenon
  <2> QED BY <1>1, <1>4, <2>1, <2>4
<1> QED BY <1>4, <1>5, <1>12, <1>16, <1>17 DEF b

(* The operation has ended. *)
LEMMA LineFinished ==
  ASSUME HostTypeOK, HostTypeOK', LineInv, NEW c \in 0..1, Moved(c), Paid(c), Waiting, toMcu' = toMcu,
         pc'.next = pc.next, ~Waiting', NEW f \in 0..Pending, Own(f), Older(f)
  PROVE  /\ Pending' <= trouble' + Busy' /\ Pending' = Pending - c /\ Before(f, 0, c) \in 0..Pending'
         /\ Own(Before(f, 0, c))' /\ Older(Before(f, 0, c))'
<1>0. LineShape /\ LineShape'
  BY LineFacts, LineFactsNext
<1>1. /\ pc.next \in Nat /\ pc.next >= 1 /\ trouble \in Nat /\ Busy = 1 /\ Busy' = 0
  BY ProcessNumbers DEF LineInv, Busy
<1>2. /\ Pending \in Nat /\ Pending' \in Nat /\ Pending' = Pending - c /\ Pending <= trouble + Busy
  BY <1>0 DEF LineShape, Moved, LineInv
<1>3. Pending' <= trouble' + Busy'
  BY <1>1, <1>2 DEF Paid
<1> DEFINE b == Before(f, 0, c)
<1>4. \A i \in 1..Pending - c : Line'[i].id = Line[Shift(i, 0, c)].id
  BY LineMoved
<1>5. b \in 0..Pending' /\ b <= f /\ Ordered(Line', Pending', b, pc'.next)
  <2>1. c \in 0..Pending - 0 /\ 0 \in 0..Pending
    BY <1>2
  <2>2. b \in 0..Pending - c /\ b <= f /\ Ordered(Line', Pending - c, b, pc.next)
    BY <1>1, <1>2, <1>4, <2>1, OrderedDrop DEF Own
  <2> QED BY <1>2, <2>2
<1>6. Own(b)'
  BY <1>5 DEF Own
<1>7. Older(b)'
  <2> SUFFICES ASSUME b > 0
               PROVE  /\ pc'.next + b <= trouble' + Busy' + 1
                      /\ Pending' - b < pc'.next - 1 => pc'.next + b <= trouble' + Busy'
    BY DEF Older
  <2>1. f > 0 /\ f \in Nat /\ Pending > 0 /\ b = f - c
    BY <1>2, <1>5 DEF Before
  <2>2. pc.next + f <= trouble + Busy + 1 /\ (Pending - f < pc.next - 1 => pc.next + f <= trouble + Busy)
    BY <2>1 DEF Older
  <2> HIDE DEF b
  <2> QED BY <1>1, <1>2, <2>1, <2>2 DEF Paid
<1> QED BY <1>2, <1>3, <1>5, <1>6, <1>7


(* No answer can be mistaken for one to the next request. *)
LEMMA NotMistaken ==
  ASSUME HostTypeOK, HostTypeOK', LineInv, NEW c \in 0..1, Paid(c), Waiting, c = 1 \/ toPc' = <<>>,
         Waiting' => Pending' >= Pending, NEW f \in 0..Pending, Older(f)
  PROVE  Mistakable(Before(f, 0, c))' \/ trouble' > 2
<1> DEFINE b == Before(f, 0, c)
<1>1. pc.next \in Nat /\ pc.next >= 2 /\ trouble \in Nat /\ Busy = 1
  BY ProcessNumbers DEF LineInv
<1>2. Pending \in Nat /\ Pending' \in Nat
  BY LineFacts, LineFactsNext DEF LineShape
<1> SUFFICES ASSUME b > 0, toPc' # <<>>, ~(trouble' > 2)
             PROVE  trouble' = 2 /\ b = 1 /\ ~(Pending' = 1 /\ Waiting')
  BY DEF Mistakable
<1>3. c = 1 /\ trouble' = trouble
  BY DEF Paid
<1>4. f \in Nat /\ f >= 2 /\ b = f - 1
  BY <1>2, <1>3 DEF Before
<1> HIDE DEF b
<1>5. pc.next + f <= trouble + 2 /\ (Pending - f < pc.next - 1 => pc.next + f <= trouble + 1)
  BY <1>1, <1>4 DEF Older
<1>6. trouble = 2 /\ pc.next = 2 /\ f = 2
  BY <1>1, <1>3, <1>4, <1>5
<1>7. Pending >= 3
  BY <1>2, <1>5, <1>6
<1> QED BY <1>2, <1>3, <1>4, <1>6, <1>7

(* The operation goes on behind what is on the line. *)
LEMMA LineOnward ==
  ASSUME HostTypeOK, HostTypeOK', LineInv, NoWrap, NEW c \in 0..1, Moved(c), Paid(c), Waiting,
         c = 1 \/ toPc' = <<>>, Used <= 4, Used' >= Used + 1,
         NEW phase \in Phases \ {"closed", "idle"}, NEW cmd, NEW arg, NEW outcome, NEW host, NEW current,
         Sent(phase, cmd, arg, outcome, host, current),
         cmd = Awaited(pc'), phase = "request" => arg = pc.op.arg, ToldInv'
  PROVE  LineInv'
<1> DEFINE q == [cmd |-> cmd, id |-> pc.next, arg |-> arg]
<1>1. NumberInv /\ NumberInv' /\ pc'.next = pc.next + 1
  BY NumberSent DEF LineInv
<1>2. /\ q \in Frames /\ toMcu' = Append(toMcu, q) /\ q.id = pc.next /\ pc'.id = pc.next /\ q.cmd = cmd
      /\ pc'.phase = phase /\ q.arg = arg /\ pc'.op = pc.op
  BY DEF Sent
<1> HIDE DEF q
<1>3. Waiting' /\ pc.phase # "closed"
  BY <1>2 DEF Waiting
<1>4. PICK f \in 0..Pending : After(f)
  BY <1>3 DEF LineInv
<1>5. Own(f) /\ Older(f)
  BY <1>4 DEF After
<1>6. /\ Pending' <= trouble' + Busy' /\ Pending' = (Pending - c) + 1 /\ Before(f, 0, c) \in 0..Pending'
      /\ Own(Before(f, 0, c))' /\ Older(Before(f, 0, c))'
  BY <1>1, <1>2, <1>3, <1>5, LineSent
<1>7. Pending' >= Pending
  BY <1>6, LineFacts DEF LineShape
<1>8. Mistakable(Before(f, 0, c))' \/ trouble' > 2
  BY <1>5, <1>7, NotMistaken
<1>9. trouble' \in Nat
  BY DEF HostTypeOK
<1>10. After(Before(f, 0, c))'
  BY <1>6, <1>8, <1>9 DEF After
<1> QED BY <1>1, <1>6, <1>10 DEF LineInv

(* The operation ends. *)
LEMMA LineEnded ==
  ASSUME HostTypeOK, HostTypeOK', LineInv, NEW c \in 0..1, Moved(c), Paid(c), Waiting,
         c = 1 \/ toPc' = <<>>, NEW outcome, Finished(outcome)
  PROVE  LineInv'
<1>1. NumberInv /\ NumberInv'
  BY NumberFinished DEF LineInv
<1>2. toMcu' = toMcu /\ pc'.next = pc.next /\ pc'.phase = "idle"
  BY DEF Finished
<1>3. ~Waiting' /\ pc.phase # "closed" /\ ToldInv'
  BY <1>2 DEF Waiting, ToldInv
<1>4. PICK f \in 0..Pending : After(f)
  BY <1>3 DEF LineInv
<1>5. Own(f) /\ Older(f)
  BY <1>4 DEF After
<1>6. /\ Pending' <= trouble' + Busy' /\ Before(f, 0, c) \in 0..Pending'
      /\ Own(Before(f, 0, c))' /\ Older(Before(f, 0, c))'
  BY <1>2, <1>3, <1>5, LineFinished
<1>7. Mistakable(Before(f, 0, c))' \/ trouble' > 2
  BY <1>3, <1>5, NotMistaken
<1>8. trouble' \in Nat
  BY DEF HostTypeOK
<1>9. After(Before(f, 0, c))'
  BY <1>6, <1>7, <1>8 DEF After
<1> QED BY <1>1, <1>3, <1>6, <1>9 DEF LineInv

(* An exception ends it or leads to the request. *)
LEMMA LineRaised ==
  ASSUME HostTypeOK, HostTypeOK', LineInv, NoWrap, NEW c \in 0..1, Moved(c), Paid(c), Waiting,
         c = 1 \/ toPc' = <<>>, NEW what, Raised(what)
  PROVE  LineInv'
<1>1. CASE Finished(pc.outcome) \/ Finished(what)
  BY <1>1, LineEnded
<1>2. CASE /\ pc.phase \in {"preStatus", "preRetire"}
           /\ Sent("request", pc.op.cmd, pc.op.arg, pc.outcome, pc.host, pc.current)
  <2>1. pc'.phase = "request" /\ pc'.op = pc.op
    BY <1>2 DEF Sent
  <2>2. Used <= 4 /\ Used' >= Used + 1 /\ Awaited(pc') = pc.op.cmd
    BY <1>2, <2>1 DEF Used, Awaited
  <2>3. ToldInv' /\ "request" \in Phases \ {"closed", "idle"}
    BY <2>1 DEF ToldInv, Phases
  <2> QED BY <1>2, <2>2, <2>3, LineOnward
<1> QED BY <1>1, <1>2 DEF Raised

(* The only own frame of a process that has sent one is its command, which  *)
(* is no full zeroize.                                                      *)
LEMMA FirstCommand ==
  ASSUME HostTypeOK, LineInv, pc.phase = "request", pc.next = 2, NEW f \in 0..Pending, Own(f),
         NEW i \in 1..Len(toMcu), Len(toPc) + i > f
  PROVE  toMcu[i].id = pc.id /\ toMcu[i].cmd = pc.op.cmd /\ ~EmergencyAll(toMcu[i])
<1>0. LineShape /\ Waiting
  BY LineFacts DEF Waiting
<1>1. pc.id \in Nat /\ pc.id + 1 = pc.next /\ ~EmergencyAll(pc.op) /\ Awaited(pc) = pc.op.cmd
  BY <1>0, ProcessNumbers DEF LineInv, NumberInv, Awaited
<1>2. f \in Nat /\ Len(toPc) \in Nat /\ Pending \in Nat
  BY <1>0 DEF LineShape
<1>3. /\ Len(toPc) + i \in f + 1..Pending /\ Line[Len(toPc) + i].id = toMcu[i].id /\ toMcu[i] \in Frames
  BY <1>0, <1>2 DEF LineShape
<1>4. toMcu[i].id < 2 /\ toMcu[i].id \in Nat /\ toMcu[i].id >= 1
  <2>1. Line[Len(toPc) + i].id < 2
    BY <1>3 DEF Own, Ordered
  <2> QED BY <1>3, <2>1 DEF Frames, Txids
<1>5. toMcu[i].id = pc.id
  BY <1>1, <1>4
<1>6. toMcu[i].cmd = pc.op.cmd /\ toMcu[i].arg = pc.op.arg
  BY <1>0, <1>1, <1>5 DEF Own
<1> QED BY <1>1, <1>5, <1>6 DEF EmergencyAll

(* A success is answered: the next frame asks for the result. *)
LEMMA ToldQuery ==
  ASSUME HostTypeOK, HostTypeOK', LineInv, Waiting, toPc # <<>>, Correlated(toPc[1]), toPc[1].code = "OK",
         pc.phase = "request", pc.op.cmd # "PING", Moved(1), mcu' = mcu, trouble' = trouble,
         pc'.phase = "query", pc'.current = toPc[1].current, pc'.id = pc.next,
         NEW q \in Frames, toMcu' = Append(toMcu, q), q.cmd = "GET_TXN_RESULT"
  PROVE  ToldInv'
<1>0. LineShape /\ LineShape'
  BY LineFacts, LineFactsNext
<1>1. /\ pc.next \in Nat /\ pc.next >= 2 /\ trouble \in Nat /\ Busy = 1 /\ pc.id \in Nat /\ pc.id + 1 = pc.next
      /\ Pending <= trouble + 1 /\ (EmergencyAll(pc.op) => pc.next > 2)
  BY ProcessNumbers DEF LineInv, NumberInv
<1>2. /\ Len(toMcu) \in Nat /\ Len(toPc) \in Nat /\ Len(toPc) >= 1 /\ Pending \in Nat
      /\ Pending = Len(toPc) + Len(toMcu) /\ Len(toPc') = Len(toPc) - 1 /\ 1 \in 1..Len(toPc)
  BY <1>0 DEF LineShape, Moved
<1>3. /\ Len(toMcu') = Len(toMcu) + 1 /\ toMcu'[Len(toMcu) + 1] = q
      /\ \A i \in 1..Len(toMcu) : toMcu'[i] = toMcu[i]
  BY <1>0, AppendFacts DEF LineShape
<1>4. /\ Awaited(pc) = pc.op.cmd /\ pc.op.cmd \in ManagedCommands /\ pc.op.cmd \in OpCommands
      /\ toPc[1].cmd = pc.op.cmd /\ toPc[1].id = pc.id /\ Awaited(pc') = "GET_TXN_RESULT"
  <2>1. pc.op \in Ops
    BY SameClient
  <2>2. pc.op.cmd \in OpCommands
    BY <2>1, OpFacts
  <2> QED BY <2>2 DEF Awaited, ManagedCommands, Correlated
<1>5. pc.op.cmd # "RETIRE_TXN_RESULT" /\ "GET_TXN_RESULT" \notin ManagedCommands
  BY <1>4, OpFacts DEF ManagedCommands
<1>6. toMcu = <<>> /\ toPc[1].current => Clean'
  BY <1>3, <1>5 DEF Clean
<1>7. PICK f \in 0..Pending : After(f)
  BY DEF LineInv
<1>8. Own(f) /\ Older(f) /\ f \in Nat
  BY <1>2, <1>7 DEF After
<1>9. f > 0 => pc.next + f <= trouble + 2 /\ (Pending - f < pc.next - 1 => pc.next + f <= trouble + 1)
  BY <1>1, <1>8 DEF Older
<1>10. f = 0 => toMcu = <<>> /\ toPc[1].current
  BY <1>2, <1>4, <1>8 DEF Own
<1>11. ASSUME pc.next = 2, NEW i \in 1..Len(toMcu), Len(toPc) + i > f
       PROVE  toMcu[i].id = pc.id /\ toMcu[i].cmd = pc.op.cmd /\ ~EmergencyAll(toMcu[i])
  BY <1>7, <1>8, <1>11, FirstCommand
<1>12. CASE f > 0 /\ trouble = 1
  <2>1. pc.next = 2 /\ f = 1
    BY <1>1, <1>9, <1>12
  <2>2. toPc[1].current /\ mcu.txn # None
    BY <1>4, <1>7, <1>12 DEF After, Mistakable
  <2>3. CASE toMcu = <<>>
    BY <1>6, <2>2, <2>3 DEF ToldInv
  <2>4. CASE toMcu # <<>>
    <3>1. Len(toPc) = 1 /\ Len(toMcu) = 1 /\ 1 \in 1..Len(toMcu)
      <4>1. toMcu \in Seq(Frames)
        BY <1>0 DEF LineShape
      <4>2. Len(toMcu) # 0
        BY <2>4, <4>1
      <4>3. Len(toPc) + Len(toMcu) <= 2 /\ Len(toPc) \in Nat /\ Len(toPc) >= 1 /\ Len(toMcu) \in Nat
        BY <1>1, <1>2, <1>12
      <4>4. \A m, n \in Nat : m + n <= 2 /\ m >= 1 /\ n # 0 => m = 1 /\ n = 1
        OBVIOUS
      <4>5. Len(toPc) = 1 /\ Len(toMcu) = 1
        BY <4>2, <4>3, <4>4
      <4> QED BY <4>5
    <3>2. toMcu[1].id = pc.id /\ ~EmergencyAll(toMcu[1])
      BY <1>2, <1>11, <2>1, <3>1
    <3>3. toPc' = <<>> /\ toMcu' # <<>> /\ toMcu'[1] = toMcu[1] /\ Len(toMcu') = 2 /\ toMcu'[2] = q
      BY <1>0, <1>2, <1>3, <3>1 DEF LineShape
    <3>4. toMcu'[1].id # pc'.id
      BY <1>1, <3>2, <3>3
    <3>5. \A i \in 2..Len(toMcu') : toMcu'[i].cmd \notin ManagedCommands
      BY <1>5, <3>3
    <3>6. Shielded'
      BY <2>2, <3>2, <3>3, <3>4, <3>5 DEF Shielded
    <3> QED BY <1>12, <3>6 DEF ToldInv
  <2> QED BY <2>3, <2>4
<1>13. CASE f > 0 /\ trouble = 2
  <2>1. (f = 1 /\ pc.next <= 3) \/ (f = 2 /\ pc.next = 2 /\ Pending = 3)
    <3>1. pc.next + f <= 4 /\ (Pending - f < pc.next - 1 => pc.next + f <= 3) /\ Pending <= 3
      BY <1>1, <1>9, <1>13
    <3>2. \A m, p, k \in Nat : /\ m >= 2 /\ k > 0 /\ m + k <= 4 /\ (p - k < m - 1 => m + k <= 3) /\ p <= 3
                              => (k = 1 /\ m <= 3) \/ (k = 2 /\ m = 2 /\ p = 3)
      BY SMTT(30)
    <3> QED BY <1>1, <1>2, <1>8, <1>13, <3>1, <3>2
  <2>2. Pending >= 2 => Pending' > 0 /\ Line'[1].id = Line[2].id /\ Line'[1].cmd = Line[2].cmd
    <3> SUFFICES ASSUME Pending >= 2 PROVE Pending' > 0 /\ Line'[1].id = Line[2].id /\ Line'[1].cmd = Line[2].cmd
      OBVIOUS
    <3>1. 1 \in 1..Pending - 1 /\ Shift(1, 0, 1) = 2
      BY <1>2 DEF Shift
    <3>2. Line'[1].id = Line[Shift(1, 0, 1)].id /\ Line'[1].cmd = Line[Shift(1, 0, 1)].cmd
      BY <3>1, LineMoved
    <3>3. Pending' > 0
      BY <1>0, <1>2, <1>3 DEF LineShape
    <3> QED BY <3>1, <3>2, <3>3
  <2>3. CASE f = 1 /\ Pending >= 2
    <3>1. 2 \in f + 1..Pending
      BY <1>2, <2>3
    <3>2. Line[2].id < pc.next /\ Line[2].id \in Nat
      BY <1>0, <1>2, <1>8, <3>1 DEF Own, Ordered, LineShape
    <3>3. Line'[1].id # pc'.id
      BY <1>1, <2>2, <2>3, <3>2
    <3>4. Doomed'
      BY <2>2, <2>3, <3>3 DEF Doomed, Correlated
    <3> QED BY <1>13, <3>4 DEF ToldInv
  <2>4. CASE f = 1 /\ Pending < 2
    <3>1. Pending = 1 /\ toMcu = <<>>
      BY <1>0, <1>2, <2>4 DEF LineShape
    <3>2. toPc[1].current
      BY <1>4, <1>7, <1>13, <3>1 DEF After, Mistakable
    <3> QED BY <1>6, <3>1, <3>2 DEF ToldInv
  <2>5. CASE f = 2 /\ Line[2].cmd # "GET_TXN_RESULT"
    <3>1. Doomed'
      BY <1>4, <2>1, <2>2, <2>5 DEF Doomed, Correlated
    <3> QED BY <1>13, <3>1 DEF ToldInv
  <2>6. CASE f = 2 /\ Line[2].cmd = "GET_TXN_RESULT"
    <3>1. toPc[1].current /\ mcu.txn # None /\ pc.next = 2 /\ Pending = 3
      BY <1>4, <1>7, <1>13, <2>1, <2>6 DEF After, Mistakable
    <3>2. ASSUME NEW i \in 1..Len(toMcu)
          PROVE  toMcu[i].cmd # "RETIRE_TXN_RESULT" /\ (toMcu[i].cmd \in ManagedCommands => ~EmergencyAll(toMcu[i]))
      <4>1. Len(toPc) + i = 2 \/ Len(toPc) + i > f
        BY <1>2, <2>6
      <4>2. CASE Len(toPc) + i = 2
        <5>1. Line[Len(toPc) + i].cmd = toMcu[i].cmd
          BY <1>0 DEF LineShape
        <5> QED BY <1>5, <2>6, <4>2, <5>1
      <4>3. CASE Len(toPc) + i > f
        BY <1>5, <1>11, <3>1, <4>3
      <4> QED BY <4>1, <4>2, <4>3
    <3>3. \A i \in 1..Len(toMcu') : i \in 1..Len(toMcu) \/ i = Len(toMcu) + 1
      BY <1>2, <1>3
    <3>4. \A i \in 1..Len(toMcu') : /\ toMcu'[i].cmd # "RETIRE_TXN_RESULT"
                                    /\ toMcu'[i].cmd \in ManagedCommands => ~EmergencyAll(toMcu'[i])
      BY <1>3, <1>5, <3>2, <3>3
    <3>5. \A i \in 1..Len(toMcu') : \A k \in 1..i : k \in 1..Len(toMcu')
      BY <1>2, <1>3
    <3>6. Harmless'
      BY <3>1, <3>4, <3>5 DEF Harmless
    <3> QED BY <1>13, <3>6 DEF ToldInv
  <2> QED BY <1>2, <2>1, <2>3, <2>4, <2>5, <2>6
<1>14. CASE f = 0
  BY <1>6, <1>10, <1>14 DEF ToldInv
<1>15. CASE trouble > 2
  BY <1>1, <1>15 DEF ToldInv
<1>16. (f > 0 /\ trouble = 1) \/ (f > 0 /\ trouble = 2) \/ f = 0 \/ trouble > 2
  BY <1>1, <1>8, <1>9
<1> QED BY <1>12, <1>13, <1>14, <1>15, <1>16

(* The result is there: the next frame retires it. *)
LEMMA ToldRetire ==
  ASSUME HostTypeOK, HostTypeOK', LineInv, Waiting, toPc # <<>>, Correlated(toPc[1]),
         pc.phase = "query", mcu' = mcu, trouble' = trouble, pc'.phase = "retire", pc'.current = pc.current,
         NEW q \in Frames, toMcu' = Append(toMcu, q), q.cmd = "RETIRE_TXN_RESULT"
  PROVE  ToldInv'
<1>0. LineShape
  BY LineFacts
<1>1. /\ Len(toMcu) \in Nat /\ Len(toPc) \in Nat /\ 1 \in 1..Len(toPc)
      /\ Line[1].id = toPc[1].id /\ Line[1].cmd = toPc[1].cmd
  BY <1>0 DEF LineShape
<1>2. /\ Len(toMcu') = Len(toMcu) + 1 /\ toMcu'[Len(toMcu) + 1] = q
      /\ \A i \in 1..Len(toMcu) : toMcu'[i] = toMcu[i]
  BY <1>0, AppendFacts DEF LineShape
<1>3. "RETIRE_TXN_RESULT" \notin ManagedCommands
  BY OpFacts DEF ManagedCommands
<1>4. \A i \in 1..Len(toMcu') : i \in 1..Len(toMcu) \/ (i = Len(toMcu) + 1 /\ toMcu'[i].cmd \notin ManagedCommands)
  BY <1>1, <1>2, <1>3
<1>5. ~Doomed /\ ~Shielded
  BY <1>1 DEF Doomed, Shielded, Correlated
<1>6. Clean => Clean'
  BY <1>2, <1>4 DEF Clean
<1>7. ASSUME Harmless
      PROVE  Harmless'
  <2>1. ASSUME NEW i \in 1..Len(toMcu'), toMcu'[i].cmd \in ManagedCommands
        PROVE  ~EmergencyAll(toMcu'[i]) /\ \A k \in 1..i : toMcu'[k].cmd # "RETIRE_TXN_RESULT"
    <3>1. i \in 1..Len(toMcu) /\ \A k \in 1..i : k \in 1..Len(toMcu)
      BY <1>1, <1>4, <2>1
    <3> QED BY <1>2, <1>7, <2>1, <3>1 DEF Harmless
  <2> QED BY <1>7, <2>1 DEF Harmless
<1> QED BY <1>5, <1>6, <1>7 DEF LineInv, ToldInv

(* The process reads an answer. *)
LEMMA LineReceive ==
  ASSUME HostTypeOK, HostTypeOK', LineInv, NoWrap, Receive
  PROVE  LineInv'
<1> DEFINE r == Head(toPc)
<1>1. Waiting /\ toPc # <<>> /\ r \in Answers /\ Reaction(r) /\ toPc' = Tail(toPc)
  BY ReceiveSound
<1>2. mcu' = mcu /\ trouble' = trouble
  BY DEF Receive
<1>3. r = toPc[1] /\ Len(toPc') = Len(toPc) - 1 /\ Len(toPc) \in Nat /\ \A i \in 1..Len(toPc) - 1 : toPc'[i] = toPc[i + 1]
  BY <1>1, TailFacts DEF HostTypeOK
<1> HIDE DEF r
<1>4. toMcu' = toMcu \/ \E q \in Frames : toMcu' = Append(toMcu, q)
  <2>1. ASSUME NEW phase, NEW cmd, NEW arg, NEW outcome, NEW host, NEW current,
               Sent(phase, cmd, arg, outcome, host, current)
        PROVE  \E q \in Frames : toMcu' = Append(toMcu, q)
    BY <2>1 DEF Sent
  <2>2. ASSUME NEW outcome, Finished(outcome)
        PROVE  toMcu' = toMcu
    BY <2>2 DEF Finished
  <2>3. ASSUME NEW what, Raised(what)
        PROVE  toMcu' = toMcu \/ \E q \in Frames : toMcu' = Append(toMcu, q)
    BY <2>1, <2>2, <2>3 DEF Raised
  <2> QED BY <1>1, <2>1, <2>2, <2>3 DEF Reaction
<1>5. Len(toMcu') >= Len(toMcu) /\ \A i \in 1..Len(toMcu) : toMcu'[i] = toMcu[i]
  <2>1. toMcu \in Seq(Frames) /\ Len(toMcu) \in Nat
    BY DEF HostTypeOK
  <2>2. CASE toMcu' = toMcu
    BY <2>1, <2>2
  <2>3. CASE \E q \in Frames : toMcu' = Append(toMcu, q)
    <3>1. PICK q \in Frames : toMcu' = Append(toMcu, q)
      BY <2>3
    <3>2. Len(toMcu') = Len(toMcu) + 1 /\ \A i \in 1..Len(toMcu) : toMcu'[i] = toMcu[i]
      BY <2>1, <3>1, AppendFacts
    <3> QED BY <2>1, <3>2
  <2> QED BY <1>4, <2>2, <2>3
<1>6. Moved(1) /\ Paid(1)
  <2>1. \A i \in 1..Len(toPc') : toPc'[i] = toPc[i + 1]
    BY <1>3
  <2> QED BY <1>1, <1>2, <1>3, <1>5, <2>1 DEF Moved, Paid
<1>7. {"request", "query", "retire", "status", "clean", "preRetire"} \subseteq Phases \ {"closed", "idle"}
  BY DEF Phases
<1>8. CASE Raised("HostProtocolError") \/ Raised(r.code)
  BY <1>1, <1>6, <1>8, LineRaised
<1>9. CASE Finished("OK") \/ Finished("HostProtocolError") \/ Finished(pc.outcome)
  BY <1>1, <1>6, <1>9, LineEnded
<1>10. CASE pc.phase = "request" /\ Sent("status", "GET_SYSTEM_STATUS", None, r.code, pc.host, pc.current)
  <2>1. pc'.phase = "status"
    BY <1>10 DEF Sent
  <2>2. Used <= 4 /\ Used' >= Used + 1 /\ Awaited(pc') = "GET_SYSTEM_STATUS" /\ ToldInv'
    BY <1>10, <2>1 DEF Used, Awaited, ToldInv
  <2> QED BY <1>1, <1>6, <1>7, <1>10, <2>2, LineOnward
<1>11. CASE /\ Correlated(r) /\ r.code = "OK" /\ pc.phase = "request" /\ pc.op.cmd # "PING"
            /\ Sent("query", "GET_TXN_RESULT", r.id, pc.outcome, r.id, r.current)
  <2> DEFINE q == [cmd |-> "GET_TXN_RESULT", id |-> pc.next, arg |-> r.id]
  <2>1. /\ pc'.phase = "query" /\ pc'.current = r.current /\ pc'.id = pc.next
        /\ q \in Frames /\ toMcu' = Append(toMcu, q) /\ q.cmd = "GET_TXN_RESULT"
    BY <1>11 DEF Sent
  <2> HIDE DEF q
  <2>2. Used <= 4 /\ Used' >= Used + 1 /\ Awaited(pc') = "GET_TXN_RESULT"
    BY <1>11, <2>1 DEF Used, Awaited
  <2>3. ToldInv'
    BY <1>1, <1>2, <1>3, <1>6, <1>11, <2>1, ToldQuery
  <2> QED BY <1>1, <1>6, <1>7, <1>11, <2>2, <2>3, LineOnward
<1>12. CASE /\ Correlated(r) /\ pc.phase = "query"
            /\ Sent("retire", "RETIRE_TXN_RESULT", pc.host, IF Verified(r) THEN "OK" ELSE "HostProtocolError",
                    pc.host, pc.current)
  <2> DEFINE o == IF Verified(r) THEN "OK" ELSE "HostProtocolError"
             q == [cmd |-> "RETIRE_TXN_RESULT", id |-> pc.next, arg |-> pc.host]
  <2>0. Sent("retire", "RETIRE_TXN_RESULT", pc.host, o, pc.host, pc.current)
    BY <1>12
  <2> HIDE DEF o
  <2>1. /\ pc'.phase = "retire" /\ pc'.current = pc.current
        /\ q \in Frames /\ toMcu' = Append(toMcu, q) /\ q.cmd = "RETIRE_TXN_RESULT"
    BY <2>0 DEF Sent
  <2> HIDE DEF q
  <2>2. Used <= 4 /\ Used' >= Used + 1 /\ Awaited(pc') = "RETIRE_TXN_RESULT"
    BY <1>12, <2>1 DEF Used, Awaited
  <2>3. ToldInv'
    BY <1>1, <1>2, <1>3, <1>12, <2>1, ToldRetire
  <2> QED BY <1>1, <1>6, <1>7, <2>0, <2>2, <2>3, LineOnward
<1>13. CASE /\ pc.phase \in {"preStatus", "preRetire"}
            /\ Sent("request", pc.op.cmd, pc.op.arg, pc.outcome, pc.host, pc.current)
  <2>1. Raised("OK")
    BY <1>13 DEF Raised
  <2> QED BY <1>1, <1>6, <2>1, LineRaised
<1>14. CASE pc.phase = "status" /\ Sent("clean", "RETIRE_TXN_RESULT", r.data, pc.outcome, pc.host, pc.current)
  <2>1. pc'.phase = "clean"
    BY <1>14 DEF Sent
  <2>2. Used <= 4 /\ Used' >= Used + 1 /\ Awaited(pc') = "RETIRE_TXN_RESULT" /\ ToldInv'
    BY <1>14, <2>1 DEF Used, Awaited, ToldInv
  <2> QED BY <1>1, <1>6, <1>7, <1>14, <2>2, LineOnward
<1>15. CASE pc.phase = "preStatus" /\ Sent("preRetire", "RETIRE_TXN_RESULT", r.data, pc.outcome, pc.host, pc.current)
  <2>1. pc'.phase = "preRetire"
    BY <1>15 DEF Sent
  <2>2. Used <= 4 /\ Used' >= Used + 1 /\ Awaited(pc') = "RETIRE_TXN_RESULT" /\ ToldInv'
    BY <1>15, <2>1 DEF Used, Awaited, ToldInv
  <2> QED BY <1>1, <1>6, <1>7, <1>15, <2>2, LineOnward
<1> QED BY <1>1, <1>8, <1>9, <1>10, <1>11, <1>12, <1>13, <1>14, <1>15 DEF Reaction

(* Whatever is appended, the elements before it stay. *)
LEMMA AppendKeeps ==
  ASSUME NEW S, NEW s \in Seq(S), NEW x
  PROVE  \A i \in 1..Len(s) : Append(s, x)[i] = s[i]
<1>1. s \in Seq(S \cup {x}) /\ x \in S \cup {x}
  OBVIOUS
<1> QED BY <1>1, AppendFacts

(* A command that meets a retained result is refused, and no result is      *)
(* touched, but for a full zeroize.                                         *)
LEMMA Refused ==
  ASSUME HostTypeOK, NEW q \in Frames, Dispatch(q), mcu.txn # None, ~EmergencyAll(q)
  PROVE  pc' = pc /\ \A i \in 1..Len(toPc) : toPc'[i] = toPc[i]
<1> DEFINE Answering == pc' = pc /\ \E x : toPc' = Append(toPc, x)
<1>1. \A code, data : Answer(q, code, data) => Answering
  BY DEF Answer
<1>2. \A done : ManagedCommand(q, done) => Answering
  BY <1>1 DEF ManagedCommand, Refuse
<1>3. HandleRetire(q) => Answering
  BY <1>1 DEF HandleRetire
<1>4. HandleGet(q) \/ HandleStatus(q) \/ HandlePing(q) \/ HandleBusy(q) => Answering
  BY <1>1 DEF HandleGet, HandleStatus, HandlePing, HandleBusy
<1>5. HandleGenerate(q) => Answering
  BY <1>1 DEF HandleGenerate, BadState, Refuse
<1>6. HandleCreate(q) \/ HandleSend(q) \/ HandleClose(q) => Answering
  BY <1>1, <1>2 DEF HandleCreate, BadState, HandleSend, HandleClose
<1>7. HandleSelfTest(q) \/ HandleZeroize(q) => Answering
  BY <1>2 DEF HandleSelfTest, HandleZeroize
<1>8. Answering
  BY <1>3, <1>4, <1>5, <1>6, <1>7 DEF Dispatch
<1>9. toPc \in Seq(Answers)
  BY DEF HostTypeOK
<1> QED BY <1>8, <1>9, AppendKeeps

(* What a handled request tells, and what it leaves. *)
LEMMA LineHandled ==
  ASSUME HostTypeOK, NEW q \in Frames, Handled(q)
  PROVE  /\ q.cmd \notin ManagedCommands => pc' = pc /\ \A i \in 1..Len(toPc) : toPc'[i] = toPc[i]
         /\ mcu.txn # None /\ q.cmd # "RETIRE_TXN_RESULT" => mcu'.txn # None
         /\ \E r \in Answers : /\ Extended(r) /\ r.id = q.id /\ r.cmd = q.cmd /\ r.current
                               /\ q.cmd \in ManagedCommands /\ r.code = "OK" => mcu'.txn # None
<1>0. None \in AnswerData /\ {"OK", "FAILED"} \subseteq AnswerCodes /\ "RETIRE_TXN_RESULT" \notin ManagedCommands
  BY OpFacts DEF AnswerData, AnswerCodes, ManagedCommands
<1>1. CASE mcu' = mcu /\ \E code, data : Told(q, code, data) /\ Replied(q, code, data)
  <2>1. PICK code, data : Told(q, code, data) /\ Replied(q, code, data)
    BY <1>1
  <2>2. /\ code \in AnswerCodes /\ data \in AnswerData
        /\ q.cmd \in ManagedCommands /\ code = "OK" => mcu.txn # None
    BY <2>1 DEF Told
  <2> DEFINE r == Reply(q, code, data)
  <2>3. Extended(r) /\ pc' = pc /\ \A i \in 1..Len(toPc) : toPc'[i] = toPc[i]
    BY <2>1, <2>2, RepliedFacts
  <2>4. r \in Answers /\ r.id = q.id /\ r.cmd = q.cmd /\ r.code = code /\ r.current = TRUE
    <3>1. r \in Answers
      BY <2>2, ReplyFacts
    <3> QED BY <3>1 DEF Reply
  <2> HIDE DEF r
  <2> QED BY <1>1, <2>2, <2>3, <2>4
<1>2. CASE Retired(q)
  <2>1. Replied(q, "OK", None) /\ "OK" \in AnswerCodes /\ q.cmd = "RETIRE_TXN_RESULT"
    BY <1>0, <1>2 DEF Retired
  <2> DEFINE r == Reply(q, "OK", None)
  <2>2. Extended(r) /\ pc' = pc /\ \A i \in 1..Len(toPc) : toPc'[i] = toPc[i]
    BY <1>0, <2>1, RepliedFacts
  <2>3. r \in Answers /\ r.id = q.id /\ r.cmd = q.cmd /\ r.current = TRUE
    <3>1. r \in Answers
      BY <1>0, <2>1, ReplyFacts
    <3> QED BY <3>1 DEF Reply
  <2> HIDE DEF r
  <2> QED BY <1>0, <2>1, <2>2, <2>3
<1>3. CASE \E code : Executed(q, code)
  <2>1. PICK code : Executed(q, code)
    BY <1>3
  <2>2. code \in AnswerCodes /\ code \in {"OK", "FAILED"} /\ q.cmd \in ManagedCommands
    BY <1>0, <2>1 DEF Executed
  <2> DEFINE r == Reply(q, code, None)
             t == [id |-> q.id, cmd |-> q.cmd, arg |-> q.arg, code |-> code]
  <2>3. Extended(r)
    BY <2>1, ExecutedFacts
  <2>4. r \in Answers /\ r.id = q.id /\ r.cmd = q.cmd /\ r.current = TRUE
    <3>1. r \in Answers
      BY <1>0, <2>2, ReplyFacts
    <3> QED BY <3>1 DEF Reply
  <2>5. mcu'.txn = t /\ t \in Transactions
    <3>1. q \in ManagedFrames
      BY <2>2 DEF ManagedFrames
    <3> QED BY <2>1, <2>2, <3>1, ManagedFacts DEF Executed, Transactions, ManagedCommands, OpCommands, Arguments
  <2> HIDE DEF r, t
  <2>6. mcu'.txn # None
    BY <2>5, NoneAssumption DEF NoneAssumption
  <2> QED BY <2>2, <2>3, <2>4, <2>6
<1> QED BY <1>1, <1>2, <1>3 DEF Handled

(* The order depends on the identifiers alone. *)
LEMMA OrderedSame ==
  ASSUME NEW l, NEW g, NEW n \in Nat, NEW f \in 0..n, NEW m, Ordered(l, n, f, m), \A i \in 1..n : g[i].id = l[i].id
  PROVE  Ordered(g, n, f, m)
<1>1. \A i \in f + 1..n : i \in 1..n
  OBVIOUS
<1> QED BY <1>1 DEF Ordered

(* Frame by frame, the line becomes answers. *)
LEMMA LineAnswered ==
  ASSUME HostTypeOK, HostTypeOK', toMcu # <<>>, toMcu' = Tail(toMcu),
         NEW r, Extended(r), r.id = toMcu[1].id, r.cmd = toMcu[1].cmd
  PROVE  /\ Pending' = Pending /\ Len(toPc') = Len(toPc) + 1 /\ Len(toMcu') = Len(toMcu) - 1
         /\ \A i \in 1..Len(toMcu') : i + 1 \in 1..Len(toMcu) /\ toMcu'[i] = toMcu[i + 1]
         /\ \A i \in 1..Pending : Line'[i].id = Line[i].id /\ Line'[i].cmd = Line[i].cmd
<1>0. LineShape /\ LineShape'
  BY LineFacts, LineFactsNext
<1>1. /\ Len(toPc) \in Nat /\ Len(toMcu) \in Nat /\ 1 <= Len(toMcu) /\ Len(toMcu') = Len(toMcu) - 1
      /\ \A i \in 1..Len(toMcu) - 1 : toMcu'[i] = toMcu[i + 1]
  BY <1>0, TailFacts DEF LineShape
<1>2. /\ Len(toPc') = Len(toPc) + 1 /\ toPc'[Len(toPc) + 1] = r
      /\ \A i \in 1..Len(toPc) : toPc'[i].cmd = toPc[i].cmd /\ toPc'[i].id = toPc[i].id
  BY DEF Extended
<1>3. Pending' = Pending /\ Pending = Len(toPc) + Len(toMcu)
  BY <1>0, <1>1, <1>2 DEF LineShape
<1>4. \A i \in 1..Len(toMcu') : i + 1 \in 1..Len(toMcu) /\ i \in 1..Len(toMcu) - 1
  BY <1>1
<1>5. ASSUME NEW i \in 1..Pending
      PROVE  Line'[i].id = Line[i].id /\ Line'[i].cmd = Line[i].cmd
  <2>1. CASE i <= Len(toPc)
    <3>1. i \in 1..Len(toPc) /\ i \in 1..Len(toPc')
      BY <1>1, <1>2, <2>1
    <3> QED BY <1>0, <1>2, <3>1 DEF LineShape
  <2>2. CASE i = Len(toPc) + 1
    <3>1. 1 \in 1..Len(toMcu) /\ Len(toPc) + 1 \in 1..Len(toPc')
      BY <1>1, <1>2
    <3>2. Line[Len(toPc) + 1].id = toMcu[1].id /\ Line[Len(toPc) + 1].cmd = toMcu[1].cmd
      BY <1>0, <3>1 DEF LineShape
    <3>3. Line'[Len(toPc) + 1].id = r.id /\ Line'[Len(toPc) + 1].cmd = r.cmd
      BY <1>0, <1>2, <3>1 DEF LineShape
    <3> QED BY <2>2, <3>2, <3>3
  <2>3. CASE i > Len(toPc) + 1
    <3> DEFINE j == i - Len(toPc')
    <3>1. j \in 1..Len(toMcu') /\ j + 1 \in 1..Len(toMcu) /\ Len(toPc') + j = i /\ Len(toPc) + (j + 1) = i
      BY <1>1, <1>2, <1>3, <2>3
    <3> HIDE DEF j
    <3>2. toMcu'[j] = toMcu[j + 1]
      BY <1>1, <1>4, <3>1
    <3>3. Line'[Len(toPc') + j].id = toMcu'[j].id /\ Line'[Len(toPc') + j].cmd = toMcu'[j].cmd
      BY <1>0, <3>1 DEF LineShape
    <3>4. Line[Len(toPc) + (j + 1)].id = toMcu[j + 1].id /\ Line[Len(toPc) + (j + 1)].cmd = toMcu[j + 1].cmd
      BY <1>0, <3>1 DEF LineShape
    <3> QED BY <3>1, <3>2, <3>3, <3>4
  <2> QED BY <1>1, <2>1, <2>2, <2>3
<1> QED BY <1>1, <1>2, <1>3, <1>4, <1>5

(* A request of the line is handled. *)
LEMMA LineHandle ==
  ASSUME HostTypeOK, HostTypeOK', LineInv, HandleRequest
  PROVE  LineInv'
<1> DEFINE q == Head(toMcu)
<1>0. LineShape /\ LineShape'
  BY LineFacts, LineFactsNext
<1>1. toMcu # <<>> /\ q \in Frames /\ Handled(q) /\ toMcu' = Tail(toMcu) /\ trouble' = trouble /\ Dispatch(q)
  BY HandleFacts DEF HandleRequest
<1>2. SameButCurrent
  BY <1>1, HandledFacts
<1>3. /\ Len(toMcu) \in Nat /\ 1 <= Len(toMcu) /\ q = toMcu[1] /\ 1 \in 1..Len(toMcu) /\ Len(toPc) \in Nat
      /\ Pending \in Nat /\ Pending = Len(toPc) + Len(toMcu)
  BY <1>0, <1>1, TailFacts DEF LineShape
<1> HIDE DEF q
<1>4. PICK r \in Answers : /\ Extended(r) /\ r.id = q.id /\ r.cmd = q.cmd /\ r.current
                           /\ q.cmd \in ManagedCommands /\ r.code = "OK" => mcu'.txn # None
  BY <1>1, LineHandled
<1>5. /\ Pending' = Pending /\ Len(toPc') = Len(toPc) + 1 /\ Len(toMcu') = Len(toMcu) - 1
      /\ \A i \in 1..Len(toMcu') : i + 1 \in 1..Len(toMcu) /\ toMcu'[i] = toMcu[i + 1]
      /\ \A i \in 1..Pending : Line'[i].id = Line[i].id /\ Line'[i].cmd = Line[i].cmd
  BY <1>1, <1>3, <1>4, LineAnswered
<1>6. /\ toPc'[Len(toPc) + 1] = r
      /\ \A i \in 1..Len(toPc) : toPc'[i].cmd = toPc[i].cmd /\ toPc'[i].id = toPc[i].id /\ toPc'[i].code = toPc[i].code
  BY <1>4 DEF Extended
<1>7. q.cmd \notin ManagedCommands \/ (mcu.txn # None /\ ~EmergencyAll(q)) =>
        pc' = pc /\ \A i \in 1..Len(toPc) : toPc'[i] = toPc[i]
  BY <1>1, LineHandled, Refused
<1>8. mcu.txn # None /\ q.cmd # "RETIRE_TXN_RESULT" => mcu'.txn # None
  BY <1>1, LineHandled
<1>9. Used' = Used /\ Awaited(pc') = Awaited(pc) /\ Waiting' = Waiting /\ Busy' = Busy
  BY <1>2 DEF SameButCurrent, Used, Awaited, Waiting, Busy
<1>10. NumberInv /\ NumberInv'
  BY <1>2, <1>9 DEF LineInv, NumberInv, SameButCurrent
<1>11. Pending <= trouble + Busy /\ Pending' <= trouble' + Busy'
  BY <1>1, <1>5, <1>9 DEF LineInv
<1>12. /\ pc.next \in Nat /\ pc.next >= 1 /\ trouble \in Nat /\ Busy \in 0..1
       /\ Waiting => pc.id \in Nat /\ pc.id + 1 = pc.next /\ pc.next >= 2 /\ Busy = 1
       /\ ~Waiting => Busy = 0
  BY <1>10, ProcessNumbers
<1>13. ToldInv'
  <2>1. ASSUME Clean PROVE Clean'
    <3>1. q.cmd \notin ManagedCommands
      BY <1>3, <2>1 DEF Clean
    <3> QED BY <1>5, <1>7, <2>1, <3>1 DEF Clean
  <2>2. ASSUME Shielded PROVE Clean'
    <3>1. pc' = pc /\ pc.current
      BY <1>3, <1>7, <2>2 DEF Shielded
    <3>2. \A i \in 1..Len(toMcu') : i + 1 \in 2..Len(toMcu)
      BY <1>3, <1>5
    <3>3. \A i \in 1..Len(toMcu') : toMcu'[i].cmd \notin ManagedCommands
      BY <1>5, <2>2, <3>2 DEF Shielded
    <3> QED BY <3>1, <3>3 DEF Clean
  <2>3. ASSUME Harmless PROVE Clean' \/ Harmless'
    <3>1. pc' = pc /\ pc.current /\ mcu.txn # None
      <4>1. q.cmd \in ManagedCommands => ~EmergencyAll(q)
        BY <1>3, <2>3 DEF Harmless
      <4> QED BY <1>7, <2>3, <4>1 DEF Harmless
    <3>2. CASE q.cmd = "RETIRE_TXN_RESULT"
      <4>1. ASSUME NEW i \in 1..Len(toMcu') PROVE toMcu'[i].cmd \notin ManagedCommands
        <5>1. i + 1 \in 1..Len(toMcu) /\ 1 \in 1..i + 1 /\ toMcu'[i] = toMcu[i + 1]
          BY <1>3, <1>5
        <5> QED BY <1>3, <2>3, <3>2, <5>1 DEF Harmless
      <4> QED BY <3>1, <4>1 DEF Clean
    <3>3. CASE q.cmd # "RETIRE_TXN_RESULT"
      <4>1. mcu'.txn # None
        BY <1>8, <3>1, <3>3
      <4>2. ASSUME NEW i \in 1..Len(toMcu'), toMcu'[i].cmd \in ManagedCommands
            PROVE  ~EmergencyAll(toMcu'[i]) /\ \A k \in 1..i : toMcu'[k].cmd # "RETIRE_TXN_RESULT"
        <5>1. i + 1 \in 1..Len(toMcu) /\ toMcu'[i] = toMcu[i + 1]
          BY <1>5
        <5>2. /\ ~EmergencyAll(toMcu[i + 1])
              /\ \A k \in 1..i + 1 : toMcu[k].cmd # "RETIRE_TXN_RESULT"
          BY <2>3, <4>2, <5>1 DEF Harmless
        <5>3. \A k \in 1..i : k \in 1..Len(toMcu') /\ k + 1 \in 1..i + 1
          BY <1>3, <1>5
        <5> QED BY <1>5, <5>1, <5>2, <5>3
      <4> QED BY <3>1, <4>1, <4>2 DEF Harmless
    <3> QED BY <3>2, <3>3
  <2>4. ASSUME Doomed PROVE Doomed'
    <3>1. 1 \in 1..Pending
      BY <1>3, <2>4 DEF Doomed
    <3> QED BY <1>2, <1>5, <1>9, <2>4, <3>1 DEF Doomed, Correlated, SameButCurrent
  <2>5. pc'.phase = pc.phase
    BY <1>2 DEF SameButCurrent
  <2> QED BY <1>1, <2>1, <2>2, <2>3, <2>4, <2>5 DEF LineInv, ToldInv
<1>14. ASSUME NEW f \in 0..Pending, After(f)
       PROVE  Own(f)'
  <2>1. Own(f) /\ pc'.next = pc.next /\ pc'.id = pc.id /\ pc'.phase = pc.phase /\ pc'.op = pc.op
    BY <1>2, <1>14 DEF After, SameButCurrent
  <2>2. Ordered(Line', Pending', f, pc'.next)
    <3>1. Ordered(Line, Pending, f, pc.next) /\ Pending \in Nat
      BY <1>3, <2>1 DEF Own
    <3>2. \A i \in 1..Pending : Line'[i].id = Line[i].id
      BY <1>5
    <3>3. Ordered(Line', Pending, f, pc.next)
      BY <3>1, <3>2, OrderedSame
    <3> QED BY <1>5, <2>1, <3>3
  <2>3. ASSUME Waiting, NEW i \in 1..Len(toMcu'), Len(toPc') + i > f, toMcu'[i].id = pc.id
        PROVE  toMcu'[i].cmd = Awaited(pc) /\ (pc.phase = "request" => toMcu'[i].arg = pc.op.arg)
    <3>1. i + 1 \in 1..Len(toMcu) /\ toMcu'[i] = toMcu[i + 1] /\ Len(toPc) + (i + 1) > f
      BY <1>3, <1>5, <2>3
    <3> QED BY <2>1, <2>3, <3>1 DEF Own
  <2>4. ASSUME Waiting, NEW i \in 1..Len(toPc'), i > f, toPc'[i].id = pc.id
        PROVE  toMcu' = <<>> /\ toPc'[i].current
    <3>1. i = Len(toPc) + 1
      <4>1. ASSUME i # Len(toPc) + 1 PROVE FALSE
        <5>1. i \in 1..Len(toPc)
          BY <1>3, <1>5, <4>1
        <5>2. toPc[i].id = pc.id
          BY <1>6, <2>4, <5>1
        <5> QED BY <1>1, <2>1, <2>4, <5>1, <5>2 DEF Own
      <4> QED BY <4>1
    <3>2. toPc'[i] = r /\ toMcu[1].id = pc.id
      BY <1>3, <1>4, <1>6, <2>4, <3>1
    <3>3. Len(toMcu) = 1
      <4>1. ASSUME Len(toMcu) # 1 PROVE FALSE
        <5>1. 2 \in 1..Len(toMcu)
          <6>1. \A n \in Nat : 1 <= n /\ n # 1 => 2 <= n
            OBVIOUS
          <6>2. 2 <= Len(toMcu)
            BY <1>3, <4>1, <6>1
          <6> QED BY <1>3, <6>2
        <5>2. /\ Line[Len(toPc) + 1].id = toMcu[1].id /\ Line[Len(toPc) + 2].id = toMcu[2].id
              /\ toMcu[2].id \in Nat
          BY <1>0, <1>3, <5>1 DEF LineShape
        <5>3. Len(toPc) + 1 \in f + 1..Pending /\ Len(toPc) + 2 \in f + 1..Pending
          BY <1>3, <2>4, <3>1, <5>1
        <5>4. Line[Len(toPc) + 1].id < Line[Len(toPc) + 2].id /\ Line[Len(toPc) + 2].id < pc.next
          <6>1. Len(toPc) + 1 < Len(toPc) + 2
            BY <1>3
          <6> QED BY <2>1, <5>3, <6>1 DEF Own, Ordered
        <5> QED BY <1>12, <2>4, <3>2, <5>2, <5>4
      <4> QED BY <4>1
    <3>4. toMcu' = <<>>
      <4>1. toMcu' \in Seq(Frames) /\ Len(toMcu') = 0
        BY <1>0, <1>5, <3>3 DEF LineShape
      <4> QED BY <4>1
    <3> QED BY <1>4, <3>2, <3>4
  <2> QED BY <1>9, <2>1, <2>2, <2>3, <2>4 DEF Own
<1>15. ASSUME NEW f \in 0..Pending, After(f)
       PROVE  Older(f)'
  BY <1>1, <1>2, <1>5, <1>9, <1>15 DEF After, Older, SameButCurrent
<1>16. ASSUME NEW f \in 0..Pending, After(f), trouble <= 2
       PROVE  Mistakable(f)'
  <2> SUFFICES ASSUME f > 0, pc.phase \in {"idle", "request"}, toPc' # <<>>, toPc'[1].cmd \in ManagedCommands,
                      toPc'[1].code = "OK"
               PROVE  /\ trouble = 1 => toPc'[1].current /\ mcu'.txn # None
                      /\ trouble = 2 /\ f = 2 /\ Line'[2].cmd = "GET_TXN_RESULT" => toPc'[1].current /\ mcu'.txn # None
                      /\ trouble = 2 /\ Pending' = 1 /\ Waiting => toPc'[1].current
    BY <1>1, <1>2, <1>9 DEF Mistakable, SameButCurrent
  <2>1. CASE toPc = <<>>
    <3>1. toPc'[1] = r
      BY <1>6, <2>1
    <3> QED BY <1>4, <3>1
  <2>2. CASE toPc # <<>>
    <3>1. Len(toPc) >= 1 /\ 1 \in 1..Len(toPc) /\ Pending >= 2
      <4>1. toPc \in Seq(Answers)
        BY <1>0 DEF LineShape
      <4>2. Len(toPc) # 0
        BY <2>2, <4>1
      <4> QED BY <1>3, <4>2
    <3>2. toPc[1].cmd \in ManagedCommands /\ toPc[1].code = "OK"
      BY <1>6, <3>1
    <3>3. f \in Nat /\ pc.next + f <= trouble + Busy + 1 /\ Own(f)
      BY <1>3, <1>16 DEF After, Older
    (* The command of the process is refused, and so nothing is executed. *)
    <3>4. ASSUME q.cmd \notin ManagedCommands \/ ~EmergencyAll(q), q.cmd # "RETIRE_TXN_RESULT",
                 toPc[1].current /\ mcu.txn # None
          PROVE  toPc'[1].current /\ mcu'.txn # None
      BY <1>7, <1>8, <3>1, <3>4
    <3>5. ASSUME pc.phase = "request", pc.next = 2, Len(toPc) + 1 > f
          PROVE  ~EmergencyAll(q) /\ q.cmd # "RETIRE_TXN_RESULT"
      <4>1. q.cmd = pc.op.cmd /\ ~EmergencyAll(q)
        BY <1>3, <3>3, <3>5, FirstCommand
      <4>2. pc.op.cmd \in OpCommands
        BY SameClient, OpFacts
      <4> QED BY <4>1, <4>2, OpFacts
    <3>6. CASE trouble = 1
      <4>1. Busy = 1
        <5>1. \A p \in Nat, y \in 0..1 : p <= 1 + y /\ p >= 2 => y = 1
          OBVIOUS
        <5> QED BY <1>3, <1>11, <1>12, <3>1, <3>6, <5>1
      <4>2. Waiting /\ pc.next >= 2
        BY <1>12, <4>1
      <4>3. pc.next = 2 /\ f = 1
        BY <1>12, <3>3, <3>6, <4>1, <4>2
      <4>4. pc.phase = "request" /\ Len(toPc) + 1 > f
        BY <1>3, <3>1, <4>2, <4>3 DEF Waiting
      <4>5. toPc[1].current /\ mcu.txn # None
        BY <1>16, <2>2, <3>2, <3>6 DEF After, Mistakable
      <4> QED BY <3>4, <3>5, <3>6, <4>3, <4>4, <4>5
    <3>7. CASE trouble = 2
      <4>1. Pending' # 1
        BY <1>3, <1>5, <3>1
      <4>2. ASSUME f = 2, Line'[2].cmd = "GET_TXN_RESULT"
            PROVE  toPc'[1].current /\ mcu'.txn # None
        <5>1. Line[2].cmd = "GET_TXN_RESULT"
          BY <1>3, <1>5, <3>1, <4>2
        <5>2. toPc[1].current /\ mcu.txn # None
          BY <1>16, <2>2, <3>2, <3>7, <4>2, <5>1 DEF After, Mistakable
        <5>3. CASE Len(toPc) = 1
          <6>1. q.cmd = "GET_TXN_RESULT"
            <7>1. Line[Len(toPc) + 1].cmd = toMcu[1].cmd
              BY <1>0, <1>3 DEF LineShape
            <7> QED BY <1>3, <5>1, <5>3, <7>1
          <6>2. "GET_TXN_RESULT" \notin ManagedCommands
            BY OpFacts DEF ManagedCommands
          <6> QED BY <3>4, <5>2, <6>1, <6>2
        <5>4. CASE Len(toPc) # 1
          <6>1. Pending >= 3 /\ Len(toPc) + 1 > f
            <7>1. \A n \in Nat : n >= 1 /\ n # 1 => n >= 2
              OBVIOUS
            <7>2. Len(toPc) >= 2
              BY <1>3, <3>1, <5>4, <7>1
            <7> QED BY <1>3, <4>2, <7>2
          <6>2. Busy = 1 /\ pc.next = 2
            BY <1>3, <1>11, <1>12, <3>3, <3>7, <4>2, <6>1
          <6>3. pc.phase = "request"
            BY <1>12, <6>2 DEF Waiting
          <6> QED BY <3>4, <3>5, <5>2, <6>1, <6>2, <6>3
        <5> QED BY <5>3, <5>4
      <4> QED BY <3>7, <4>1, <4>2
    <3>8. trouble # 1 /\ trouble # 2 => trouble = 0
      BY <1>12, <1>16
    <3> QED BY <3>6, <3>7, <3>8
  <2> QED BY <2>1, <2>2
<1>17. ASSUME pc.phase # "closed"
       PROVE  \E f \in 0..Pending' : After(f)'
  <2>1. PICK f \in 0..Pending : After(f)
    BY <1>17 DEF LineInv
  <2>2. Own(f)' /\ Older(f)' /\ (trouble' <= 2 => Mistakable(f)')
    BY <1>1, <2>1, <1>14, <1>15, <1>16
  <2>3. After(f)' /\ f \in 0..Pending'
    BY <1>5, <2>2 DEF After
  <2> QED BY <2>3
<1>18. pc'.phase = pc.phase
  BY <1>2 DEF SameButCurrent
<1> QED BY <1>10, <1>11, <1>13, <1>17, <1>18 DEF LineInv

(* A new operation of the process. *)
LEMMA LineStart ==
  ASSUME HostTypeOK, HostTypeOK', LineInv, NoWrap, NEW op \in Ops, StartOp(op)
  PROVE  LineInv'
<1>0. LineShape /\ LineShape'
  BY LineFacts, LineFactsNext
<1>1. PICK phase, cmd, arg :
        /\ phase \in {"preStatus", "request"}
        /\ Started(op, phase, cmd, arg) /\ cmd = (IF phase = "request" THEN op.cmd ELSE "GET_SYSTEM_STATUS")
        /\ phase = "request" => arg = op.arg
  BY StartSound
<1>2. pc.phase = "idle" /\ mcu' = mcu /\ toPc' = toPc /\ trouble' = trouble
  BY StartSound
<1>3. NumberInv' /\ pc'.next = pc.next + 1 /\ pc'.id = pc.next /\ Waiting' /\ ~Waiting
  BY <1>2, NumberStarted DEF LineInv, Waiting
<1> DEFINE q == [cmd |-> cmd, id |-> pc.next, arg |-> arg]
<1>4. /\ q \in Frames /\ toMcu' = Append(toMcu, q) /\ q.id = pc.next /\ q.cmd = cmd /\ q.arg = arg
      /\ pc'.phase = phase /\ pc'.op = op
  BY <1>1 DEF Started
<1> HIDE DEF q
<1>5. q.cmd = Awaited(pc') /\ (pc'.phase = "request" => q.arg = pc'.op.arg) /\ ToldInv'
  BY <1>1, <1>4 DEF Awaited, ToldInv
<1>6. /\ toMcu \in Seq(Frames) /\ Len(toMcu) \in Nat /\ Len(toPc) \in Nat /\ Pending \in Nat
      /\ toPc \in Seq(Answers) /\ Pending = Len(toPc) + Len(toMcu)
  BY <1>0 DEF LineShape
<1>7. Len(toMcu') = Len(toMcu) + 1 /\ \A i \in 1..Len(toMcu) : toMcu'[i] = toMcu[i]
  BY <1>4, <1>6, AppendFacts
<1>8. Moved(0) /\ Paid(0)
  <2>1. Len(toPc') = Len(toPc) - 0 /\ \A i \in 1..Len(toPc') : toPc'[i] = toPc[i + 0]
    BY <1>2, <1>6
  <2>2. Len(toMcu') >= Len(toMcu)
    BY <1>6, <1>7
  <2> QED BY <1>2, <1>3, <1>7, <2>1, <2>2 DEF Moved, Paid
<1>9. PICK f \in 0..Pending : After(f)
  BY <1>2 DEF LineInv
<1>10. Before(f, 0, 0) = f /\ f \in Nat /\ 0 \in 0..1
  BY <1>6 DEF Before
<1>11. /\ Pending' <= trouble' + Busy' /\ Pending' = (Pending - 0) + 1 /\ f \in 0..Pending' /\ Own(f)' /\ Older(f)'
  <2>1. Own(f) /\ Older(f)
    BY <1>9 DEF After
  <2>2. /\ Pending' <= trouble' + Busy' /\ Pending' = (Pending - 0) + 1 /\ Before(f, 0, 0) \in 0..Pending'
        /\ Own(Before(f, 0, 0))' /\ Older(Before(f, 0, 0))'
    BY <1>3, <1>4, <1>5, <1>8, <1>10, <2>1, LineSent
  <2> DEFINE b == Before(f, 0, 0)
  <2>3. b = f /\ Own(b)' /\ Older(b)' /\ b \in 0..Pending'
    BY <1>10, <2>2
  <2> HIDE DEF b
  <2>4. Own(f)' /\ Older(f)'
    BY <2>3 DEF Own, Older
  <2> QED BY <2>2, <2>3, <2>4
<1>12. ASSUME trouble <= 2
       PROVE  Mistakable(f)'
  <2>1. Mistakable(f)
    BY <1>9, <1>12 DEF After
  <2>2. f > 0 => Pending' # 1
    BY <1>6, <1>10, <1>11
  <2>3. f = 2 => Line'[2].cmd = Line[2].cmd
    <3> SUFFICES ASSUME f = 2 PROVE Line'[2].cmd = Line[2].cmd
      OBVIOUS
    <3>1. 2 \in 1..Pending - 0 /\ Shift(2, 0, 0) = 2
      BY <1>6 DEF Shift
    <3> QED BY <1>8, <1>10, <3>1, LineMoved
  <2> QED BY <1>2, <1>10, <2>1, <2>2, <2>3 DEF Mistakable
<1>13. After(f)'
  BY <1>2, <1>11, <1>12 DEF After
<1> QED BY <1>3, <1>5, <1>11, <1>13 DEF LineInv

(* A time-out. *)
LEMMA LineTimeOut ==
  ASSUME HostTypeOK, HostTypeOK', LineInv, NoWrap, TimeOut
  PROVE  LineInv'
<1>1. Waiting /\ toPc = <<>> /\ Raised("TimeoutError") /\ toPc' = toPc
  BY TimeOutSound
<1>2. toMcu \in Seq(Frames) /\ Len(toMcu) \in Nat /\ toPc \in Seq(Answers) /\ Pending = Len(toPc) + Len(toMcu)
  BY LineFacts DEF LineShape
<1>3. (trouble' = trouble /\ toMcu = <<>>) \/ trouble' = trouble + 1
  BY DEF TimeOut, Trouble
<1>4. Paid(0)
  <2>1. toMcu = <<>> => Pending = 0
    BY <1>1, <1>2
  <2> QED BY <1>1, <1>3, <2>1 DEF Paid
<1>5. toMcu' = toMcu \/ \E q \in Frames : toMcu' = Append(toMcu, q)
  BY <1>1 DEF Raised, Sent, Finished
<1>6. Len(toMcu') >= Len(toMcu) /\ \A i \in 1..Len(toMcu) : toMcu'[i] = toMcu[i]
  <2>1. CASE toMcu' = toMcu
    BY <1>2, <2>1
  <2>2. CASE \E q \in Frames : toMcu' = Append(toMcu, q)
    <3>1. PICK q \in Frames : toMcu' = Append(toMcu, q)
      BY <2>2
    <3>2. Len(toMcu') = Len(toMcu) + 1 /\ \A i \in 1..Len(toMcu) : toMcu'[i] = toMcu[i]
      BY <1>2, <3>1, AppendFacts
    <3> QED BY <1>2, <3>2
  <2> QED BY <1>5, <2>1, <2>2
<1>7. Moved(0)
  <2>1. Len(toPc') = Len(toPc) - 0 /\ \A i \in 1..Len(toPc') : toPc'[i] = toPc[i + 0]
    BY <1>1, <1>2
  <2> QED BY <1>6, <2>1 DEF Moved
<1> QED BY <1>1, <1>4, <1>7, LineRaised

(* The port is opened: all that is left on the line is older. *)
LEMMA LineOpen ==
  ASSUME HostTypeOK, HostTypeOK', LineInv, OpenClient
  PROVE  LineInv'
<1>0. LineShape /\ LineShape'
  BY LineFacts, LineFactsNext
<1> DEFINE a == (toMcu = <<>>)
<1>1. pc' = [Closed EXCEPT !.phase = "idle", !.alone = a] /\ toPc' = <<>> /\ toMcu' = toMcu /\ trouble' = trouble
  BY DEF OpenClient, Open
<1>2. a \in BOOLEAN /\ pc.phase = "closed"
  BY DEF OpenClient
<1> HIDE DEF a
<1>3. pc'.phase = "idle" /\ pc'.ops = 0 /\ pc'.next = 1
  BY <1>1, <1>2, ClosedFacts DEF Clients
<1>4. ~Waiting' /\ Busy' = 0 /\ ~Waiting /\ Busy = 0 /\ Used' = 5 /\ MaxOps \in Nat /\ ToldInv'
  BY <1>2, <1>3, HostAssumption DEF Waiting, Busy, Used, HostAssumption, ToldInv
<1>5. NumberInv'
  BY <1>3, <1>4 DEF NumberInv
<1>6. /\ Pending' \in Nat /\ Pending' = Len(toMcu) /\ Pending' <= Pending /\ trouble \in Nat
  <2>1. Len(toPc') = 0
    BY <1>1
  <2> QED BY <1>0, <1>1, <2>1 DEF LineShape, HostTypeOK
<1>7. Pending' <= trouble' + Busy'
  BY <1>0, <1>1, <1>4, <1>6 DEF LineInv, LineShape
<1>8. PICK f \in Nat : f = Pending' /\ f <= trouble' /\ f \in 0..Pending'
  BY <1>1, <1>4, <1>6, <1>7
<1>9. Own(f)'
  <2>1. Ordered(Line', Pending', f, pc'.next)
    <3>1. f + 1..f = {} /\ f - f < 1
      OBVIOUS
    <3>2. Ordered(Line', f, f, 1)
      BY <3>1 DEF Ordered
    <3> QED BY <1>3, <1>8, <3>2
  <2> QED BY <1>4, <2>1 DEF Own
<1>10. Older(f)'
  BY <1>1, <1>3, <1>4, <1>6, <1>8 DEF Older
<1>11. Mistakable(f)'
  BY <1>1 DEF Mistakable
<1> QED BY <1>4, <1>5, <1>7, <1>8, <1>9, <1>10, <1>11 DEF LineInv, After

(* The process ends. *)
LEMMA LineClose ==
  ASSUME HostTypeOK, HostTypeOK', LineInv, CloseClient
  PROVE  LineInv'
<1>1. pc' = Closed /\ toMcu' = toMcu /\ toPc' = toPc /\ trouble' = IF Waiting THEN trouble + 1 ELSE trouble
  BY DEF CloseClient, Trouble
<1>2. pc'.phase = "closed" /\ pc'.ops = 0 /\ pc'.next = 1
  BY <1>1, ClosedFacts
<1>3. ~Waiting' /\ Busy' = 0 /\ Used' = 5 /\ MaxOps \in Nat /\ ToldInv'
  BY <1>2, HostAssumption DEF Waiting, Busy, Used, HostAssumption, ToldInv
<1>4. NumberInv'
  BY <1>2, <1>3 DEF NumberInv
<1>5. Pending' = Pending /\ Pending \in Nat /\ Pending <= trouble + Busy /\ trouble \in Nat
  BY <1>1, LineFacts DEF Pending, LineShape, LineInv, HostTypeOK
<1>6. Pending' <= trouble' + Busy'
  BY <1>1, <1>3, <1>5 DEF Busy
<1> QED BY <1>2, <1>3, <1>4, <1>6 DEF LineInv

(* Loss, damage, reset and fault. *)
LEMMA LineDamage ==
  ASSUME HostTypeOK, HostTypeOK', LineInv, DamageRequest \/ DamageAnswer \/ ResetMcu \/ ContainFault
  PROVE  LineInv'
<1>0. LineShape /\ LineShape'
  BY LineFacts, LineFactsNext
<1>1. pc' = pc /\ trouble' = trouble + 1
  BY DEF DamageRequest, DamageAnswer, ResetMcu, ContainFault, Trouble
<1>2. /\ toMcu \in Seq(Frames) /\ toPc \in Seq(Answers) /\ Len(toMcu) \in Nat /\ Len(toPc) \in Nat
      /\ Pending \in Nat /\ Pending = Len(toPc) + Len(toMcu)
      /\ Len(toMcu') \in Nat /\ Len(toPc') \in Nat /\ Pending' = Len(toPc') + Len(toMcu')
  BY <1>0 DEF LineShape
(* It is enough to know what becomes of each direction. *)
<1>3. ASSUME NEW k \in 0..Pending, NEW d \in 0..Pending - k, Pending' = Pending - d,
             \A i \in 1..Len(toPc') :
               /\ Shift(i, k, d) \in 1..Len(toPc) /\ toPc'[i].id = toPc[Shift(i, k, d)].id
               /\ toPc'[i].current = toPc[Shift(i, k, d)].current /\ toPc'[i].code = toPc[Shift(i, k, d)].code
               /\ toPc'[i].cmd \in {toPc[Shift(i, k, d)].cmd, "NOISE"},
             \A i \in 1..Len(toMcu') : \E j \in 1..Len(toMcu) :
               toMcu'[i] = toMcu[j] /\ Len(toPc) + j = Shift(Len(toPc') + i, k, d)
      PROVE  LineInv'
  <2>1. ASSUME NEW i \in 1..Pending'
        PROVE  Line'[i].id = Line[Shift(i, k, d)].id
    <3>1. CASE i <= Len(toPc')
      <4>1. i \in 1..Len(toPc')
        BY <1>2, <3>1
      <4>2. Shift(i, k, d) \in 1..Len(toPc) /\ toPc'[i].id = toPc[Shift(i, k, d)].id
        BY <1>3, <4>1
      <4> QED BY <1>0, <4>1, <4>2 DEF LineShape
    <3>2. CASE ~(i <= Len(toPc'))
      <4> DEFINE m == i - Len(toPc')
      <4>1. m \in 1..Len(toMcu') /\ Len(toPc') + m = i
        BY <1>2, <3>2
      <4> HIDE DEF m
      <4>2. PICK j \in 1..Len(toMcu) : toMcu'[m] = toMcu[j] /\ Len(toPc) + j = Shift(i, k, d)
        BY <1>3, <4>1
      <4>3. Line'[Len(toPc') + m].id = toMcu'[m].id
        BY <1>0, <4>1 DEF LineShape
      <4>4. Line[Len(toPc) + j].id = toMcu[j].id
        BY <1>0 DEF LineShape
      <4> QED BY <4>1, <4>2, <4>3, <4>4
    <3> QED BY <3>1, <3>2
  <2> QED BY <1>1, <1>3, <2>1, LineLost
<1>4. CASE DamageRequest
  <2>1. PICK i \in DOMAIN toMcu : toMcu' = RemoveAt(toMcu, i)
    BY <1>4 DEF DamageRequest
  <2>2. toPc' = toPc /\ i \in 1..Len(toMcu)
    BY <1>2, <1>4, <2>1 DEF DamageRequest
  <2>3. /\ Len(toMcu') = Len(toMcu) - 1
        /\ \A j \in 1..Len(toMcu) - 1 : toMcu'[j] = IF j < i THEN toMcu[j] ELSE toMcu[j + 1]
    BY <1>2, <2>1, <2>2, RemoveFacts
  <2> DEFINE k == Len(toPc) + (i - 1)
  <2>4. k \in 0..Pending /\ 1 \in 0..Pending - k /\ Pending' = Pending - 1
    BY <1>2, <2>2, <2>3, SMTT(30)
  <2>5. \A j \in 1..Len(toPc') : Shift(j, k, 1) = j /\ j \in 1..Len(toPc)
    BY <1>2, <2>2, SMTT(30) DEF Shift
  <2>6. ASSUME NEW j \in 1..Len(toMcu')
        PROVE  \E m \in 1..Len(toMcu) : toMcu'[j] = toMcu[m] /\ Len(toPc) + m = Shift(Len(toPc') + j, k, 1)
    <3>1. j \in 1..Len(toMcu) - 1 /\ j \in 1..Len(toMcu) /\ j + 1 \in 1..Len(toMcu)
      BY <1>2, <2>3
    <3>2. CASE j < i
      <4>1. toMcu'[j] = toMcu[j] /\ Shift(Len(toPc') + j, k, 1) = Len(toPc) + j
        BY <1>2, <2>2, <2>3, <3>1, <3>2, SMTT(30) DEF Shift
      <4> QED BY <3>1, <4>1
    <3>3. CASE ~(j < i)
      <4>1. toMcu'[j] = toMcu[j + 1] /\ Shift(Len(toPc') + j, k, 1) = Len(toPc) + (j + 1)
        BY <1>2, <2>2, <2>3, <3>1, <3>3, SMTT(30) DEF Shift
      <4> QED BY <3>1, <4>1
    <3> QED BY <3>2, <3>3
  <2> HIDE DEF k
  <2>7. \A j \in 1..Len(toPc') :
          /\ Shift(j, k, 1) \in 1..Len(toPc) /\ toPc'[j].id = toPc[Shift(j, k, 1)].id
          /\ toPc'[j].current = toPc[Shift(j, k, 1)].current /\ toPc'[j].code = toPc[Shift(j, k, 1)].code
          /\ toPc'[j].cmd \in {toPc[Shift(j, k, 1)].cmd, "NOISE"}
    BY <2>2, <2>5
  <2> QED BY <1>3, <2>4, <2>6, <2>7
<1>5. CASE DamageAnswer
  <2>1. toMcu' = toMcu
    BY <1>5 DEF DamageAnswer
  <2>2. PICK i \in DOMAIN toPc :
          \/ toPc' = RemoveAt(toPc, i)
          \/ toPc' = [toPc EXCEPT ![i].cmd = "NOISE"]
    BY <1>5 DEF DamageAnswer
  <2>3. i \in 1..Len(toPc)
    BY <1>2, <2>2
  <2>4. CASE toPc' = RemoveAt(toPc, i)
    <3>1. /\ Len(toPc') = Len(toPc) - 1
          /\ \A m \in 1..Len(toPc) - 1 : toPc'[m] = IF m < i THEN toPc[m] ELSE toPc[m + 1]
      BY <1>2, <2>3, <2>4, RemoveFacts
    <3> DEFINE k == i - 1
    <3>2. k \in 0..Pending /\ 1 \in 0..Pending - k /\ Pending' = Pending - 1
      BY <1>2, <2>1, <2>3, <3>1
    <3>3. \A j \in 1..Len(toPc') : Shift(j, k, 1) \in 1..Len(toPc) /\ toPc'[j] = toPc[Shift(j, k, 1)]
      BY <1>2, <2>3, <3>1, SMTT(30) DEF Shift
    <3>4. \A j \in 1..Len(toMcu') : j \in 1..Len(toMcu) /\ Len(toPc) + j = Shift(Len(toPc') + j, k, 1)
      BY <1>2, <2>1, <2>3, <3>1 DEF Shift
    <3> HIDE DEF k
    <3>5. \A j \in 1..Len(toPc') :
            /\ Shift(j, k, 1) \in 1..Len(toPc) /\ toPc'[j].id = toPc[Shift(j, k, 1)].id
            /\ toPc'[j].current = toPc[Shift(j, k, 1)].current /\ toPc'[j].code = toPc[Shift(j, k, 1)].code
            /\ toPc'[j].cmd \in {toPc[Shift(j, k, 1)].cmd, "NOISE"}
      BY <3>3
    <3>6. \A j \in 1..Len(toMcu') : \E m \in 1..Len(toMcu) :
            toMcu'[j] = toMcu[m] /\ Len(toPc) + m = Shift(Len(toPc') + j, k, 1)
      BY <2>1, <3>4
    <3> QED BY <1>3, <3>2, <3>5, <3>6
  <2>5. CASE toPc' = [toPc EXCEPT ![i].cmd = "NOISE"]
    <3> DEFINE x == [toPc[i] EXCEPT !.cmd = "NOISE"]
    <3>1. toPc[i] \in Answers
      BY <1>2, <2>3
    <3>2. /\ x \in Answers /\ x.id = toPc[i].id /\ x.code = toPc[i].code /\ x.current = toPc[i].current
          /\ x.cmd = "NOISE"
      BY <3>1 DEF Answers
    <3>3. toPc' = [toPc EXCEPT ![i] = x]
      BY <2>5
    <3> HIDE DEF x
    <3>4. Len(toPc') = Len(toPc) /\ \A m \in 1..Len(toPc) : toPc'[m] = IF m = i THEN x ELSE toPc[m]
      BY <1>2, <2>3, <3>2, <3>3
    <3>5. 0 \in 0..Pending /\ 0 \in 0..Pending - 0 /\ Pending' = Pending - 0
      BY <1>2, <2>1, <3>4
    <3>6. \A j \in Nat : Shift(j, 0, 0) = j
      BY DEF Shift
    <3>7. \A j \in 1..Len(toPc') :
            /\ Shift(j, 0, 0) \in 1..Len(toPc) /\ toPc'[j].id = toPc[Shift(j, 0, 0)].id
            /\ toPc'[j].current = toPc[Shift(j, 0, 0)].current /\ toPc'[j].code = toPc[Shift(j, 0, 0)].code
            /\ toPc'[j].cmd \in {toPc[Shift(j, 0, 0)].cmd, "NOISE"}
      BY <2>3, <3>2, <3>4, <3>6
    <3>8. \A j \in 1..Len(toMcu') : \E m \in 1..Len(toMcu) :
            toMcu'[j] = toMcu[m] /\ Len(toPc) + m = Shift(Len(toPc') + j, 0, 0)
      BY <1>2, <2>1, <3>4, <3>6
    <3> QED BY <1>3, <3>5, <3>7, <3>8
  <2> QED BY <2>2, <2>4, <2>5
<1>6. CASE ResetMcu
  <2>1. PICK n \in 0..Len(toMcu) : toMcu' = SubSeq(toMcu, n + 1, Len(toMcu))
    BY <1>6 DEF ResetMcu
  <2>2. toPc' = toPc
    BY <1>6 DEF ResetMcu
  <2>3. Len(toMcu') = Len(toMcu) - n /\ \A j \in 1..Len(toMcu) - n : toMcu'[j] = toMcu[n + j]
    BY <1>2, <2>1
  <2> DEFINE k == Len(toPc)
  <2>4. k \in 0..Pending /\ n \in 0..Pending - k /\ Pending' = Pending - n
    BY <1>2, <2>2, <2>3
  <2>5. \A j \in 1..Len(toPc') : Shift(j, k, n) = j /\ j \in 1..Len(toPc)
    BY <1>2, <2>2 DEF Shift
  <2>6. \A j \in 1..Len(toMcu') :
          n + j \in 1..Len(toMcu) /\ toMcu'[j] = toMcu[n + j] /\ Len(toPc) + (n + j) = Shift(Len(toPc') + j, k, n)
    BY <1>2, <2>2, <2>3 DEF Shift
  <2> HIDE DEF k
  <2>7. \A j \in 1..Len(toPc') :
          /\ Shift(j, k, n) \in 1..Len(toPc) /\ toPc'[j].id = toPc[Shift(j, k, n)].id
          /\ toPc'[j].current = toPc[Shift(j, k, n)].current /\ toPc'[j].code = toPc[Shift(j, k, n)].code
          /\ toPc'[j].cmd \in {toPc[Shift(j, k, n)].cmd, "NOISE"}
    BY <2>2, <2>5
  <2>8. \A j \in 1..Len(toMcu') : \E m \in 1..Len(toMcu) :
          toMcu'[j] = toMcu[m] /\ Len(toPc) + m = Shift(Len(toPc') + j, k, n)
    BY <2>6
  <2> QED BY <1>3, <2>4, <2>7, <2>8
<1>7. CASE ContainFault
  <2>1. toMcu' = toMcu /\ toPc' = toPc
    BY <1>7 DEF ContainFault
  <2>2. 0 \in 0..Pending /\ 0 \in 0..Pending - 0 /\ Pending' = Pending - 0
    BY <1>2, <2>1
  <2>3. \A j \in Nat : Shift(j, 0, 0) = j
    BY DEF Shift
  <2>4. \A j \in 1..Len(toPc') :
          /\ Shift(j, 0, 0) \in 1..Len(toPc) /\ toPc'[j].id = toPc[Shift(j, 0, 0)].id
          /\ toPc'[j].current = toPc[Shift(j, 0, 0)].current /\ toPc'[j].code = toPc[Shift(j, 0, 0)].code
          /\ toPc'[j].cmd \in {toPc[Shift(j, 0, 0)].cmd, "NOISE"}
    BY <2>1, <2>3
  <2>5. \A j \in 1..Len(toMcu') : \E m \in 1..Len(toMcu) :
          toMcu'[j] = toMcu[m] /\ Len(toPc) + m = Shift(Len(toPc') + j, 0, 0)
    BY <1>2, <2>1, <2>3
  <2> QED BY <1>3, <2>2, <2>4, <2>5
<1> QED BY <1>4, <1>5, <1>6, <1>7

(* Nothing on the line, in the process or in the retained result changes. *)
LEMMA LineSame ==
  ASSUME LineInv, UNCHANGED <<toMcu, toPc, pc, trouble>>, mcu'.txn = mcu.txn
  PROVE  LineInv'
<1>1. Pending' = Pending /\ Line' = Line /\ Waiting' = Waiting /\ Busy' = Busy /\ Used' = Used
  BY DEF Pending, Line, Item, Waiting, Busy, Used
<1>2. NumberInv' /\ ToldInv'
  BY <1>1 DEF LineInv, NumberInv, ToldInv, Clean, Shielded, Harmless, Doomed, Correlated
<1>3. ASSUME NEW f, After(f) PROVE After(f)'
  BY <1>1, <1>3 DEF After, Own, Older, Mistakable
<1> QED BY <1>1, <1>2, <1>3 DEF LineInv

(* The invariant of the line. *)
LEMMA LineNext ==
  ASSUME HostTypeOK, HostTypeOK', LineInv, NoWrap, Next
  PROVE  LineInv'
<1>1. CASE StartupDone \/ PeriodicProbe
  <2>1. UNCHANGED <<toMcu, toPc, pc, trouble>>
    BY <1>1 DEF StartupDone, PeriodicProbe
  <2>2. mcu'.txn = mcu.txn
    BY <1>1 DEF StartupDone, PeriodicProbe, HostTypeOK, Firmwares
  <2> QED BY <2>1, <2>2, LineSame
<1>2. CASE HandleRequest \/ Receive \/ \E op \in Ops : StartOp(op)
  BY <1>2, LineHandle, LineReceive, LineStart
<1>3. CASE OpenClient \/ CloseClient \/ TimeOut
  BY <1>3, LineOpen, LineClose, LineTimeOut
<1>4. CASE DamageRequest \/ DamageAnswer \/ ResetMcu \/ ContainFault
  BY <1>4, LineDamage
<1> QED BY <1>1, <1>2, <1>3, <1>4 DEF Next

(* What a process finds on the line comes before its own requests, and each *)
(* item of it has cost a trouble.                                           *)
LEMMA LineInvariant ==
  ASSUME NoWrap
  PROVE  HostSpec => [](HostTypeOK /\ LineInv)
<1>1. Init => LineInv
  <2> SUFFICES ASSUME Init PROVE LineInv
    OBVIOUS
  <2>1. toMcu = <<>> /\ toPc = <<>> /\ pc.phase = "closed" /\ pc.ops = 0 /\ pc.next = 1 /\ trouble = 0
    BY ClosedFacts DEF Init
  <2>2. Pending = 0 /\ ~Waiting /\ Busy = 0 /\ Used = 5 /\ MaxOps \in Nat
    BY <2>1, HostAssumption DEF Pending, Waiting, Busy, Used, HostAssumption
  <2>3. NumberInv /\ ToldInv
    BY <2>1, <2>2 DEF NumberInv, ToldInv
  <2> QED BY <2>1, <2>2, <2>3 DEF LineInv
<1>2. HostTypeOK /\ HostTypeOK' /\ LineInv /\ [Next]_vars => LineInv'
  <2> SUFFICES ASSUME HostTypeOK, HostTypeOK', LineInv, [Next]_vars PROVE LineInv'
    OBVIOUS
  <2>1. CASE UNCHANGED vars
    BY <2>1, LineSame DEF vars
  <2> QED BY <2>1, LineNext
<1> QED BY <1>1, <1>2, HostTypeTheorem, PTL DEF HostSpec

(* The success a process is told of is that of the last command the         *)
(* firmware executed, until it has retired the result: for a process that   *)
(* found no request on the line whatever is lost, for one that follows a    *)
(* killed process as long as two troubles are all.                          *)
THEOREM CurrentTheorem ==
  ASSUME NoWrap
  PROVE  HostSpec => []ResultCurrent
<1>1. AloneInv /\ LineInv => ResultCurrent
  BY DEF AloneInv, LineInv, ToldInv, Clean, Harmless, ResultCurrent
<1> QED BY <1>1, AloneInvariant, LineInvariant, PTL
=============================================================================
