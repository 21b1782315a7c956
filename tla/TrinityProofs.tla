---------------------------- MODULE TrinityProofs ----------------------------
(* Theorems about the controller with both Primers.                         *)
EXTENDS TrinityPrimers

Fields == {"op", "pc", "target", "sub", "txid", "result", "arg", "rc", "cache", "late",
           "session", "sequence", "state", "ready", "commit", "contained"}

(* The labels of each command's program. *)
Establishing == {"tiny", "stage", "staged", "commit", "blocked", "high", "failAbort", "abort"}
Released == {"active", "failZeroize"}
Clearing == {"zero", "zeroState", "zeroCode"}
Closing == {"close", "closed"}
Sending == {"rx", "load", "encrypt", "arrive", "read", "ack"}

Program(op, pc) ==
  \/ op = "NONE" /\ pc = "idle"
  \/ op = "ACTIVATE" /\ pc \in Establishing \cup Released \cup Clearing \cup {"return"}
  \/ op = "ZEROIZE" /\ pc \in Clearing \cup {"return"}
  \/ op = "CLOSE" /\ pc \in Closing \cup {"return"}
  \/ op = "SELF_TEST" /\ pc \in {"test", "refresh", "return"}
  \/ op = "REFRESH" /\ pc \in {"refresh", "return"}
  \/ op = "PROBE" /\ pc \in {"info", "probe", "return"}
  \/ op = "SEND" /\ pc \in Sending \cup {"return"}

(* The command, its argument, the session and the commit line. *)
Keep(c, d) == /\ DOMAIN c = Fields => DOMAIN d = Fields
              /\ d.op = c.op /\ d.arg = c.arg /\ d.session = c.session
              /\ d.sequence = c.sequence /\ d.commit = c.commit
              /\ d.contained = c.contained

(* The place in the program. *)
Same(c, d) == /\ Keep(c, d) /\ d.pc = c.pc /\ d.target = c.target
              /\ d.sub = c.sub /\ d.rc = c.rc /\ d.cache = c.cache /\ d.late = c.late
              /\ d.txid = c.txid /\ d.result = c.result

At(d, label, t) == d.pc = label /\ d.target = t /\ d.sub = "request" /\ d.late = FALSE

-----------------------------------------------------------------------------
(* The helpers that move the controller. *)

(* Goto changes the place only. *)
LEMMA GotoFields ==
  ASSUME NEW c, DOMAIN c = Fields, NEW label, NEW t
  PROVE  LET d == Goto(c, label, t) IN
         DOMAIN d = Fields /\ Keep(c, d) /\ At(d, label, t) /\ d.rc = c.rc
  BY DEF Goto, Keep, At, Fields

(* The exits set the return code as well. *)
LEMMA ExitFields ==
  ASSUME NEW c, DOMAIN c = Fields, NEW rc
  PROVE  /\ LET d == Return(c, rc) IN
            DOMAIN d = Fields /\ Keep(c, d) /\ At(d, "return", 1) /\ d.rc = rc
         /\ LET d == FailAbort(c, rc) IN
            DOMAIN d = Fields /\ Keep(c, d) /\ At(d, "failAbort", 1) /\ d.rc = rc
         /\ LET d == FailZeroize(c, rc) IN
            DOMAIN d = Fields /\ Keep(c, d) /\ At(d, "failZeroize", 1) /\ d.rc = rc
  BY DEF Return, FailAbort, FailZeroize, Goto, Keep, At, Fields

(* Latching an error changes the system state only. *)
LEMMA LatchFields ==
  ASSUME NEW c, DOMAIN c = Fields, NEW rc
  PROVE  /\ DOMAIN LatchError(c, rc) = Fields /\ Same(c, LatchError(c, rc))
         /\ DOMAIN Latched(c, rc) = Fields /\ Same(c, Latched(c, rc))
  <1>1. DOMAIN LatchError(c, rc) = Fields /\ Same(c, LatchError(c, rc))
    BY DEF LatchError, Same, Keep, Fields
  <1>2. Same(c, c)
    BY DEF Same, Keep
  <1> QED BY <1>1, <1>2 DEF Latched

(* The first error that is not tolerated stays. *)
LEMMA NoteFields ==
  ASSUME NEW c, DOMAIN c = Fields, NEW rc, NEW tolerated
  PROVE  LET d == Note(c, rc, tolerated) IN
         /\ DOMAIN d = Fields /\ Keep(c, d) /\ d.pc = c.pc /\ d.target = c.target
         /\ d.rc = IF c.rc = "OK" /\ rc \notin tolerated THEN rc ELSE c.rc
  BY DEF Note, Keep, Fields

-----------------------------------------------------------------------------
(* Exchanges. *)

(* An exchange that returns rc. *)
Outcome(t, q, rc) ==
  /\ Quiet
  /\ UNCHANGED enable
  /\ \/ fatal /\ rc = "FAULT_LOCKED" /\ Untouched /\ UNCHANGED trouble
     \/ ~fatal /\ ctl.contained /\ rc = "BAD_STATE" /\ Untouched /\ UNCHANGED trouble
     \/ /\ ~fatal /\ ~ctl.contained
        /\ \/ Deliver(t, q) /\ rc = reply' /\ UNCHANGED trouble
           \/ Deliver(t, q) /\ rc = "FRAME_TIMEOUT" /\ Suffer
           \/ Untouched /\ rc = "FRAME_TIMEOUT" /\ Suffer
           \/ /\ t = 2 /\ p2.core = "ZEROIZE"
              /\ Untouched /\ rc = "FRAME_TIMEOUT" /\ UNCHANGED trouble

Answering(t, cmd, arg) ==
  \/ t = 1 /\ P1Answered(cmd, arg) /\ UNCHANGED p2vars
  \/ t = 2 /\ P2Answered(cmd, arg) /\ UNCHANGED p1vars /\ ~TestFails(p2, p2')

(* What the controller may conclude from the code: an answer, an answer or  *)
(* a request that was lost, or a bus that is closed.                        *)
Served(t, cmd, arg, rc) ==
  /\ Quiet /\ UNCHANGED <<enable, nets, air>> /\ Sound1' /\ Sound2(p2')
  /\ \/ /\ Answering(t, cmd, arg) /\ ~fatal /\ ~ctl.contained
        /\ \/ rc = reply' /\ UNCHANGED trouble
           \/ rc = "FRAME_TIMEOUT" /\ trouble' = trouble + 1
     \/ /\ UNCHANGED <<p1vars, p2vars>>
        /\ \/ rc = "FRAME_TIMEOUT" /\ trouble' = trouble + 1
           \/ rc = "FAULT_LOCKED" /\ fatal /\ UNCHANGED trouble
           \/ rc = "BAD_STATE" /\ ctl.contained /\ UNCHANGED trouble
           \/ rc = "FRAME_TIMEOUT" /\ t = 2 /\ p2.core = "ZEROIZE" /\ UNCHANGED trouble

(* The number of a request is not the one its Primer retains. *)
LEMMA FreshNumber ==
  ASSUME NEW t
  PROVE  Record(t) = None \/ Record(t).txid # FreshTxid(t)
  <1>1. \E x \in Txids : Record(t) = None \/ Record(t).txid # x
    BY SystemAssumption DEF SystemAssumption
  <1> QED BY <1>1 DEF FreshTxid

(* Every exchange serves its request or leaves both Primers alone. *)
LEMMA ExchangeServes ==
  ASSUME Sound1, Sound2(p2), NEW t \in Targets, NEW cmd, NEW arg, NEW rc,
         Outcome(t, Message(t, cmd, arg), rc)
  PROVE  Served(t, cmd, arg, rc)
  <1> DEFINE q == Message(t, cmd, arg)
  <1>1. q.cmd = cmd /\ q.arg = arg /\ q.txid = FreshTxid(t)
    BY DEF Message
  <1> HIDE DEF q
  <1>2. ASSUME Deliver(t, q)
        PROVE  /\ Answering(t, cmd, arg) /\ UNCHANGED <<nets, air>>
               /\ Sound1' /\ Sound2(p2')
    <2>1. CASE t = 1 /\ P1Request(q) /\ P1Record /\ UNCHANGED p2vars
      <3>1. P1Answered(cmd, arg)
        BY <1>1, <2>1, P1RequestMoves
      <3> QED BY <2>1, <3>1 DEF Answering, P1Answered, P1Moved, p2vars
    <2>2. CASE t = 2 /\ P2Request(None, q) /\ UNCHANGED p1vars /\ ~TestFails(p2, p2')
      <3>1. p2.ret = None \/ p2.ret.txid # q.txid
        BY <1>1, <2>2, FreshNumber DEF Record
      <3>2. P2Answered(cmd, arg)
        BY <1>1, <2>2, <3>1, P2RequestMoves
      <3>3. Sound1'
        BY <2>2 DEF Sound1, Banked, p1vars
      <3> QED BY <2>2, <3>2, <3>3 DEF Answering, P2Answered, P2Moved, p1vars
    <2> QED BY <1>2, <2>1, <2>2 DEF Deliver
  <1>3. ASSUME Untouched
        PROVE  UNCHANGED <<p1vars, p2vars, nets, air>> /\ Sound1' /\ Sound2(p2')
    BY <1>3 DEF Untouched, Sound1, Banked, p1vars, p2vars
  <1> QED BY <1>2, <1>3 DEF Outcome, Served, Suffer, q

-----------------------------------------------------------------------------
(* The routes: where each step of the controller leads. *)

Sound == Sound1 /\ Sound2(p2) /\ DOMAIN ctl = Fields /\ ctl.target \in Targets

(* STAGE_SESSION of one Primer after the other. *)
StageRoute ==
  \E rc : /\ ctl.pc = "stage" /\ Served(ctl.target, "STAGE_SESSION", ctl.arg, rc)
          /\ Keep(ctl, ctl')
          /\ rc # "OK" => At(ctl', "failAbort", 1)
          /\ rc = "OK" /\ ctl.target = 1 => At(ctl', "stage", 2)
          /\ rc = "OK" /\ ctl.target = 2 => At(ctl', "staged", 1)

(* The staging of an activation. *)
LEMMA StageLeads ==
  ASSUME Sound, Stage
  PROVE  StageRoute
  <1>1. PICK rc : /\ Outcome(ctl.target, Message(ctl.target, "STAGE_SESSION", ctl.arg), rc)
                  /\ ctl' = LET c == Latched(ctl, rc) IN
                            CASE rc # "OK" -> FailAbort(c, rc)
                              [] rc = "OK" /\ c.target = 1 -> Goto(c, "stage", 2)
                              [] OTHER -> Goto(c, "staged", 1)
    BY DEF Stage, Exchange, Outcome
  <1>2. Served(ctl.target, "STAGE_SESSION", ctl.arg, rc)
    BY <1>1, ExchangeServes DEF Sound
  <1> DEFINE c == Latched(ctl, rc)
  <1>3. DOMAIN c = Fields /\ Same(ctl, c)
    BY LatchFields DEF Sound
  <1> HIDE DEF c
  <1>4. /\ rc # "OK" => ctl' = FailAbort(c, rc)
        /\ rc = "OK" /\ ctl.target = 1 => ctl' = Goto(c, "stage", 2)
        /\ rc = "OK" /\ ctl.target = 2 => ctl' = Goto(c, "staged", 1)
    BY <1>1, <1>3 DEF c, Same
  <1>5. /\ Keep(ctl, ctl') /\ (rc # "OK" => At(ctl', "failAbort", 1))
        /\ rc = "OK" /\ ctl.target = 1 => At(ctl', "stage", 2)
        /\ rc = "OK" /\ ctl.target = 2 => At(ctl', "staged", 1)
    BY <1>3, <1>4, GotoFields, ExitFields DEF Same, Keep, Sound, Targets
  <1> QED BY <1>2, <1>5 DEF StageRoute, Stage

(* Where a retained operation that ends with a code leads. *)
EndsAt(c, d, code) ==
  /\ Keep(c, d)
  /\ c.pc = "commit" =>
       /\ code # "OK" => At(d, "failAbort", 1) /\ d.rc = code
       /\ code = "OK" /\ c.target = 1 => At(d, "commit", 2)
       /\ code = "OK" /\ c.target = 2 => At(d, "blocked", 1)
  /\ c.pc = "test" =>
       \/ At(d, "return", 1) /\ d.rc # "OK"
       \/ At(d, "test", 2)
       \/ At(d, "refresh", 1)
  /\ c.pc = "zero" =>
       /\ c.target = 1 => At(d, "zero", 2)
       /\ c.target = 2 => At(d, "zeroState", 1)
       /\ d.rc = IF c.rc = "OK" /\ code \notin {"OK", "FAULT_LOCKED"} THEN code ELSE c.rc
  /\ c.pc = "encrypt" => \/ At(d, "return", 1) /\ d.rc # "OK"
                         \/ At(d, "arrive", 2)

(* The four endings of controller_execute_retained. *)
LEMMA EndedFields ==
  ASSUME NEW c, DOMAIN c = Fields, c.target \in Targets, c.pc \in RetainedLabels,
         NEW code, NEW data
  PROVE  EndsAt(c, Ended(c, code, data), code)
  <1>1. CASE c.pc = "commit"
    <2>1. Ended(c, code, data) = Committed(c, code)
      BY <1>1 DEF Ended
    <2>2. /\ code # "OK" => Committed(c, code) = FailAbort(c, code)
          /\ code = "OK" /\ c.target = 1 => Committed(c, code) = Goto(c, "commit", 2)
          /\ code = "OK" /\ c.target = 2 => Committed(c, code) = Goto(c, "blocked", 1)
      BY DEF Committed
    <2> QED BY <1>1, <2>1, <2>2, GotoFields, ExitFields DEF EndsAt, Targets
  <1>2. CASE c.pc = "test"
    <2>1. Ended(c, code, data) = Tested(c, code)
      BY <1>2 DEF Ended
    <2>2. \/ code # "OK" /\ Tested(c, code) = Return(c, code)
          \/ Tested(c, code) = Goto(c, "test", 2)
          \/ Tested(c, code) = Goto(c, "refresh", 1)
      BY DEF Tested
    <2> QED BY <1>2, <2>1, <2>2, GotoFields, ExitFields DEF EndsAt
  <1>3. CASE c.pc = "zero"
    <2> DEFINE n == Note(c, code, {"OK", "FAULT_LOCKED"})
    <2>1. /\ DOMAIN n = Fields /\ Keep(c, n)
          /\ n.rc = IF c.rc = "OK" /\ code \notin {"OK", "FAULT_LOCKED"} THEN code ELSE c.rc
      BY NoteFields
    <2>2. /\ c.target = 1 => Ended(c, code, data) = Goto(n, "zero", 2)
          /\ c.target = 2 => Ended(c, code, data) = Goto(n, "zeroState", 1)
      BY <1>3 DEF Ended, Zeroized
    <2> HIDE DEF n
    <2> QED BY <1>3, <2>1, <2>2, GotoFields DEF EndsAt, Keep, Targets
  <1>4. CASE c.pc = "encrypt"
    <2>1. Ended(c, code, data) = Sent(c, code, data)
      BY <1>4 DEF Ended
    <2>2. \/ code # "OK" /\ Sent(c, code, data) = Return(c, code)
          \/ Sent(c, code, data) = Return(c, "TRANSACTION_CONFLICT")
          \/ Sent(c, code, data) = Goto(c, "arrive", 2)
      BY DEF Sent
    <2> QED BY <1>4, <2>1, <2>2, GotoFields, ExitFields DEF EndsAt
  <1> QED BY <1>1, <1>2, <1>3, <1>4 DEF RetainedLabels

(* ... also after the error was latched. *)
LEMMA EndedLatched ==
  ASSUME NEW c, DOMAIN c = Fields, c.target \in Targets, c.pc \in RetainedLabels,
         NEW rc, NEW code, NEW data
  PROVE  EndsAt(c, Ended(Latched(c, rc), code, data), code)
  <1> DEFINE l == Latched(c, rc)
  <1>1. DOMAIN l = Fields /\ Same(c, l)
    BY LatchFields
  <1> HIDE DEF l
  <1>2. EndsAt(l, Ended(l, code, data), code)
    BY <1>1, EndedFields DEF Same
  <1> DEFINE d == Ended(l, code, data)
  <1>3. EndsAt(c, d, code)
    <2> HIDE DEF d
    <2> QED BY <1>1, <1>2 DEF EndsAt, Same, Keep, d
  <1> QED BY <1>3 DEF l

(* A retained operation goes on. *)
Stays(c, d) == /\ Keep(c, d) /\ d.pc = c.pc /\ d.target = c.target /\ d.rc = c.rc
               /\ d.sub # "request"

(* The argument of the request that starts it. *)
Operand(c) == IF c.pc = "commit" THEN c.arg.id ELSE None

(* One exchange of a retained operation: its request, a query or the        *)
(* retirement of its result.                                                *)
ExecuteRoute ==
  \E cmd, arg, rc, code :
    /\ ctl.pc \in RetainedLabels /\ Served(ctl.target, cmd, arg, rc)
    /\ \/ ctl.sub = "request" /\ cmd = Command[ctl.pc] /\ arg = Operand(ctl)
       \/ ctl.sub # "request" /\ cmd \in {"GET_TXN_RESULT", "RETIRE_TXN_RESULT"}
    /\ \/ Stays(ctl, ctl') /\ (ctl.sub = "request" => rc = "OK")
       \/ /\ EndsAt(ctl, ctl', code)
          /\ ctl.sub = "request" => code = rc /\ rc # "OK"

(* The request. *)
LEMMA RequestRoute ==
  ASSUME Sound, ExecuteRequest
  PROVE  ExecuteRoute
  <1> DEFINE cmd == Command[ctl.pc]
             arg == Operand(ctl)
  <1>1. ctl.pc \in RetainedLabels /\ ctl.sub = "request"
    BY DEF ExecuteRequest
  <1>2. PICK rc : /\ Outcome(ctl.target, Message(ctl.target, cmd, arg), rc)
                  /\ ctl' = IF rc = "OK"
                            THEN [ctl EXCEPT !.sub = "poll",
                                             !.txid = Message(ctl.target, cmd, arg).txid]
                            ELSE Ended(Latched(ctl, rc), rc, None)
    BY DEF ExecuteRequest, Exchange, Outcome, Operand
  <1> HIDE DEF cmd, arg
  <1>3. Served(ctl.target, cmd, arg, rc)
    BY <1>2, ExchangeServes DEF Sound
  <1>4. CASE rc = "OK"
    <2> DEFINE x == Message(ctl.target, cmd, arg).txid
    <2> HIDE DEF x
    <2>1. ctl' = [ctl EXCEPT !.sub = "poll", !.txid = x]
      BY <1>2, <1>4 DEF x
    <2>2. Stays(ctl, ctl')
      BY <2>1 DEF Stays, Keep, Sound, Fields
    <2> QED BY <1>1, <1>3, <1>4, <2>2 DEF ExecuteRoute, cmd, arg
  <1>5. CASE rc # "OK"
    <2>1. EndsAt(ctl, ctl', rc)
      BY <1>1, <1>2, <1>5, EndedLatched DEF Sound
    <2> QED BY <1>1, <1>3, <1>5, <2>1 DEF ExecuteRoute, cmd, arg
  <1> QED BY <1>4, <1>5

(* The poll of its result. *)
LEMMA PollRoute ==
  ASSUME Sound, ExecutePoll
  PROVE  ExecuteRoute
  <1> DEFINE record == Record(ctl.target)
  <1>1. ctl.pc \in RetainedLabels /\ ctl.sub = "poll"
    BY DEF ExecutePoll
  <1>2. PICK rc :
          /\ Outcome(ctl.target, Message(ctl.target, "GET_TXN_RESULT", ctl.txid), rc)
          /\ ctl' = CASE rc = "OK" /\ Terminal(record) -> Retire(ctl, record)
                      [] \/ rc = "OK" /\ ~Terminal(record)
                         \/ rc \in {"RESULT_NOT_READY", "BUSY"} ->
                           IF ctl.late THEN [ctl EXCEPT !.sub = "final"] ELSE ctl
                      [] OTHER -> Ended(Latched(ctl, rc), rc, None)
    BY DEF ExecutePoll, Exchange, Outcome, ResultQuery
  <1> HIDE DEF record
  <1>3. Served(ctl.target, "GET_TXN_RESULT", ctl.txid, rc)
    BY <1>2, ExchangeServes DEF Sound
  <1>4. \/ ctl' = [ctl EXCEPT !.sub = "retire", !.result = record]
        \/ ctl' = [ctl EXCEPT !.sub = "final"]
        \/ ctl' = ctl
        \/ ctl' = Ended(Latched(ctl, rc), rc, None)
    BY <1>2 DEF Retire
  <1>5. Stays(ctl, ctl') \/ EndsAt(ctl, ctl', rc)
    <2>1. CASE ctl' = Ended(Latched(ctl, rc), rc, None)
      BY <1>1, <2>1, EndedLatched DEF Sound
    <2> QED BY <1>1, <1>4, <2>1, ZenonT(60) DEF Stays, Keep, Sound, Fields
  <1> QED BY <1>1, <1>3, <1>5 DEF ExecuteRoute

(* The last query after the deadline. *)
LEMMA FinalRoute ==
  ASSUME Sound, ExecuteFinal
  PROVE  ExecuteRoute
  <1> DEFINE record == Record(ctl.target)
  <1>1. ctl.pc \in RetainedLabels /\ ctl.sub = "final"
    BY DEF ExecuteFinal
  <1>2. PICK rc :
          /\ Outcome(ctl.target, Message(ctl.target, "GET_TXN_RESULT", ctl.txid), rc)
          /\ ctl' = IF rc = "OK" /\ Terminal(record) THEN Retire(ctl, record)
                    ELSE Ended(Latched(ctl, rc), "OUTCOME_UNKNOWN", None)
    BY DEF ExecuteFinal, Exchange, Outcome, ResultQuery
  <1> HIDE DEF record
  <1>3. Served(ctl.target, "GET_TXN_RESULT", ctl.txid, rc)
    BY <1>2, ExchangeServes DEF Sound
  <1>4. \/ ctl' = [ctl EXCEPT !.sub = "retire", !.result = record]
        \/ ctl' = Ended(Latched(ctl, rc), "OUTCOME_UNKNOWN", None)
    BY <1>2 DEF Retire
  <1>5. Stays(ctl, ctl') \/ EndsAt(ctl, ctl', "OUTCOME_UNKNOWN")
    <2>1. CASE ctl' = Ended(Latched(ctl, rc), "OUTCOME_UNKNOWN", None)
      BY <1>1, <2>1, EndedLatched DEF Sound
    <2> QED BY <1>1, <1>4, <2>1 DEF Stays, Keep, Sound, Fields
  <1> QED BY <1>1, <1>3, <1>5 DEF ExecuteRoute

(* The retirement. *)
LEMMA RetireRoute ==
  ASSUME Sound, ExecuteRetire
  PROVE  ExecuteRoute
  <1> DEFINE code == IF ctl.result.state = "FAILED" THEN "SELF_TEST_FAILED" ELSE "OK"
             data == ctl.result.data
  <1>1. ctl.pc \in RetainedLabels /\ ctl.sub = "retire"
    BY DEF ExecuteRetire
  <1>2. PICK rc :
          /\ Outcome(ctl.target, Message(ctl.target, "RETIRE_TXN_RESULT", ctl.txid), rc)
          /\ ctl' = IF rc = "OK" THEN Ended(ctl, code, data)
                    ELSE Ended(Latched(ctl, rc), rc, None)
    BY DEF ExecuteRetire, Exchange, Outcome
  <1> HIDE DEF code, data
  <1>3. Served(ctl.target, "RETIRE_TXN_RESULT", ctl.txid, rc)
    BY <1>2, ExchangeServes DEF Sound
  <1>4. EndsAt(ctl, ctl', code) \/ EndsAt(ctl, ctl', rc)
    BY <1>1, <1>2, EndedFields, EndedLatched DEF Sound
  <1> QED BY <1>1, <1>3, <1>4 DEF ExecuteRoute

Awaited == {"staged", "blocked", "active"}

(* The failure exits of the loops that read the status. *)
FailsAt(c, d) ==
  /\ Keep(c, d) /\ d.rc # "OK"
  /\ c.pc \in {"staged", "blocked"} => At(d, "failAbort", 1)
  /\ c.pc = "active" => At(d, "failZeroize", 1)
  /\ c.pc \in {"refresh", "probe"} => At(d, "return", 1)

(* The controller takes over the session it has established. *)
Installs(c, d) ==
  /\ DOMAIN c = Fields => DOMAIN d = Fields
  /\ d.op = c.op /\ d.arg = c.arg /\ d.commit = c.commit /\ d.contained = c.contained
  /\ d.session = c.arg /\ d.sequence = 0 /\ At(d, "return", 1) /\ d.rc = "OK"

(* The status of Primer #1 was read. *)
Halfway(c, d, s) ==
  /\ Keep(c, d) /\ d.target = 2 /\ d.sub = c.sub /\ d.rc = c.rc /\ d.cache = s
  /\ d.pc = IF c.pc = "probe" THEN "info" ELSE c.pc

(* Both were read, the second one as s. *)
Concludes(c, d, s) ==
  \/ c.pc \in {"refresh", "probe"} /\ Keep(c, d) /\ At(d, "return", 1)
  \/ FailsAt(c, d)
  \/ c.pc \in Awaited /\ Keep(c, d) /\ At(d, c.pc, 1) /\ d.rc = c.rc
  \/ /\ c.pc \in Awaited /\ c.cache.session = Expected[c.pc] /\ s.session = Expected[c.pc]
     /\ \/ c.pc = "staged" /\ Keep(c, d) /\ At(d, "commit", 1) /\ d.rc = c.rc
        \/ c.pc = "blocked" /\ Keep(c, d) /\ At(d, "high", 1) /\ d.rc = c.rc
        \/ c.pc = "active" /\ Installs(c, d)

StatusRoute ==
  \E rc :
    /\ ctl.pc \in Awaited \cup {"refresh", "probe"}
    /\ Served(ctl.target, "GET_STATUS", None, rc)
    /\ \/ FailsAt(ctl, ctl')
       \/ ctl.target = 1 /\ Halfway(ctl, ctl', Status(1))
       \/ ctl.target = 2 /\ Concludes(ctl, ctl', Status(2))

(* StatusFailed *)
LEMMA StatusFailedFields ==
  ASSUME NEW c, DOMAIN c = Fields, c.pc \in Awaited \cup {"refresh", "probe"},
         NEW rc, rc # "OK"
  PROVE  FailsAt(c, StatusFailed(c, rc))
  <1> DEFINE r == [c EXCEPT !.ready = IF c.target = 1 THEN @ \ {2} ELSE @]
  <1>1. DOMAIN r = Fields /\ Same(c, r)
    BY DEF Same, Keep, Fields
  <1> HIDE DEF r
  <1>2. /\ c.pc \in {"staged", "blocked"} => StatusFailed(c, rc) = FailAbort(c, rc)
        /\ c.pc = "active" => StatusFailed(c, rc) = FailZeroize(c, rc)
        /\ c.pc = "refresh" => StatusFailed(c, rc) = Return(c, rc)
        /\ c.pc = "probe" => StatusFailed(c, rc) = Return(r, rc)
    BY DEF StatusFailed, r, Awaited
  <1> QED BY <1>1, <1>2, ExitFields DEF FailsAt, Awaited, Same, Keep

(* Install *)
LEMMA InstallFields ==
  ASSUME NEW c, DOMAIN c = Fields
  PROVE  Installs(c, Install(c))
  <1> DEFINE r == Return(c, "OK")
             m == c.arg
  <1>1. DOMAIN r = Fields /\ Keep(c, r) /\ At(r, "return", 1) /\ r.rc = "OK"
    BY ExitFields
  <1>2. Install(c) = [r EXCEPT !.session = m, !.sequence = 0, !.state = "ACTIVE"]
    BY DEF Install
  <1> HIDE DEF r, m
  <1> DEFINE d == [r EXCEPT !.session = m, !.sequence = 0, !.state = "ACTIVE"]
  <1>4. /\ DOMAIN d = Fields /\ d.op = r.op /\ d.arg = r.arg /\ d.commit = r.commit
        /\ d.contained = r.contained /\ d.session = m /\ d.sequence = 0
        /\ d.pc = r.pc /\ d.target = r.target /\ d.sub = r.sub /\ d.late = r.late /\ d.rc = r.rc
    BY <1>1 DEF Fields
  <1> HIDE DEF d
  <1> QED BY <1>1, <1>2, <1>4 DEF Installs, Keep, At, d, m

(* Reached *)
LEMMA ReachedFields ==
  ASSUME NEW c, DOMAIN c = Fields, c.pc \in Awaited, NEW s1, NEW s2
  PROVE  LET d == Reached(c, s1, s2) IN
         \/ c.pc = "staged" /\ Keep(c, d) /\ At(d, "commit", 1) /\ d.rc = c.rc
         \/ c.pc = "blocked" /\ Keep(c, d) /\ At(d, "high", 1) /\ d.rc = c.rc
         \/ c.pc = "active" /\ Installs(c, d)
         \/ FailsAt(c, d)
  <1>1. /\ c.pc = "staged" => Reached(c, s1, s2) = Goto(c, "commit", 1)
        /\ c.pc = "blocked" => Reached(c, s1, s2) = Goto(c, "high", 1)
        /\ c.pc = "active" => \/ Reached(c, s1, s2) = Install(c)
                              \/ Reached(c, s1, s2) = FailZeroize(c, "SESSION_COMMIT_FAILED")
    BY DEF Reached
  <1>2. CASE c.pc \in {"staged", "blocked"}
    BY <1>1, <1>2, GotoFields
  <1>3. CASE c.pc = "active"
    BY <1>1, <1>3, InstallFields, ExitFields DEF FailsAt
  <1> QED BY <1>2, <1>3 DEF Awaited

(* StatusRead *)
LEMMA StatusReadFields ==
  ASSUME NEW c, DOMAIN c = Fields, c.pc \in Awaited \cup {"refresh", "probe"}, NEW s
  PROVE  Concludes(c, StatusRead(c, c.cache, s), s)
  <1> DEFINE d == StatusRead(c, c.cache, s)
             x == Refreshed(c.cache, s)
             y == Probed(c.cache, s)
             r == [c EXCEPT !.state = x]
             p == [c EXCEPT !.state = y]
             e == [c EXCEPT !.state = "READY_NO_SESSION"]
             reached == Matches(c.cache, c.pc, c.arg.id) /\ Matches(s, c.pc, c.arg.id)
  <1>1. DOMAIN Expected = Awaited
    BY DEF Expected, Awaited
  <1>2. reached => c.cache.session = Expected[c.pc] /\ s.session = Expected[c.pc]
    BY DEF Matches
  <1>3. \/ c.pc = "probe" /\ d = Return(p, "OK")
        \/ c.pc = "refresh" /\ d = Return(r, "OK")
        \/ c.pc = "refresh" /\ d = Return(e, "OK")
        \/ c.pc \in Awaited /\ reached /\ d = Reached(r, c.cache, s)
        \/ c.pc \in Awaited /\ d = Goto(r, c.pc, 1)
        \/ d = StatusFailed(r, "SESSION_COMMIT_FAILED")
    <2> HIDE DEF x, y, reached
    <2> QED BY <1>1 DEF StatusRead, x, y, reached
  <1> HIDE DEF x, y, d, reached
  <1>4. DOMAIN r = Fields /\ Same(c, r) /\ DOMAIN p = Fields /\ Same(c, p)
        /\ DOMAIN e = Fields /\ Same(c, e)
    BY DEF Same, Keep, Fields
  <1> HIDE DEF r, p, e
  <1>5. CASE c.pc \in {"probe", "refresh"} /\ \E z \in {r, p, e} : d = Return(z, "OK")
    BY <1>4, <1>5, ExitFields DEF Concludes, Same, Keep, d
  <1>6. CASE c.pc \in Awaited /\ reached /\ d = Reached(r, c.cache, s)
    <2>1. r.pc \in Awaited
      BY <1>4, <1>6 DEF Same
    <2>2. \/ r.pc = "staged" /\ Keep(r, d) /\ At(d, "commit", 1) /\ d.rc = r.rc
          \/ r.pc = "blocked" /\ Keep(r, d) /\ At(d, "high", 1) /\ d.rc = r.rc
          \/ r.pc = "active" /\ Installs(r, d)
          \/ FailsAt(r, d)
      BY <1>4, <1>6, <2>1, ReachedFields
    <2>3. \/ c.pc = "staged" /\ Keep(c, d) /\ At(d, "commit", 1) /\ d.rc = c.rc
          \/ c.pc = "blocked" /\ Keep(c, d) /\ At(d, "high", 1) /\ d.rc = c.rc
          \/ c.pc = "active" /\ Installs(c, d)
          \/ FailsAt(c, d)
      BY <1>4, <2>2 DEF Same, Keep, Installs, FailsAt
    <2> QED BY <1>2, <1>6, <2>3 DEF Concludes, d
  <1>7. CASE c.pc \in Awaited /\ d = Goto(r, c.pc, 1)
    BY <1>4, <1>7, GotoFields DEF Concludes, Same, Keep, d
  <1>8. CASE d = StatusFailed(r, "SESSION_COMMIT_FAILED")
    <2>1. FailsAt(r, d)
      BY <1>4, <1>8, StatusFailedFields DEF Same
    <2>2. FailsAt(c, d)
      BY <1>4, <2>1 DEF FailsAt, Same, Keep
    <2> QED BY <2>2 DEF Concludes, d
  <1> QED BY <1>3, <1>5, <1>6, <1>7, <1>8

(* controller_get_status *)
LEMMA GetStatusRoute ==
  ASSUME Sound, GetStatus
  PROVE  StatusRoute
  <1> DEFINE t == ctl.target
             s == Status(t)
  <1>0. ctl.pc \in Awaited \cup {"refresh", "probe"}
    <2>1. ctl.pc \in {"staged", "blocked", "active", "refresh", "probe"}
      BY ZenonT(60) DEF GetStatus
    <2> QED BY <2>1 DEF Awaited
  <1>1. PICK rc :
          /\ Outcome(t, Message(t, "GET_STATUS", None), rc)
          /\ ctl' = LET code == IF rc = "OK" /\ s.fault THEN "FAULT_LOCKED" ELSE rc
                        c == [Latched(ctl, code) EXCEPT !.ready = IF rc = "OK" THEN @ \cup {t}
                                                                               ELSE @ \ {t}]
                    IN CASE code # "OK" -> StatusFailed(c, code)
                         [] code = "OK" /\ t = 1 ->
                              [c EXCEPT !.target = 2, !.cache = s,
                                        !.pc = IF @ = "probe" THEN "info" ELSE @]
                         [] OTHER -> StatusRead(c, ctl.cache, s)
    BY DEF GetStatus, Exchange, Outcome
  <1> HIDE DEF s
  <1>2. Served(t, "GET_STATUS", None, rc)
    BY <1>1, ExchangeServes DEF Sound
  <1> DEFINE code == IF rc = "OK" /\ s.fault THEN "FAULT_LOCKED" ELSE rc
             l == Latched(ctl, code)
             ready == IF rc = "OK" THEN l.ready \cup {t} ELSE l.ready \ {t}
             c == [l EXCEPT !.ready = ready]
  <1>3. \/ code # "OK" /\ ctl' = StatusFailed(c, code)
        \/ code = "OK" /\ t = 1 /\ ctl' = [c EXCEPT !.target = 2, !.cache = s,
                                                    !.pc = IF @ = "probe" THEN "info" ELSE @]
        \/ t = 2 /\ ctl' = StatusRead(c, ctl.cache, s)
    <2> HIDE DEF l, ready
    <2> QED BY <1>1 DEF Sound, Targets, l, ready
  <1>4. DOMAIN l = Fields /\ Same(ctl, l)
    BY LatchFields DEF Sound
  <1> HIDE DEF l, ready, code
  <1>5. DOMAIN c = Fields /\ Same(ctl, c)
    BY <1>4 DEF Same, Keep, Fields
  <1> HIDE DEF c
  <1>6. CASE code # "OK" /\ ctl' = StatusFailed(c, code)
    <2>1. FailsAt(c, ctl')
      BY <1>0, <1>5, <1>6, StatusFailedFields DEF Same
    <2>2. FailsAt(ctl, ctl')
      BY <1>5, <2>1 DEF FailsAt, Same, Keep
    <2> QED BY <1>0, <1>2, <2>2 DEF StatusRoute
  <1>7. CASE t = 1 /\ ctl' = [c EXCEPT !.target = 2, !.cache = s,
                                       !.pc = IF @ = "probe" THEN "info" ELSE @]
    <2>1. Halfway(c, ctl', s)
      BY <1>5, <1>7 DEF Halfway, Keep, Fields
    <2>2. Halfway(ctl, ctl', Status(1))
      BY <1>5, <1>7, <2>1 DEF Halfway, Same, Keep, s
    <2> QED BY <1>0, <1>2, <1>7, <2>2 DEF StatusRoute
  <1>8. CASE t = 2 /\ ctl' = StatusRead(c, ctl.cache, s)
    <2>1. Concludes(c, ctl', s)
      BY <1>0, <1>5, <1>8, StatusReadFields DEF Same
    <2>2. Concludes(ctl, ctl', Status(2))
      BY <1>5, <1>8, <2>1 DEF Concludes, FailsAt, Installs, Same, Keep, s
    <2> QED BY <1>0, <1>2, <1>8, <2>2 DEF StatusRoute
  <1> QED BY <1>3, <1>6, <1>7, <1>8

(* GET_INFO, between the two halves of a probe. *)
InfoRoute ==
  \E rc : /\ ctl.pc = "info" /\ Served(ctl.target, "GET_INFO", None, rc) /\ Keep(ctl, ctl')
          /\ \/ /\ ctl'.pc = "probe" /\ ctl'.target = ctl.target /\ ctl'.rc = ctl.rc
             \/ At(ctl', "return", 1)

(* An identification leads to the probe, or back with its error. *)
LEMMA GetInfoRoute ==
  ASSUME Sound, GetInfo
  PROVE  InfoRoute
  <1> DEFINE t == ctl.target
  <1>0. ctl.pc = "info"
    BY DEF GetInfo
  <1>1. PICK rc : /\ Outcome(t, Message(t, "GET_INFO", None), rc)
                  /\ ctl' = IF rc = "OK" THEN [ctl EXCEPT !.pc = "probe"]
                            ELSE Return([Latched(ctl, rc) EXCEPT !.ready = @ \ {t, 2}], rc)
    BY DEF GetInfo, Exchange, Outcome
  <1>2. Served(t, "GET_INFO", None, rc)
    BY <1>1, ExchangeServes DEF Sound
  <1> DEFINE l == Latched(ctl, rc)
             c == [l EXCEPT !.ready = @ \ {t, 2}]
  <1>3. ctl' = [ctl EXCEPT !.pc = "probe"] \/ ctl' = Return(c, rc)
    BY <1>1
  <1>4. DOMAIN l = Fields /\ Same(ctl, l)
    BY LatchFields DEF Sound
  <1> HIDE DEF l
  <1>5. DOMAIN c = Fields /\ Same(ctl, c)
    BY <1>4 DEF Same, Keep, Fields
  <1> HIDE DEF c
  <1>6. CASE ctl' = [ctl EXCEPT !.pc = "probe"]
    <2>1. /\ Keep(ctl, ctl') /\ ctl'.pc = "probe" /\ ctl'.target = ctl.target
          /\ ctl'.rc = ctl.rc
      BY <1>6 DEF Sound, Fields, Keep
    <2> QED BY <1>0, <1>2, <2>1 DEF InfoRoute
  <1>7. CASE ctl' = Return(c, rc)
    <2>1. Keep(ctl, ctl') /\ At(ctl', "return", 1)
      BY <1>5, <1>7, ExitFields DEF Same, Keep
    <2> QED BY <1>0, <1>2, <2>1 DEF InfoRoute
  <1> QED BY <1>3, <1>6, <1>7

(* ABORT_SESSION of the session that could not be established. *)
AbortRoute ==
  \E rc : /\ ctl.pc = "abort" /\ Served(ctl.target, "ABORT_SESSION", ctl.arg.id, rc)
          /\ Keep(ctl, ctl') /\ ctl'.rc = ctl.rc
          /\ ctl.target = 1 => At(ctl', "abort", 2)
          /\ ctl.target = 2 => At(ctl', "failZeroize", 1)

(* Where an abort of a failed activation leads: to the second target, then to its zeroize. *)
LEMMA AbortLeads ==
  ASSUME Sound, Abort
  PROVE  AbortRoute
  <1> DEFINE t == ctl.target
  <1>0. ctl.pc = "abort"
    BY DEF Abort
  <1>1. PICK rc : /\ Outcome(t, Message(t, "ABORT_SESSION", ctl.arg.id), rc)
                  /\ ctl' = LET c == Latched(ctl, rc) IN
                            IF c.target = 1 THEN Goto(c, "abort", 2)
                                            ELSE Goto(c, "failZeroize", 1)
    BY DEF Abort, Exchange, Outcome
  <1>2. Served(t, "ABORT_SESSION", ctl.arg.id, rc)
    BY <1>1, ExchangeServes DEF Sound
  <1> DEFINE c == Latched(ctl, rc)
  <1>3. DOMAIN c = Fields /\ Same(ctl, c)
    BY LatchFields DEF Sound
  <1>4. ctl' = IF c.target = 1 THEN Goto(c, "abort", 2) ELSE Goto(c, "failZeroize", 1)
    BY <1>1
  <1> HIDE DEF c
  <1>5. /\ Keep(ctl, ctl') /\ ctl'.rc = ctl.rc
        /\ ctl.target = 1 => At(ctl', "abort", 2)
        /\ ctl.target = 2 => At(ctl', "failZeroize", 1)
    BY <1>3, <1>4, GotoFields DEF Same, Keep
  <1> QED BY <1>0, <1>2, <1>5 DEF AbortRoute

(* ABORT_SESSION of CLOSE_SESSION; 0, that is None, names every session. *)
CloseRoute ==
  \E rc : /\ ctl.pc = "close"
          /\ Served(ctl.target, "ABORT_SESSION",
                    IF ctl.session = None THEN None ELSE ctl.session.id, rc)
          /\ Keep(ctl, ctl')
          /\ ctl'.rc = IF ctl.rc = "OK" /\ rc \notin {"OK", "BAD_SESSION", "FAULT_LOCKED"}
                       THEN rc ELSE ctl.rc
          /\ ctl.target = 1 => At(ctl', "close", 2)
          /\ ctl.target = 2 => At(ctl', "closed", 1)

(* Where a close leads: to the second target, then to its end. *)
LEMMA CloseLeads ==
  ASSUME Sound, Close
  PROVE  CloseRoute
  <1> DEFINE t == ctl.target
             id == IF ctl.session = None THEN None ELSE ctl.session.id
             tolerated == {"OK", "BAD_SESSION", "FAULT_LOCKED"}
  <1>0. ctl.pc = "close"
    BY DEF Close
  <1>1. PICK rc : /\ Outcome(t, Message(t, "ABORT_SESSION", id), rc)
                  /\ ctl' = LET c == Note(Latched(ctl, rc), rc, tolerated) IN
                            IF c.target = 1 THEN Goto(c, "close", 2) ELSE Goto(c, "closed", 1)
    BY DEF Close, Exchange, Outcome
  <1> HIDE DEF id
  <1>2. Served(t, "ABORT_SESSION", id, rc)
    BY <1>1, ExchangeServes DEF Sound
  <1> DEFINE l == Latched(ctl, rc)
             c == Note(l, rc, tolerated)
  <1>3. DOMAIN l = Fields /\ Same(ctl, l)
    BY LatchFields DEF Sound
  <1>4. ctl' = IF c.target = 1 THEN Goto(c, "close", 2) ELSE Goto(c, "closed", 1)
    BY <1>1
  <1> HIDE DEF l
  <1>5. /\ DOMAIN c = Fields /\ Keep(l, c) /\ c.target = l.target
        /\ c.rc = IF l.rc = "OK" /\ rc \notin tolerated THEN rc ELSE l.rc
    BY <1>3, NoteFields
  <1> HIDE DEF c
  <1>6. /\ Keep(ctl, ctl') /\ ctl'.rc = c.rc
        /\ ctl.target = 1 => At(ctl', "close", 2)
        /\ ctl.target = 2 => At(ctl', "closed", 1)
    BY <1>3, <1>4, <1>5, GotoFields DEF Same, Keep
  <1>7. ctl'.rc = IF ctl.rc = "OK" /\ rc \notin tolerated THEN rc ELSE ctl.rc
    BY <1>3, <1>5, <1>6 DEF Same
  <1> QED BY <1>0, <1>2, <1>6, <1>7 DEF CloseRoute, id

(* A telemetry image was delivered. *)
Counts(c, d) ==
  /\ DOMAIN c = Fields => DOMAIN d = Fields
  /\ d.op = c.op /\ d.arg = c.arg /\ d.commit = c.commit /\ d.contained = c.contained
  /\ d.session = c.session /\ d.sequence = c.sequence + 1

(* SEND_TELEMETRY. *)
SendRoute ==
  \E cmd, arg, rc :
    /\ cmd \in {"GET_RX_STATUS", "LOAD_TELEMETRY", "READ_AUTH_RESULT", "ACK_AUTH_RESULT"}
    /\ \/ /\ ctl.pc \in {"rx", "load", "arrive", "read", "ack"} /\ Keep(ctl, ctl')
          /\ At(ctl', "return", 1) /\ ctl'.rc # "OK"
          /\ Served(IF cmd = "LOAD_TELEMETRY" THEN 1 ELSE 2, cmd, arg, rc)
       \/ /\ ctl.pc = "rx" /\ Keep(ctl, ctl') /\ At(ctl', "load", 1)
          /\ Served(2, cmd, arg, rc)
       \/ /\ ctl.pc = "load" /\ Keep(ctl, ctl') /\ At(ctl', "encrypt", 1)
          /\ Served(1, cmd, arg, rc)
       \/ /\ ctl.pc = "arrive" /\ Keep(ctl, ctl')
          /\ ctl'.pc \in {"arrive", "read"} /\ ctl'.target \in Targets
          /\ Served(2, cmd, arg, rc)
       \/ /\ ctl.pc = "read" /\ Keep(ctl, ctl') /\ At(ctl', "ack", 2)
          /\ cmd = "READ_AUTH_RESULT" /\ rc = "OK" /\ Served(2, cmd, arg, rc)
          /\ p2.result.seq = ctl.sequence + 1 /\ p2.result.tel = ctl.arg
       \/ /\ ctl.pc = "ack" /\ At(ctl', "return", 1) /\ ctl'.rc = "OK"
          /\ Counts(ctl, ctl')
          /\ cmd = "ACK_AUTH_RESULT" /\ rc = "OK" /\ Served(2, cmd, arg, rc)
          /\ arg = [id |-> ctl.session.id, seq |-> ctl.sequence + 1]

(* GET_RX_STATUS before the frame is loaded. *)
LEMMA RxStatusLeads ==
  ASSUME Sound, RxStatus
  PROVE  SendRoute
  <1>1. PICK rc : /\ Outcome(2, Message(2, "GET_RX_STATUS", None), rc)
                  /\ ctl' = LET c == Latched(ctl, rc) IN
                            CASE rc # "OK" -> Return(c, rc)
                              [] rc = "OK" /\ p2.result # None -> Return(c, "RESULT_PENDING")
                              [] OTHER -> Goto(c, "load", 1)
    BY DEF RxStatus, Exchange, Outcome
  <1>2. Served(2, "GET_RX_STATUS", None, rc)
    BY <1>1, ExchangeServes DEF Sound, Targets
  <1> DEFINE c == Latched(ctl, rc)
  <1>3. DOMAIN c = Fields /\ Same(ctl, c)
    BY LatchFields DEF Sound
  <1>4. \/ rc # "OK" /\ ctl' = Return(c, rc)
        \/ ctl' = Return(c, "RESULT_PENDING")
        \/ ctl' = Goto(c, "load", 1)
    BY <1>1
  <1> HIDE DEF c
  <1>5. /\ Keep(ctl, ctl')
        /\ (At(ctl', "return", 1) /\ ctl'.rc # "OK") \/ At(ctl', "load", 1)
    BY <1>3, <1>4, GotoFields, ExitFields DEF Same, Keep
  <1>6. ctl.pc = "rx"
    BY DEF RxStatus
  <1> QED BY <1>2, <1>5, <1>6 DEF SendRoute

(* LOAD_TELEMETRY *)
LEMMA LoadLeads ==
  ASSUME Sound, Load
  PROVE  SendRoute
  <1>1. PICK rc : /\ Outcome(1, Message(1, "LOAD_TELEMETRY", ctl.arg), rc)
                  /\ ctl' = LET c == Latched(ctl, rc) IN
                            IF rc = "OK" THEN Goto(c, "encrypt", 1) ELSE Return(c, rc)
    BY DEF Load, Exchange, Outcome
  <1>2. Served(1, "LOAD_TELEMETRY", ctl.arg, rc)
    BY <1>1, ExchangeServes DEF Sound, Targets
  <1> DEFINE c == Latched(ctl, rc)
  <1>3. DOMAIN c = Fields /\ Same(ctl, c)
    BY LatchFields DEF Sound
  <1>4. \/ rc # "OK" /\ ctl' = Return(c, rc)
        \/ ctl' = Goto(c, "encrypt", 1)
    BY <1>1
  <1> HIDE DEF c
  <1>5. /\ Keep(ctl, ctl')
        /\ (At(ctl', "return", 1) /\ ctl'.rc # "OK") \/ At(ctl', "encrypt", 1)
    BY <1>3, <1>4, GotoFields, ExitFields DEF Same, Keep
  <1>6. ctl.pc = "load"
    BY DEF Load
  <1> QED BY <1>2, <1>5, <1>6 DEF SendRoute

(* GET_RX_STATUS until the deadline. *)
LEMMA ArriveLeads ==
  ASSUME Sound, Arrive
  PROVE  SendRoute
  <1>1. PICK rc : /\ Outcome(2, Message(2, "GET_RX_STATUS", None), rc)
                  /\ ctl' = LET c == Latched(ctl, rc) IN
                            CASE rc # "OK" -> Return(c, rc)
                              [] rc = "OK" /\ ~ctl.late -> c
                              [] rc = "OK" /\ ctl.late /\ Arrived -> Goto(c, "read", 2)
                              [] OTHER -> Return(c, "FRAME_TIMEOUT")
    BY DEF Arrive, Exchange, Outcome
  <1>2. Served(2, "GET_RX_STATUS", None, rc)
    BY <1>1, ExchangeServes DEF Sound, Targets
  <1> DEFINE c == Latched(ctl, rc)
  <1>3. DOMAIN c = Fields /\ Same(ctl, c)
    BY LatchFields DEF Sound
  <1>4. \/ rc # "OK" /\ ctl' = Return(c, rc)
        \/ ctl' = Return(c, "FRAME_TIMEOUT")
        \/ ctl' = Goto(c, "read", 2)
        \/ ctl' = c
    BY <1>1
  <1> HIDE DEF c
  <1>5. ctl.pc = "arrive"
    BY DEF Arrive
  <1>6. /\ Keep(ctl, ctl')
        /\ \/ At(ctl', "return", 1) /\ ctl'.rc # "OK"
           \/ ctl'.pc \in {"arrive", "read"} /\ ctl'.target \in Targets
    <2>1. CASE ctl' = c
      BY <1>3, <1>5, <2>1 DEF Same, Keep, Sound
    <2>2. CASE ctl' = Goto(c, "read", 2)
      <3>1. Keep(c, ctl') /\ At(ctl', "read", 2)
        BY <1>3, <2>2, GotoFields
      <3> QED BY <1>3, <3>1 DEF Same, Keep, At, Targets
    <2>3. CASE \E code : code # "OK" /\ ctl' = Return(c, code)
      BY <1>3, <2>3, ExitFields DEF Same, Keep
    <2> QED BY <1>4, <2>1, <2>2, <2>3
  <1> QED BY <1>2, <1>5, <1>6 DEF SendRoute

(* READ_AUTH_RESULT *)
LEMMA ReadLeads ==
  ASSUME Sound, ReadAuth
  PROVE  SendRoute
  <1> DEFINE mine == /\ p2.result.id = ctl.session.id /\ p2.result.seq = ctl.sequence + 1
                     /\ p2.result.tel = ctl.arg
  <1>1. PICK rc : /\ Outcome(2, Message(2, "READ_AUTH_RESULT", None), rc)
                  /\ ctl' = CASE rc # "OK" -> Return(Latched(ctl, rc), rc)
                              [] rc = "OK" /\ mine -> Goto(ctl, "ack", 2)
                              [] OTHER -> Return(LatchError(ctl, "BAD_TAG"), "BAD_TAG")
    BY DEF ReadAuth, Exchange, Outcome
  <1>2. Served(2, "READ_AUTH_RESULT", None, rc)
    BY <1>1, ExchangeServes DEF Sound, Targets
  <1> DEFINE c == Latched(ctl, rc)
             e == LatchError(ctl, "BAD_TAG")
  <1>3. DOMAIN c = Fields /\ Same(ctl, c) /\ DOMAIN e = Fields /\ Same(ctl, e)
    BY LatchFields DEF Sound
  <1>4. \/ rc # "OK" /\ ctl' = Return(c, rc)
        \/ ctl' = Return(e, "BAD_TAG")
        \/ rc = "OK" /\ mine /\ ctl' = Goto(ctl, "ack", 2)
    BY <1>1
  <1> HIDE DEF c, e
  <1>5. /\ Keep(ctl, ctl')
        /\ \/ At(ctl', "return", 1) /\ ctl'.rc # "OK"
           \/ rc = "OK" /\ mine /\ At(ctl', "ack", 2)
    BY <1>3, <1>4, GotoFields, ExitFields DEF Same, Keep, Sound
  <1>6. ctl.pc = "read"
    BY DEF ReadAuth
  <1> QED BY <1>2, <1>5, <1>6 DEF SendRoute

(* ACK_AUTH_RESULT *)
LEMMA AckLeads ==
  ASSUME Sound, Ack
  PROVE  SendRoute
  <1> DEFINE named == [id |-> ctl.session.id, seq |-> ctl.sequence + 1]
  <1>1. PICK rc : /\ Outcome(2, Message(2, "ACK_AUTH_RESULT", named), rc)
                  /\ ctl' = LET c == Latched(ctl, rc) IN
                            IF rc = "OK" THEN [Return(c, "OK") EXCEPT !.sequence = @ + 1]
                                         ELSE Return(c, rc)
    BY DEF Ack, Exchange, Outcome
  <1> HIDE DEF named
  <1>2. Served(2, "ACK_AUTH_RESULT", named, rc)
    BY <1>1, ExchangeServes DEF Sound, Targets
  <1> DEFINE c == Latched(ctl, rc)
             r == Return(c, "OK")
             n == r.sequence + 1
  <1>3. DOMAIN c = Fields /\ Same(ctl, c)
    BY LatchFields DEF Sound
  <1>4. \/ rc # "OK" /\ ctl' = Return(c, rc)
        \/ rc = "OK" /\ ctl' = [r EXCEPT !.sequence = n]
    BY <1>1
  <1> HIDE DEF c
  <1>5. DOMAIN r = Fields /\ Keep(c, r) /\ At(r, "return", 1) /\ r.rc = "OK"
    BY <1>3, ExitFields
  <1> HIDE DEF r
  <1>6. n = ctl.sequence + 1
    BY <1>3, <1>5 DEF Same, Keep
  <1> HIDE DEF n
  <1>7. CASE rc # "OK" /\ ctl' = Return(c, rc)
    <2>1. Keep(ctl, ctl') /\ At(ctl', "return", 1) /\ ctl'.rc # "OK"
      BY <1>3, <1>7, ExitFields DEF Same, Keep
    <2> QED BY <1>2, <2>1 DEF SendRoute, Ack
  <1>8. CASE rc = "OK" /\ ctl' = [r EXCEPT !.sequence = n]
    <2>1. /\ DOMAIN ctl' = Fields /\ ctl'.op = r.op /\ ctl'.arg = r.arg
          /\ ctl'.commit = r.commit /\ ctl'.contained = r.contained
          /\ ctl'.session = r.session /\ ctl'.sequence = n /\ ctl'.rc = "OK"
          /\ At(ctl', "return", 1)
      BY <1>5, <1>8 DEF At, Fields
    <2>2. Counts(ctl, ctl')
      BY <1>3, <1>5, <1>6, <2>1 DEF Counts, Same, Keep
    <2> QED BY <1>2, <1>8, <2>1, <2>2 DEF SendRoute, Ack, named
  <1> QED BY <1>4, <1>7, <1>8

(* A step without an exchange. *)
Silent == /\ Quiet /\ UNCHANGED <<p1vars, p2vars, fatal, zeroizeN, enable, trouble>>
          /\ secure' = (ctl'.commit /\ enable') /\ DOMAIN ctl' = Fields

Turns(c, d, label, commit, session, sequence) ==
  /\ d.op = c.op /\ d.arg = c.arg /\ d.contained = c.contained
  /\ d.commit = commit /\ d.session = session /\ d.sequence = sequence /\ At(d, label, 1)

(* A command starts. *)
StartRoute ==
  /\ ctl.pc = "idle" /\ Silent
  /\ ctl'.session = ctl.session /\ ctl'.sequence = ctl.sequence
  /\ ctl'.contained = ctl.contained /\ ctl'.rc = ctl.rc
  /\ ctl'.target \in Targets /\ ctl'.sub = "request"
  /\ \/ /\ ctl'.op = "ACTIVATE" /\ ctl'.pc = "tiny" /\ ctl'.arg \in Material
        /\ ctl'.commit = FALSE
     \/ /\ ctl'.op = "ZEROIZE" /\ ctl'.pc = "zero" /\ ctl'.commit = FALSE /\ ctl'.target = 1
     \/ /\ ctl'.op = "CLOSE" /\ ctl'.pc = "close" /\ ctl'.commit = FALSE /\ ctl'.target = 1
     \/ /\ ctl'.commit = ctl.commit
        /\ \/ ctl'.op = "SELF_TEST" /\ ctl'.pc = "test"
           \/ ctl'.op = "REFRESH" /\ ctl'.pc = "refresh"
           \/ ctl'.op = "PROBE" /\ ctl'.pc = "info"
           \/ ctl'.op = "SEND" /\ ctl'.pc = "rx" /\ ctl.session # None

(* The parts of it that every command has. *)
NewCommand(label, t, op, arg, commit, state) ==
  [Goto(ctl, label, t) EXCEPT !.op = op, !.arg = arg, !.commit = commit, !.state = state]

Enters(label, t, op, arg, commit) ==
  /\ Silent /\ ctl'.session = ctl.session /\ ctl'.sequence = ctl.sequence
  /\ ctl'.contained = ctl.contained /\ ctl'.rc = ctl.rc /\ ctl'.sub = "request"
  /\ ctl'.pc = label /\ ctl'.target = t /\ ctl'.op = op /\ ctl'.arg = arg
  /\ ctl'.commit = commit

(* A new command keeps the session and names its program. *)
LEMMA StartFields ==
  ASSUME Sound, NEW label, NEW t, NEW op, NEW arg, NEW commit, NEW state,
         Local(NewCommand(label, t, op, arg, commit, state))
  PROVE  Enters(label, t, op, arg, commit)
  <1> DEFINE g == Goto(ctl, label, t)
  <1>1. DOMAIN g = Fields /\ Keep(ctl, g) /\ At(g, label, t) /\ g.rc = ctl.rc
    BY GotoFields DEF Sound
  <1>2. ctl' = [g EXCEPT !.op = op, !.arg = arg, !.commit = commit, !.state = state]
    BY DEF Local, NewCommand
  <1> HIDE DEF g
  <1>3. /\ DOMAIN ctl' = Fields /\ ctl'.session = g.session /\ ctl'.sequence = g.sequence
        /\ ctl'.contained = g.contained /\ ctl'.rc = g.rc /\ ctl'.sub = g.sub
        /\ ctl'.pc = g.pc /\ ctl'.target = g.target /\ ctl'.op = op /\ ctl'.arg = arg
        /\ ctl'.commit = commit
    BY <1>1, <1>2 DEF Fields
  <1>4. Silent
    BY <1>3 DEF Local, Silent, DriveSecure
  <1> QED BY <1>1, <1>3, <1>4 DEF Keep, At, Enters

(* The start of every command. *)
LEMMA StartLeads ==
  ASSUME Sound, Start
  PROVE  StartRoute
  <1>0. \A label, t : LET g == Goto(ctl, label, t) IN
          DOMAIN g = Fields /\ g.arg = ctl.arg /\ g.commit = ctl.commit /\ g.state = ctl.state
    BY DEF Goto, Sound, Fields
  <1>1. CASE StartZeroize
    <2>1. ZeroizeLow(ctl) = [Goto(ctl, "zero", 1) EXCEPT !.commit = FALSE, !.state = "ZEROIZE_BUSY"]
      BY DEF ZeroizeLow
    <2> DEFINE g == Goto(ctl, "zero", 1)
    <2>2. DOMAIN g = Fields /\ g.arg = ctl.arg
      BY <1>0
    <2> HIDE DEF g
    <2>3. [[g EXCEPT !.commit = FALSE, !.state = "ZEROIZE_BUSY"] EXCEPT !.op = "ZEROIZE"]
            = [g EXCEPT !.op = "ZEROIZE", !.arg = ctl.arg, !.commit = FALSE, !.state = "ZEROIZE_BUSY"]
      BY <2>2 DEF Fields
    <2>4. Local(NewCommand("zero", 1, "ZEROIZE", ctl.arg, FALSE, "ZEROIZE_BUSY"))
      BY <1>1, <2>1, <2>3 DEF StartZeroize, g, NewCommand
    <2>5. Enters("zero", 1, "ZEROIZE", ctl.arg, FALSE)
      BY <2>4, StartFields, Zenon
    <2> QED BY <1>1, <2>5 DEF Enters, StartZeroize, StartRoute, Targets
  <1>2. CASE StartClose
    <2> DEFINE g == Goto(ctl, "close", 1)
    <2>2. DOMAIN g = Fields /\ g.arg = ctl.arg /\ g.state = ctl.state
      BY <1>0
    <2> HIDE DEF g
    <2>3. [g EXCEPT !.op = "CLOSE", !.commit = FALSE]
            = [g EXCEPT !.op = "CLOSE", !.arg = ctl.arg, !.commit = FALSE, !.state = ctl.state]
      BY <2>2 DEF Fields
    <2>4. Local(NewCommand("close", 1, "CLOSE", ctl.arg, FALSE, ctl.state))
      BY <1>2, <2>3 DEF StartClose, g, NewCommand
    <2>5. Enters("close", 1, "CLOSE", ctl.arg, FALSE)
      BY <2>4, StartFields, Zenon
    <2> QED BY <1>2, <2>5 DEF Enters, StartClose, StartRoute, Targets
  <1>3. CASE StartRefresh
    <2> DEFINE g == Goto(ctl, "refresh", 1)
    <2>2. DOMAIN g = Fields /\ g.arg = ctl.arg /\ g.commit = ctl.commit /\ g.state = ctl.state
      BY <1>0
    <2> HIDE DEF g
    <2>3. [g EXCEPT !.op = "REFRESH"]
            = [g EXCEPT !.op = "REFRESH", !.arg = ctl.arg, !.commit = ctl.commit, !.state = ctl.state]
      BY <2>2 DEF Fields
    <2>4. Local(NewCommand("refresh", 1, "REFRESH", ctl.arg, ctl.commit, ctl.state))
      BY <1>3, <2>3 DEF StartRefresh, g, NewCommand
    <2>5. Enters("refresh", 1, "REFRESH", ctl.arg, ctl.commit)
      BY <2>4, StartFields, Zenon
    <2> QED BY <1>3, <2>5 DEF Enters, StartRefresh, StartRoute, Targets
  <1>4. CASE StartProbe
    <2> DEFINE g == Goto(ctl, "info", 1)
    <2>2. DOMAIN g = Fields /\ g.arg = ctl.arg /\ g.commit = ctl.commit /\ g.state = ctl.state
      BY <1>0
    <2> HIDE DEF g
    <2>3. [g EXCEPT !.op = "PROBE"]
            = [g EXCEPT !.op = "PROBE", !.arg = ctl.arg, !.commit = ctl.commit, !.state = ctl.state]
      BY <2>2 DEF Fields
    <2>4. Local(NewCommand("info", 1, "PROBE", ctl.arg, ctl.commit, ctl.state))
      BY <1>4, <2>3 DEF StartProbe, g, NewCommand
    <2>5. Enters("info", 1, "PROBE", ctl.arg, ctl.commit)
      BY <2>4, StartFields, Zenon
    <2> QED BY <1>4, <2>5 DEF Enters, StartProbe, StartRoute, Targets
  <1>5. ASSUME NEW m \in Material, StartActivate(m)
        PROVE  StartRoute
    <2>1. Local(NewCommand("tiny", 1, "ACTIVATE", m, FALSE, "SESSION_ESTABLISHING"))
      BY <1>5 DEF StartActivate, NewCommand
    <2>2. Enters("tiny", 1, "ACTIVATE", m, FALSE)
      BY <2>1, StartFields, Zenon
    <2> QED BY <1>5, <2>2 DEF Enters, StartActivate, StartRoute, Targets
  <1>6. ASSUME NEW mask, StartSelfTest(mask)
        PROVE  StartRoute
    <2>1. PICK t \in Targets : t = IF 1 \in mask THEN 1 ELSE 2
      BY DEF Targets
    <2> DEFINE g == Goto(ctl, "test", t)
    <2>2. DOMAIN g = Fields /\ g.commit = ctl.commit
      BY <1>0
    <2> HIDE DEF g
    <2>3. [g EXCEPT !.op = "SELF_TEST", !.arg = mask, !.state = "SELF_TEST_RUNNING"]
            = [g EXCEPT !.op = "SELF_TEST", !.arg = mask, !.commit = ctl.commit,
                        !.state = "SELF_TEST_RUNNING"]
      BY <2>2 DEF Fields
    <2>4. Local(NewCommand("test", t, "SELF_TEST", mask, ctl.commit, "SELF_TEST_RUNNING"))
      BY <1>6, <2>1, <2>3 DEF StartSelfTest, g, NewCommand
    <2>5. Enters("test", t, "SELF_TEST", mask, ctl.commit)
      BY <2>4, StartFields, Zenon
    <2> QED BY <1>6, <2>5 DEF Enters, StartSelfTest, StartRoute
  <1>7. ASSUME NEW tel, StartSend(tel)
        PROVE  StartRoute
    <2> DEFINE g == Goto(ctl, "rx", 2)
    <2>2. DOMAIN g = Fields /\ g.commit = ctl.commit /\ g.state = ctl.state
      BY <1>0
    <2> HIDE DEF g
    <2>3. [g EXCEPT !.op = "SEND", !.arg = tel]
            = [g EXCEPT !.op = "SEND", !.arg = tel, !.commit = ctl.commit, !.state = ctl.state]
      BY <2>2 DEF Fields
    <2>4. Local(NewCommand("rx", 2, "SEND", tel, ctl.commit, ctl.state))
      BY <1>7, <2>3 DEF StartSend, g, NewCommand
    <2>5. Enters("rx", 2, "SEND", tel, ctl.commit)
      BY <2>4, StartFields, Zenon
    <2> QED BY <1>7, <2>5 DEF Enters, StartSend, StartRoute, Targets
  <1> QED BY <1>1, <1>2, <1>3, <1>4, <1>5, <1>6, <1>7 DEF Start

(* The steps inside a command that touch no bus. *)
LocalRoute ==
  /\ Silent
  /\ \/ /\ ctl.pc = "tiny"
        /\ \/ Turns(ctl, ctl', "failAbort", ctl.commit, ctl.session, ctl.sequence)
           \/ Turns(ctl, ctl', "stage", ctl.commit, ctl.session, ctl.sequence)
     \/ /\ ctl.pc = "high" /\ Turns(ctl, ctl', "active", TRUE, ctl.session, ctl.sequence)
     \/ /\ ctl.pc = "failAbort"
        /\ Turns(ctl, ctl', "abort", FALSE, ctl.session, ctl.sequence)
     \/ /\ ctl.pc = "failZeroize" /\ ctl'.rc = ctl.rc
        /\ Turns(ctl, ctl', "zero", FALSE, ctl.session, ctl.sequence)
     \/ /\ ctl.pc = "zeroState" /\ ctl'.rc = ctl.rc
        /\ Turns(ctl, ctl', "zeroCode", ctl.commit, None, 0)
     \/ /\ ctl.pc = "zeroCode" /\ (ctl'.rc = "OK" => ctl.rc = "OK")
        /\ Turns(ctl, ctl', "return", ctl.commit, ctl.session, ctl.sequence)
     \/ /\ ctl.pc = "closed" /\ (ctl'.rc = "OK" => ctl.rc = "OK")
        /\ Turns(ctl, ctl', "return", ctl.commit, None, 0)

(* The steps of activation and zeroize between the exchanges. *)
LEMMA LocalLeads ==
  ASSUME Sound, \/ CheckTiny \/ CommitHigh \/ AbortLow \/ ActivateZeroize
                \/ ZeroizeState \/ ZeroizeCode \/ Closed
  PROVE  LocalRoute
  <1>0. ASSUME NEW c, Local(c), DOMAIN c = Fields
        PROVE  Silent /\ ctl' = c
    BY <1>0 DEF Local, Silent, DriveSecure
  <1>1. CASE CheckTiny
    <2>1. PICK c : /\ Local(c) /\ (c = FailAbort(ctl, "FAULT_LOCKED") \/ c = Goto(ctl, "stage", 1))
      BY <1>1 DEF CheckTiny
    <2>2. /\ DOMAIN c = Fields /\ Keep(ctl, c)
          /\ At(c, "failAbort", 1) \/ At(c, "stage", 1)
      BY <2>1, GotoFields, ExitFields DEF Sound
    <2>3. ctl.pc = "tiny"
      BY <1>1 DEF CheckTiny
    <2> QED BY <1>0, <2>1, <2>2, <2>3 DEF LocalRoute, Turns, Keep
  <1>2. CASE CommitHigh
    <2> DEFINE g == Goto(ctl, "active", 1)
               c == [g EXCEPT !.commit = TRUE]
    <2>1. DOMAIN g = Fields /\ Keep(ctl, g) /\ At(g, "active", 1)
      BY GotoFields DEF Sound
    <2>2. Local(c) /\ ctl.pc = "high"
      BY <1>2 DEF CommitHigh
    <2> HIDE DEF g
    <2>3. /\ DOMAIN c = Fields /\ c.op = g.op /\ c.arg = g.arg /\ c.contained = g.contained
          /\ c.commit = TRUE /\ c.session = g.session /\ c.sequence = g.sequence
          /\ At(c, "active", 1)
      BY <2>1 DEF Fields, At
    <2> HIDE DEF c
    <2>4. Silent /\ ctl' = c
      BY <1>0, <2>2, <2>3
    <2>5. Turns(ctl, ctl', "active", TRUE, ctl.session, ctl.sequence)
      BY <2>1, <2>3, <2>4, Zenon DEF Turns, Keep
    <2> QED BY <2>2, <2>4, <2>5, Zenon DEF LocalRoute
  <1>3. CASE AbortLow
    <2> DEFINE g == Goto(ctl, "abort", 1)
               c == [g EXCEPT !.commit = FALSE]
    <2>1. DOMAIN g = Fields /\ Keep(ctl, g) /\ At(g, "abort", 1)
      BY GotoFields DEF Sound
    <2>2. Local(c) /\ ctl.pc = "failAbort"
      BY <1>3 DEF AbortLow
    <2> HIDE DEF g
    <2>3. /\ DOMAIN c = Fields /\ c.op = g.op /\ c.arg = g.arg /\ c.contained = g.contained
          /\ c.commit = FALSE /\ c.session = g.session /\ c.sequence = g.sequence
          /\ At(c, "abort", 1)
      BY <2>1 DEF Fields, At
    <2> HIDE DEF c
    <2>4. Silent /\ ctl' = c
      BY <1>0, <2>2, <2>3
    <2>5. Turns(ctl, ctl', "abort", FALSE, ctl.session, ctl.sequence)
      BY <2>1, <2>3, <2>4, Zenon DEF Turns, Keep
    <2> QED BY <2>2, <2>4, <2>5, Zenon DEF LocalRoute
  <1>4. CASE ActivateZeroize
    <2> DEFINE g == Goto(ctl, "zero", 1)
               c == [g EXCEPT !.commit = FALSE, !.state = "ZEROIZE_BUSY"]
    <2>1. DOMAIN g = Fields /\ Keep(ctl, g) /\ At(g, "zero", 1) /\ g.rc = ctl.rc
      BY GotoFields DEF Sound
    <2>2. Local(c) /\ ctl.pc = "failZeroize"
      BY <1>4 DEF ActivateZeroize, ZeroizeLow
    <2> HIDE DEF g
    <2>3. /\ DOMAIN c = Fields /\ c.op = g.op /\ c.arg = g.arg /\ c.contained = g.contained
          /\ c.commit = FALSE /\ c.session = g.session /\ c.sequence = g.sequence
          /\ At(c, "zero", 1) /\ c.rc = g.rc
      BY <2>1 DEF Fields, At
    <2> HIDE DEF c
    <2>4. Silent /\ ctl' = c
      BY <1>0, <2>2, <2>3
    <2>5. Turns(ctl, ctl', "zero", FALSE, ctl.session, ctl.sequence) /\ ctl'.rc = ctl.rc
      BY <2>1, <2>3, <2>4, Zenon DEF Turns, Keep
    <2> QED BY <2>2, <2>4, <2>5, Zenon DEF LocalRoute
  <1>5. CASE ZeroizeState
    <2> DEFINE f == Forget(ctl)
               g == Goto(f, "zeroCode", 1)
               s == IF fatal THEN "FAULT_LOCKED" ELSE "READY_NO_SESSION"
               c == [g EXCEPT !.state = s]
    <2>1. Local(c) /\ ctl.pc = "zeroState"
      BY <1>5 DEF ZeroizeState
    <2>2. /\ DOMAIN f = Fields /\ f.op = ctl.op /\ f.arg = ctl.arg /\ f.rc = ctl.rc
          /\ f.contained = ctl.contained /\ f.commit = ctl.commit /\ f.session = None
          /\ f.sequence = 0
      BY DEF Forget, Sound, Fields
    <2> HIDE DEF f
    <2>3. DOMAIN g = Fields /\ Keep(f, g) /\ At(g, "zeroCode", 1) /\ g.rc = f.rc
      BY <2>2, GotoFields
    <2> HIDE DEF g, s
    <2>4. /\ DOMAIN c = Fields /\ Keep(g, c) /\ At(c, "zeroCode", 1) /\ c.rc = g.rc
      BY <2>3 DEF Fields, At, Keep
    <2> HIDE DEF c
    <2>5. Silent /\ ctl' = c
      BY <1>0, <2>1, <2>4
    <2>6. Turns(ctl, ctl', "zeroCode", ctl.commit, None, 0) /\ ctl'.rc = ctl.rc
      BY <2>2, <2>3, <2>4, <2>5, Zenon DEF Turns, Keep
    <2> QED BY <2>1, <2>5, <2>6, Zenon DEF LocalRoute
  <1>6. CASE ZeroizeCode
    <2> DEFINE l == LatchError(ctl, ctl.rc)
    <2>1. DOMAIN l = Fields /\ Same(ctl, l)
      BY LatchFields DEF Sound
    <2>2. PICK c : /\ Local(c) /\ \/ c = Return(l, ctl.rc)
                                  \/ c = Return(ctl, "FAULT_LOCKED")
                                  \/ c = Return(ctl, ctl.rc)
      BY <1>6 DEF ZeroizeCode
    <2> HIDE DEF l
    <2>3. /\ DOMAIN c = Fields /\ Keep(ctl, c) /\ At(c, "return", 1)
          /\ c.rc = ctl.rc \/ c.rc = "FAULT_LOCKED"
      BY <2>1, <2>2, ExitFields DEF Sound, Same, Keep
    <2>4. Silent /\ ctl' = c
      BY <1>0, <2>2, <2>3
    <2>5. /\ Turns(ctl, ctl', "return", ctl.commit, ctl.session, ctl.sequence)
          /\ ctl'.rc = "OK" => ctl.rc = "OK"
      BY <2>3, <2>4 DEF Turns, Keep
    <2>6. ctl.pc = "zeroCode"
      BY <1>6 DEF ZeroizeCode
    <2> QED BY <2>4, <2>5, <2>6, Zenon DEF LocalRoute
  <1>7. CASE Closed
    <2> DEFINE f == Forget(ctl)
               rc == IF ctl.rc = "OK" /\ fatal THEN "FAULT_LOCKED" ELSE ctl.rc
               g == Return(f, rc)
               c == [g EXCEPT !.state = "READY_NO_SESSION"]
    <2>1. Local(c) /\ ctl.pc = "closed"
      BY <1>7 DEF Closed
    <2>2. /\ DOMAIN f = Fields /\ f.op = ctl.op /\ f.arg = ctl.arg
          /\ f.contained = ctl.contained /\ f.commit = ctl.commit /\ f.session = None
          /\ f.sequence = 0
      BY DEF Forget, Sound, Fields
    <2>3. rc = "OK" => ctl.rc = "OK"
      OBVIOUS
    <2> HIDE DEF f, rc
    <2>4. DOMAIN g = Fields /\ Keep(f, g) /\ At(g, "return", 1) /\ g.rc = rc
      BY <2>2, ExitFields
    <2> HIDE DEF g
    <2>5. DOMAIN c = Fields /\ Keep(g, c) /\ At(c, "return", 1) /\ c.rc = g.rc
      BY <2>4 DEF Fields, At, Keep
    <2> HIDE DEF c
    <2>6. Silent /\ ctl' = c
      BY <1>0, <2>1, <2>5
    <2>7. Turns(ctl, ctl', "return", ctl.commit, None, 0) /\ ctl'.rc = rc
      BY <2>2, <2>4, <2>5, <2>6, Zenon DEF Turns, Keep
    <2> QED BY <2>1, <2>3, <2>6, <2>7, Zenon DEF LocalRoute
  <1> QED BY <1>1, <1>2, <1>3, <1>4, <1>5, <1>6, <1>7

(* The main loop: a command is done, or a fault is contained. *)
FinishRoute ==
  /\ Silent /\ ctl.pc = "return" /\ ctl'.op = "NONE" /\ At(ctl', "idle", 1)
  /\ ctl'.session = ctl.session /\ ctl'.sequence = ctl.sequence /\ ctl'.commit = ctl.commit
  /\ ctl'.contained => ctl.contained

ContainRoute ==
  /\ Silent /\ ctl.pc = "idle" /\ fatal /\ ctl'.op = ctl.op /\ ctl'.pc = "idle"
  /\ ctl'.target = ctl.target /\ ctl'.session = None /\ ctl'.sequence = 0 /\ ctl'.commit = FALSE

(* Finish and ContainTinyFault. *)
LEMMA LoopLeads ==
  ASSUME Sound
  PROVE  /\ Finish => FinishRoute
         /\ ContainTinyFault => ContainRoute
  <1>1. ASSUME Finish
        PROVE  FinishRoute
    <2> DEFINE s == IF ctl.op = "ZEROIZE" /\ ctl.rc = "OK" THEN "READY_NO_SESSION" ELSE ctl.state
               k == ctl.contained /\ ~(ctl.op = "ZEROIZE" /\ ctl.rc = "OK")
               c == [ControllerInit EXCEPT !.session = ctl.session, !.sequence = ctl.sequence,
                                           !.ready = ctl.ready, !.commit = ctl.commit,
                                           !.state = s, !.contained = k]
    <2>1. Local(c) /\ ctl.pc = "return"
      BY <1>1 DEF Finish
    <2>2. k => ctl.contained
      OBVIOUS
    <2> HIDE DEF s, k
    <2>3. /\ DOMAIN c = Fields /\ c.op = "NONE" /\ At(c, "idle", 1) /\ c.session = ctl.session
          /\ c.sequence = ctl.sequence /\ c.commit = ctl.commit /\ c.contained = k
      BY DEF ControllerInit, Fields, At
    <2> HIDE DEF c
    <2>4. Silent /\ ctl' = c
      BY <2>1, <2>3 DEF Local, Silent, DriveSecure
    <2> QED BY <2>1, <2>2, <2>3, <2>4, Zenon DEF FinishRoute
  <1>2. ASSUME ContainTinyFault
        PROVE  ContainRoute
    <2> DEFINE f == Forget(ctl)
               c == [f EXCEPT !.commit = FALSE, !.contained = TRUE, !.state = "FAULT_LOCKED"]
    <2>1. Local(c) /\ ctl.pc = "idle" /\ fatal
      BY <1>2 DEF ContainTinyFault
    <2>2. /\ DOMAIN f = Fields /\ f.op = ctl.op /\ f.pc = ctl.pc /\ f.target = ctl.target
          /\ f.session = None /\ f.sequence = 0
      BY DEF Forget, Sound, Fields
    <2> HIDE DEF f
    <2>3. /\ DOMAIN c = Fields /\ c.op = f.op /\ c.pc = f.pc /\ c.target = f.target
          /\ c.session = None /\ c.sequence = 0 /\ c.commit = FALSE
      BY <2>2 DEF Fields
    <2> HIDE DEF c
    <2>4. Silent /\ ctl' = c
      BY <2>1, <2>3 DEF Local, Silent, DriveSecure
    <2> QED BY <2>1, <2>2, <2>3, <2>4, Zenon DEF ContainRoute
  <1> QED BY <1>1, <1>2

-----------------------------------------------------------------------------
(* The rest of the system. *)

Eased == Moved(p1, p1', "NONE", None) /\ Moved(p2, p2', "NONE", None)

Kept(c, d) == /\ Keep(c, d) /\ d.pc = c.pc /\ d.target = c.target /\ d.sub = c.sub
              /\ d.rc = c.rc /\ d.cache = c.cache

(* A step of a Primer, of the line, of the supervisor or of the clock. *)
WorldRoute ==
  /\ Kept(ctl, ctl') /\ Sound1' /\ Sound2(p2') /\ Eased
  /\ secure' = secure \/ secure' = (ctl.commit /\ enable')
  /\ trouble' = trouble \/ trouble' = trouble + 1

(* A Primer that does nothing is eased. *)
LEMMA StillMoves ==
  ASSUME NEW p, NEW cmd, NEW arg
  PROVE  Moved(p, p, cmd, arg)
  BY DEF Moved

(* Every step outside the controller. *)
LEMMA WorldLeads ==
  ASSUME Sound, DeadlinePasses \/ P1Step \/ P2Step \/ UartStep \/ TinyStep \/ ResetStep
  PROVE  WorldRoute
  <1>0. Kept(ctl, ctl) /\ Sound1 /\ Sound2(p2)
    BY DEF Kept, Keep, Sound
  <1>T. trouble' = trouble \/ trouble' = trouble + 1
    BY DEF DeadlinePasses, P1Step, P2Step, UartStep, TinyStep, TinyFaults, TinyDisturbed,
           TinyRecovers, ResetStep, Hurt, Suffer
  <1>1. CASE DeadlinePasses
    <2>1. UNCHANGED <<p1, p2, secure>> /\ ctl' = [ctl EXCEPT !.late = TRUE]
      BY <1>1 DEF DeadlinePasses, p1vars, p2vars, nets
    <2>2. Kept(ctl, ctl')
      BY <2>1 DEF Kept, Keep, Sound, Fields
    <2> QED BY <1>0, <1>T, <2>1, <2>2, StillMoves DEF WorldRoute, Eased, Sound1
  <1>2. CASE P1Step
    <2>1. P1Moved("NONE", None) /\ UNCHANGED nets
      BY <1>0, <1>2, P1EngineMoves DEF P1Step
    <2>2. p2' = p2 /\ ctl' = ctl
      BY <1>2 DEF P1Step, p2vars
    <2> QED BY <1>0, <1>T, <2>1, <2>2, StillMoves DEF WorldRoute, Eased, P1Moved, nets
  <1>3. CASE P2Step
    <2>1. Sound2(p2') /\ Moved(p2, p2', "NONE", None) /\ UNCHANGED nets
      <3>1. CASE P2Engine
        BY <1>0, <3>1, P2EngineMoves
      <3>2. CASE P2Receive(None)
        BY <1>0, <3>2, ProgressMoves DEF P2Receive, P2Moved
      <3> QED BY <1>3, <3>1, <3>2 DEF P2Step
    <2>2. p1' = p1 /\ ctl' = ctl
      BY <1>3 DEF P2Step, p1vars
    <2> QED BY <1>0, <1>T, <2>1, <2>2, StillMoves DEF WorldRoute, Eased, Sound1, nets
  <1>4. CASE UartStep
    <2>1. Sound2(p2') /\ Moved(p2, p2', "NONE", None) /\ UNCHANGED nets
      <3>1. CASE \E f : P2Receive(f)
        BY <1>0, <3>1, ProgressMoves DEF P2Receive, P2Moved
      <3>2. CASE UNCHANGED <<nets, reply, p2vars>>
        BY <1>0, <3>2, StillMoves DEF p2vars
      <3> QED BY <1>4, <3>1, <3>2 DEF UartStep
    <2>2. p1' = p1 /\ ctl' = ctl
      BY <1>4 DEF UartStep
    <2> QED BY <1>0, <1>T, <2>1, <2>2, StillMoves DEF WorldRoute, Eased, Sound1, nets
  <1>5. CASE TinyStep
    <2>1. UNCHANGED <<p1, p2, ctl>> /\ secure' = (ctl.commit /\ enable')
      BY <1>5 DEF TinyStep, DriveSecure, p1vars, p2vars
    <2> QED BY <1>0, <1>T, <2>1, StillMoves DEF WorldRoute, Eased, Sound1
  <1>6. CASE ResetStep
    <2>1. CASE P1PowerCycle /\ P1Record /\ UNCHANGED p2vars
      <3>1. P1Moved("NONE", None) /\ UNCHANGED nets
        BY <2>1, P1ResetMoves
      <3> QED BY <1>0, <1>T, <1>6, <2>1, <3>1, StillMoves
              DEF ResetStep, WorldRoute, Eased, P1Moved, nets, p2vars
    <2>2. CASE P2PowerCycle /\ UNCHANGED p1vars
      <3>1. Sound2(p2') /\ Moved(p2, p2', "NONE", None) /\ UNCHANGED nets
        BY <2>2, P2ResetMoves
      <3> QED BY <1>0, <1>T, <1>6, <2>2, <3>1, StillMoves
              DEF ResetStep, WorldRoute, Eased, Sound1, nets, p1vars
    <2> QED BY <1>6, <2>1, <2>2 DEF ResetStep
  <1> QED BY <1>1, <1>2, <1>3, <1>4, <1>5, <1>6

(* The steps of the controller. *)
ControllerRoute ==
  \/ StageRoute \/ ExecuteRoute \/ StatusRoute \/ InfoRoute \/ AbortRoute \/ CloseRoute
  \/ SendRoute \/ StartRoute \/ LocalRoute \/ FinishRoute \/ ContainRoute

(* The next-state relation as routes. *)
LEMMA Routes ==
  ASSUME Sound
  PROVE  /\ Start \/ ContainTinyFault \/ Continue => ControllerRoute
         /\ SysNext => ControllerRoute \/ WorldRoute
  <1>1. Continue => ControllerRoute
    BY StageLeads, RequestRoute, PollRoute, FinalRoute, RetireRoute, GetStatusRoute,
       GetInfoRoute, AbortLeads, CloseLeads, RxStatusLeads, LoadLeads, ArriveLeads,
       ReadLeads, AckLeads, LocalLeads, LoopLeads DEF Continue, ControllerRoute
  <1>2. Start \/ ContainTinyFault => ControllerRoute
    BY StartLeads, LoopLeads DEF ControllerRoute
  <1>3. DeadlinePasses \/ P1Step \/ P2Step \/ UartStep \/ TinyStep \/ ResetStep => WorldRoute
    BY WorldLeads
  <1> QED BY <1>1, <1>2, <1>3 DEF SysNext

(* An exchange of the controller. *)
Exchanges ==
  \E t, cmd, arg, rc :
    /\ t \in Targets /\ Served(t, cmd, arg, rc)
    /\ ctl'.commit = ctl.commit /\ ctl'.contained = ctl.contained

(* What an exchange does to the two Primers. *)
LEMMA ServedMoves ==
  ASSUME Sound, NEW t, NEW cmd, NEW arg, NEW rc, Served(t, cmd, arg, rc)
  PROVE  /\ p1' = p1 \/ (t = 1 /\ Moved(p1, p1', cmd, arg))
         /\ p2' = p2 \/ (t = 2 /\ Moved(p2, p2', cmd, arg))
         /\ Sound1' /\ Sound2(p2') /\ secure' = secure
         /\ cmd \notin {"STAGE_SESSION", "COMMIT_SESSION"} => Eased
  <1>1. /\ p1' = p1 \/ (t = 1 /\ Moved(p1, p1', cmd, arg))
        /\ p2' = p2 \/ (t = 2 /\ Moved(p2, p2', cmd, arg))
    BY DEF Served, Answering, P1Answered, P2Answered, P1Moved, P2Moved, p1vars, p2vars
  <1>2. \A p, d : cmd \notin {"STAGE_SESSION", "COMMIT_SESSION"} /\ Moved(p, d, cmd, arg)
                    => Moved(p, d, "NONE", None)
    BY DEF Moved
  <1> QED BY <1>1, <1>2, StillMoves DEF Served, Eased, nets

-----------------------------------------------------------------------------
(* The controller's own invariant. *)

(* The commit line is high only from the end of an activation on, and       *)
(* exactly then the controller has a session.                               *)
ControlInv ==
  /\ DOMAIN ctl = Fields /\ ctl.target \in Targets
  /\ Program(ctl.op, ctl.pc)
  /\ secure => ctl.commit
  /\ ctl.op = "ACTIVATE" => ctl.arg \in Material
  /\ ctl.pc \in Establishing \cup Clearing \cup Closing => ~ctl.commit
  /\ ctl.pc = "active" => ctl.commit
  /\ ctl.pc = "zeroCode" => ctl.session = None
  /\ ctl.op = "ACTIVATE" /\ ctl.pc = "return" =>
       \/ ctl.commit /\ ctl.session = ctl.arg /\ ctl.sequence = 0 /\ ctl.rc = "OK"
       \/ ~ctl.commit /\ ctl.session = None
  /\ ctl.op \in {"ZEROIZE", "CLOSE"} => ~ctl.commit
  /\ ctl.op \in {"ZEROIZE", "CLOSE"} /\ ctl.pc = "return" => ctl.session = None
  /\ ctl.op # "ACTIVATE" /\ ctl.commit => ctl.session # None
  /\ ctl.op # "ACTIVATE" /\ ctl.session # None => ctl.session \in Material

(* A step within one command that keeps the session and the commit line.    *)
LEMMA ControlKeeps ==
  ASSUME ControlInv, Keep(ctl, ctl'), ctl'.target \in Targets, secure' = secure,
         Program(ctl.op, ctl'.pc),
         ctl'.pc \in Establishing \cup Clearing \cup Closing =>
           ctl.pc \in Establishing \cup Clearing \cup Closing,
         ctl'.pc = "active" => ctl.pc = "active",
         ctl'.pc = "zeroCode" => ctl.pc = "zeroCode",
         ctl'.pc = "return" => \/ ctl.op \notin {"ACTIVATE", "ZEROIZE", "CLOSE"}
                               \/ ctl.pc = "return" /\ ctl'.rc = ctl.rc
  PROVE  ControlInv'
  BY DEF ControlInv, Keep

(* Every route keeps it. *)
LEMMA ControlStep ==
  ASSUME Sound1, Sound2(p2), ControlInv, SysNext
  PROVE  ControlInv'
  <1>0. Sound
    BY DEF Sound, ControlInv
  <1>S. \A t, cmd, arg, rc : Served(t, cmd, arg, rc) => secure' = secure
    BY <1>0, ServedMoves
  <1> USE DEF Program, Establishing, Released, Clearing, Closing, Sending
  <1>1. CASE StageRoute
    <2>1. /\ ctl.pc = "stage" /\ Keep(ctl, ctl') /\ secure' = secure /\ ctl'.target \in Targets
          /\ ctl'.pc \in {"failAbort", "stage", "staged"}
      BY <1>1, <1>S DEF StageRoute, At, ControlInv, Targets
    <2> QED BY <2>1, ControlKeeps DEF ControlInv
  <1>2. CASE ExecuteRoute
    <2>1. PICK code : Stays(ctl, ctl') \/ EndsAt(ctl, ctl', code)
      BY <1>2 DEF ExecuteRoute
    <2>2. ctl.pc \in {"commit", "test", "zero", "encrypt"} /\ secure' = secure
      BY <1>2, <1>S DEF ExecuteRoute, RetainedLabels
    <2>3. CASE Stays(ctl, ctl')
      BY <2>2, <2>3, ControlKeeps DEF Stays, ControlInv
    <2>4. CASE EndsAt(ctl, ctl', code)
      <3>1. /\ Keep(ctl, ctl') /\ ctl'.target \in Targets
            /\ ctl.pc = "commit" => ctl'.pc \in {"failAbort", "commit", "blocked"}
            /\ ctl.pc = "test" => ctl'.pc \in {"return", "test", "refresh"}
            /\ ctl.pc = "zero" => ctl'.pc \in {"zero", "zeroState"}
            /\ ctl.pc = "encrypt" => ctl'.pc \in {"return", "arrive"}
        BY <2>2, <2>4 DEF EndsAt, At, Targets, ControlInv
      <3> QED BY <2>2, <3>1, ControlKeeps DEF ControlInv
    <2> QED BY <2>1, <2>3, <2>4
  <1>3. CASE StatusRoute
    <2>1. /\ secure' = secure /\ ctl.pc \in {"staged", "blocked", "active", "refresh", "probe"}
          /\ \/ FailsAt(ctl, ctl') \/ Halfway(ctl, ctl', Status(1))
             \/ Concludes(ctl, ctl', Status(2))
      BY <1>3, <1>S DEF StatusRoute, Awaited
    <2>2. CASE FailsAt(ctl, ctl')
      <3>1. /\ Keep(ctl, ctl') /\ ctl'.target \in Targets
            /\ ctl.pc \in {"staged", "blocked"} => ctl'.pc = "failAbort"
            /\ ctl.pc = "active" => ctl'.pc = "failZeroize"
            /\ ctl.pc \in {"refresh", "probe"} => ctl'.pc = "return"
        BY <2>1, <2>2 DEF FailsAt, At, Targets
      <3> QED BY <2>1, <3>1, ControlKeeps DEF ControlInv
    <2>3. CASE Halfway(ctl, ctl', Status(1))
      <3>1. /\ Keep(ctl, ctl') /\ ctl'.target \in Targets
            /\ ctl'.pc = ctl.pc \/ (ctl.pc = "probe" /\ ctl'.pc = "info")
        BY <2>3 DEF Halfway, Targets
      <3> QED BY <2>1, <3>1, ControlKeeps DEF ControlInv
    <2>4. CASE ctl.pc = "active" /\ Installs(ctl, ctl')
      <3>1. ctl.op = "ACTIVATE" /\ ctl.commit /\ ctl.arg \in Material
        BY <2>4 DEF ControlInv
      <3> QED BY <2>1, <2>4, <3>1 DEF ControlInv, Installs, At, Targets
    <2>5. CASE /\ Keep(ctl, ctl') /\ ctl'.target \in Targets
               /\ \/ ctl.pc \in {"refresh", "probe"} /\ ctl'.pc = "return"
                  \/ ctl.pc \in Awaited /\ ctl'.pc = ctl.pc
                  \/ ctl.pc = "staged" /\ ctl'.pc = "commit"
                  \/ ctl.pc = "blocked" /\ ctl'.pc = "high"
      BY <2>1, <2>5, ControlKeeps DEF ControlInv, Awaited
    <2> QED BY <2>1, <2>2, <2>3, <2>4, <2>5 DEF Concludes, At, Targets
  <1>4. CASE InfoRoute
    <2>1. /\ ctl.pc = "info" /\ Keep(ctl, ctl') /\ secure' = secure /\ ctl'.target \in Targets
          /\ ctl'.pc \in {"probe", "return"}
      BY <1>4, <1>S DEF InfoRoute, At, ControlInv, Targets
    <2> QED BY <2>1, ControlKeeps DEF ControlInv
  <1>5. CASE AbortRoute
    <2>1. /\ ctl.pc = "abort" /\ Keep(ctl, ctl') /\ secure' = secure /\ ctl'.target \in Targets
          /\ ctl'.pc \in {"abort", "failZeroize"}
      BY <1>5, <1>S DEF AbortRoute, At, ControlInv, Targets
    <2> QED BY <2>1, ControlKeeps DEF ControlInv
  <1>6. CASE CloseRoute
    <2>1. /\ ctl.pc = "close" /\ Keep(ctl, ctl') /\ secure' = secure /\ ctl'.target \in Targets
          /\ ctl'.pc \in {"close", "closed"}
      BY <1>6, <1>S DEF CloseRoute, At, ControlInv, Targets
    <2> QED BY <2>1, ControlKeeps DEF ControlInv
  <1>7. CASE SendRoute
    <2>1. /\ ctl.pc \in {"rx", "load", "arrive", "read", "ack"} /\ secure' = secure
          /\ ctl'.target \in Targets
          /\ ctl'.pc \in {"return", "load", "encrypt", "arrive", "read", "ack"}
          /\ Keep(ctl, ctl') \/ (Counts(ctl, ctl') /\ ctl'.pc = "return")
      BY <1>7, <1>S DEF SendRoute, At, Targets
    <2>2. ctl.op = "SEND"
      BY <2>1 DEF ControlInv
    <2>3. CASE Keep(ctl, ctl')
      BY <2>1, <2>2, <2>3, ControlKeeps
    <2>4. CASE Counts(ctl, ctl') /\ ctl'.pc = "return"
      BY <2>1, <2>2, <2>4 DEF Counts, ControlInv
    <2> QED BY <2>1, <2>3, <2>4
  <1>8. CASE StartRoute
    <2>1. ctl.op = "NONE"
      BY <1>8 DEF StartRoute, ControlInv
    <2>2. secure' => ctl'.commit
      BY <1>8, Zenon DEF StartRoute, Silent
    <2> QED BY <1>8, <2>1, <2>2 DEF StartRoute, Silent, ControlInv
  <1>9. CASE LocalRoute
    <2>1. (secure' => ctl'.commit) /\ DOMAIN ctl' = Fields
      BY <1>9, Zenon DEF LocalRoute, Silent
    <2>2. ctl'.target \in Targets /\ ctl'.op = ctl.op /\ ctl'.arg = ctl.arg
      BY <1>9 DEF LocalRoute, Turns, At, Targets
    <2>3. CASE /\ ctl.pc \in {"tiny", "failAbort", "failZeroize", "zeroState"}
               /\ ctl'.pc \in {"failAbort", "stage", "abort", "zero", "zeroCode"}
               /\ ~ctl'.commit
               /\ ctl'.session = ctl.session \/ ctl'.session = None
               /\ ctl'.pc = "zeroCode" => ctl'.session = None
               /\ ctl.pc = "zeroState" => ctl'.pc = "zeroCode"
               /\ ctl.pc = "failAbort" => ctl'.pc = "abort"
               /\ ctl.pc = "tiny" => ctl'.pc \in {"stage", "failAbort"}
               /\ ctl.pc = "failZeroize" => ctl'.pc = "zero"
      BY <2>1, <2>2, <2>3 DEF ControlInv
    <2>4. CASE ctl.pc = "high" /\ Turns(ctl, ctl', "active", TRUE, ctl.session, ctl.sequence)
      BY <2>1, <2>2, <2>4 DEF ControlInv, Turns, At
    <2>5. CASE ctl.pc = "zeroCode"
      <3>1. Turns(ctl, ctl', "return", ctl.commit, ctl.session, ctl.sequence)
        BY <1>9, <2>5 DEF LocalRoute
      <3> QED BY <2>1, <2>2, <2>5, <3>1 DEF ControlInv, Turns, At
    <2>6. CASE ctl.pc = "closed"
      <3>1. Turns(ctl, ctl', "return", ctl.commit, None, 0)
        BY <1>9, <2>6 DEF LocalRoute
      <3> QED BY <2>1, <2>2, <2>6, <3>1 DEF ControlInv, Turns, At
    <2> QED BY <1>9, <2>3, <2>4, <2>5, <2>6 DEF LocalRoute, Turns, At, ControlInv
  <1>10. CASE FinishRoute
    <2>1. secure' => ctl'.commit
      BY <1>10, Zenon DEF FinishRoute, Silent
    <2>2. None \notin Material
      BY SystemAssumption DEF SystemAssumption
    <2> QED BY <1>10, <2>1, <2>2 DEF FinishRoute, Silent, ControlInv, At, Targets
  <1>11. CASE ContainRoute
    <2>1. secure' => ctl'.commit
      BY <1>11, Zenon DEF ContainRoute, Silent
    <2> QED BY <1>11, <2>1 DEF ContainRoute, Silent, ControlInv
  <1>12. CASE WorldRoute
    <2>1. secure' => ctl.commit
      BY <1>12, Zenon DEF WorldRoute, ControlInv
    <2> QED BY <1>12, <2>1 DEF WorldRoute, Kept, Keep, ControlInv
  <1> QED BY <1>0, <1>1, <1>2, <1>3, <1>4, <1>5, <1>6, <1>7, <1>8, <1>9, <1>10, <1>11,
             <1>12, Routes DEF ControllerRoute

-----------------------------------------------------------------------------
(* The sessions the Primers hold. *)

Holds(p, m) == /\ p.session = "STAGED" => p.staged = m
               /\ p.session \in Live => p.active = m

Uses(p, m) == p.session # "STAGED" /\ (p.session \in Live => p.active = m)

(* An activation first makes sure of what each Primer would be released     *)
(* into, then that it could be released into nothing else; once it is over, *)
(* neither of them waits for a release any more.                            *)
SessionInv ==
  /\ ctl.pc = "stage" /\ ctl.target = 2 => Holds(p1, ctl.arg)
  /\ ctl.pc \in {"staged", "commit", "blocked"} => Holds(p1, ctl.arg) /\ Holds(p2, ctl.arg)
  /\ ctl.pc = "blocked" /\ ctl.target = 2 /\ ctl.cache.session = "COMMITTED_BLOCKED" =>
       Uses(p1, ctl.arg)
  /\ ctl.pc = "high" \/ (ctl.op = "ACTIVATE" /\ ctl.commit) =>
       Uses(p1, ctl.arg) /\ Uses(p2, ctl.arg)
  /\ ctl.pc = "active" /\ ctl.target = 2 /\ ctl.cache.session = "ACTIVE" => Gone(p1)
  /\ ctl.op = "ACTIVATE" /\ ctl.pc = "return" /\ ctl.commit => Gone(p1) /\ Gone(p2)
  /\ ctl.op # "ACTIVATE" /\ ctl.session # None =>
       /\ Gone(p1) /\ Gone(p2) /\ Uses(p1, ctl.session) /\ Uses(p2, ctl.session)

(* Only STAGE_SESSION brings other material into a Primer. *)
LEMMA HoldsStable ==
  ASSUME NEW p, NEW d, NEW cmd, NEW arg, Moved(p, d, cmd, arg), cmd # "STAGE_SESSION",
         NEW m, Holds(p, m)
  PROVE  Holds(d, m)
  BY DEF Moved, Holds, Live

(* Without STAGE and COMMIT a Primer can only lose a session or be released.*)
LEMMA EasedStable ==
  ASSUME NEW p, NEW d, Moved(p, d, "NONE", None)
  PROVE  /\ Gone(p) => Gone(d)
         /\ p.session = "ACTIVE" => Gone(d)
         /\ \A m : Uses(p, m) => Uses(d, m)
         /\ \A m : p.session = "COMMITTED_BLOCKED" /\ Holds(p, m) => Uses(d, m)
         /\ \A m : Holds(p, m) => Holds(d, m)
  BY DEF Moved, Holds, Uses, Gone, Live

(* A step of a command that changes no label of an activation. *)
LEMMA SessionKeeps ==
  ASSUME SessionInv, Eased, Keep(ctl, ctl'),
         ctl'.pc = "stage" => ctl.pc = "stage" /\ ctl'.target = ctl.target,
         ctl'.pc \in {"staged", "commit", "blocked"} =>
           ctl.pc \in {"staged", "commit", "blocked"},
         ctl'.pc \in {"blocked", "active"} /\ ctl'.target = 2 =>
           ctl.pc = ctl'.pc /\ ctl.target = 2 /\ ctl'.cache = ctl.cache,
         ctl'.pc = "high" => ctl.pc = "high",
         ctl'.pc = "return" /\ ctl'.op = "ACTIVATE" /\ ctl'.commit => ctl.pc = "return"
  PROVE  SessionInv'
  <1>1. /\ Gone(p1) => Gone(p1')
        /\ \A m : Uses(p1, m) => Uses(p1', m)
        /\ \A m : Holds(p1, m) => Holds(p1', m)
    BY EasedStable DEF Eased
  <1>2. /\ Gone(p2) => Gone(p2')
        /\ \A m : Uses(p2, m) => Uses(p2', m)
        /\ \A m : Holds(p2, m) => Holds(p2', m)
    BY EasedStable DEF Eased
  <1> QED BY <1>1, <1>2 DEF SessionInv, Keep

(* Every route keeps it. *)
LEMMA SessionStep ==
  ASSUME Sound1, Sound2(p2), ControlInv, SessionInv, SysNext
  PROVE  SessionInv'
  <1>0. Sound
    BY DEF Sound, ControlInv
  <1>C. ControlInv'
    BY ControlStep
  <1>S. \A t, cmd, arg, rc :
          Served(t, cmd, arg, rc) /\ cmd \notin {"STAGE_SESSION", "COMMIT_SESSION"} => Eased
    BY <1>0, ServedMoves
  <1>P. Program(ctl.op, ctl.pc) /\ Program(ctl'.op, ctl'.pc)
    BY <1>C DEF ControlInv
  <1>E. /\ Eased /\ Gone(p1) => Gone(p1')
        /\ Eased /\ Gone(p2) => Gone(p2')
        /\ Eased /\ p1.session = "ACTIVE" => Gone(p1')
        /\ Eased /\ p2.session = "ACTIVE" => Gone(p2')
        /\ \A m : Eased /\ Uses(p1, m) => Uses(p1', m)
        /\ \A m : Eased /\ Uses(p2, m) => Uses(p2', m)
        /\ \A m : Eased /\ p1.session = "COMMITTED_BLOCKED" /\ Holds(p1, m) => Uses(p1', m)
        /\ \A m : Eased /\ p2.session = "COMMITTED_BLOCKED" /\ Holds(p2, m) => Uses(p2', m)
        /\ \A m : Eased /\ Holds(p1, m) => Holds(p1', m)
        /\ \A m : Eased /\ Holds(p2, m) => Holds(p2', m)
    BY EasedStable DEF Eased
  <1> USE DEF Program, Establishing, Released, Clearing, Closing, Sending
  <1>1. CASE StageRoute
    <2>1. PICK rc : /\ ctl.pc = "stage" /\ Served(ctl.target, "STAGE_SESSION", ctl.arg, rc)
                    /\ Keep(ctl, ctl')
                    /\ rc # "OK" => At(ctl', "failAbort", 1)
                    /\ rc = "OK" /\ ctl.target = 1 => At(ctl', "stage", 2)
                    /\ rc = "OK" /\ ctl.target = 2 => At(ctl', "staged", 1)
      BY <1>1 DEF StageRoute
    <2>2. ctl.op = "ACTIVATE" /\ ~ctl.commit /\ ctl.target \in {1, 2}
      BY <2>1 DEF ControlInv, Targets
    <2>3. CASE rc # "OK"
      BY <2>1, <2>2, <2>3 DEF SessionInv, Keep, At
    <2>4. CASE rc = "OK" /\ ctl.target = 1
      <3>1. P1Answered("STAGE_SESSION", ctl.arg) /\ reply' = "OK"
        BY <2>1, <2>4 DEF Served, Answering
      <3>2. Holds(p1', ctl.arg)
        BY <3>1 DEF P1Answered, Answered, Holds
      <3> QED BY <2>1, <2>2, <2>4, <3>2 DEF SessionInv, Keep, At
    <2>5. CASE rc = "OK" /\ ctl.target = 2
      <3>1. P2Answered("STAGE_SESSION", ctl.arg) /\ reply' = "OK" /\ p1' = p1
        BY <2>1, <2>5 DEF Served, Answering, p1vars
      <3>2. Holds(p2', ctl.arg)
        BY <3>1 DEF P2Answered, Answered, Holds
      <3> QED BY <2>1, <2>2, <2>5, <3>1, <3>2 DEF SessionInv, Keep, At
    <2> QED BY <2>2, <2>3, <2>4, <2>5
  <1>2. CASE ExecuteRoute
    <2>1. PICK cmd, arg, rc, code :
             /\ ctl.pc \in RetainedLabels /\ Served(ctl.target, cmd, arg, rc)
             /\ cmd \in {Command[ctl.pc], "GET_TXN_RESULT", "RETIRE_TXN_RESULT"}
             /\ Stays(ctl, ctl') \/ EndsAt(ctl, ctl', code)
      BY <1>2 DEF ExecuteRoute
    <2>2. CASE ctl.pc = "commit"
      <3>1. /\ ctl.op = "ACTIVATE" /\ ~ctl.commit /\ ctl.target \in {1, 2}
            /\ Holds(p1, ctl.arg) /\ Holds(p2, ctl.arg)
        BY <2>2 DEF ControlInv, SessionInv, Targets
      <3>2. cmd # "STAGE_SESSION"
        BY <2>1, <2>2 DEF Command
      <3>3. Holds(p1', ctl.arg) /\ Holds(p2', ctl.arg)
        BY <1>0, <2>1, <3>1, <3>2, ServedMoves, HoldsStable
      <3>4. /\ Keep(ctl, ctl')
            /\ \/ ctl'.pc = "commit" \/ ctl'.pc = "failAbort"
               \/ ctl'.pc = "blocked" /\ ctl'.target = 1
        BY <2>1, <2>2, <3>1 DEF Stays, EndsAt, At
      <3> QED BY <3>1, <3>3, <3>4 DEF SessionInv, Keep
    <2>3. CASE ctl.pc # "commit"
      <3>1. cmd \notin {"STAGE_SESSION", "COMMIT_SESSION"}
        BY <2>1, <2>3 DEF Command, RetainedLabels
      <3>2. /\ Keep(ctl, ctl')
            /\ ctl'.pc \in {"test", "zero", "encrypt", "return", "refresh", "zeroState", "arrive"}
            /\ ctl.pc = "zero" => ctl'.pc \in {"zero", "zeroState"}
        BY <2>1, <2>3 DEF Stays, EndsAt, At, ControlInv, Targets, RetainedLabels
      <3>3. ctl'.pc = "return" => ctl'.op # "ACTIVATE"
        BY <1>P, <2>1, <2>3, <3>2 DEF Keep, RetainedLabels
      <3> QED BY <1>S, <2>1, <3>1, <3>2, <3>3, SessionKeeps
    <2> QED BY <2>2, <2>3
  <1>3. CASE StatusRoute
    <2>1. PICK rc : /\ Served(ctl.target, "GET_STATUS", None, rc)
                    /\ ctl.pc \in Awaited \cup {"refresh", "probe"}
                    /\ \/ FailsAt(ctl, ctl')
                       \/ ctl.target = 1 /\ Halfway(ctl, ctl', Status(1))
                       \/ ctl.target = 2 /\ Concludes(ctl, ctl', Status(2))
      BY <1>3 DEF StatusRoute
    <2>2. Eased /\ Status(1).session = p1.session /\ Status(2).session = p2.session
      BY <1>S, <2>1 DEF Status
    <2> DEFINE s1 == Status(1)
               s2 == Status(2)
    <2> HIDE DEF s1, s2
    <2>3. CASE FailsAt(ctl, ctl')
      <3>1. /\ Keep(ctl, ctl') /\ ctl'.pc \in {"failAbort", "failZeroize", "return"}
            /\ ctl'.pc = "return" => ctl.pc \in {"refresh", "probe"}
        BY <2>1, <2>3 DEF FailsAt, At, Awaited
      <3>2. ctl'.pc = "return" => ctl'.op # "ACTIVATE"
        BY <1>P, <3>1 DEF Keep
      <3> QED BY <2>2, <3>1, <3>2, SessionKeeps
    <2>4. CASE ctl.target = 1 /\ Halfway(ctl, ctl', s1)
      <3>1. /\ Keep(ctl, ctl') /\ ctl'.cache.session = p1.session /\ ctl'.target = 2
            /\ ctl'.pc = IF ctl.pc = "probe" THEN "info" ELSE ctl.pc
        BY <2>2, <2>4 DEF Halfway, s1
      <3>2. CASE ctl'.pc \in Awaited
        BY <1>E, <2>1, <2>2, <3>1, <3>2 DEF SessionInv, Keep, Awaited
      <3>3. CASE ctl'.pc \in {"refresh", "info"}
        BY <2>2, <3>1, <3>3, SessionKeeps
      <3> QED BY <2>1, <3>1, <3>2, <3>3 DEF Awaited
    <2>5. CASE ctl.target = 2 /\ Concludes(ctl, ctl', s2)
      <3>1. CASE /\ ctl.pc \in {"refresh", "probe"} /\ Keep(ctl, ctl')
                 /\ At(ctl', "return", 1)
        <4>1. ctl'.op # "ACTIVATE"
          BY <1>P, <3>1 DEF Keep
        <4> QED BY <2>2, <3>1, <4>1, SessionKeeps DEF At
      <3>2. CASE ctl.pc \in Awaited /\ Keep(ctl, ctl') /\ At(ctl', ctl.pc, 1)
        BY <2>2, <3>2, SessionKeeps DEF At, Awaited
      <3>3. CASE ctl.pc = "staged" /\ Keep(ctl, ctl') /\ At(ctl', "commit", 1)
        BY <2>2, <3>3, SessionKeeps DEF At
      <3>4. CASE /\ ctl.pc = "blocked" /\ Keep(ctl, ctl') /\ At(ctl', "high", 1)
                 /\ ctl.cache.session = "COMMITTED_BLOCKED"
                 /\ s2.session = "COMMITTED_BLOCKED"
        <4>1. Uses(p1, ctl.arg) /\ Holds(p2, ctl.arg) /\ ctl.op = "ACTIVATE"
          BY <2>5, <3>4 DEF SessionInv, ControlInv
        <4>2. Uses(p1', ctl.arg) /\ Uses(p2', ctl.arg)
          BY <1>E, <2>2, <3>4, <4>1 DEF s2
        <4> QED BY <3>4, <4>1, <4>2 DEF SessionInv, Keep, At
      <3>5. CASE /\ ctl.pc = "active" /\ Installs(ctl, ctl')
                 /\ ctl.cache.session = "ACTIVE" /\ s2.session = "ACTIVE"
        <4>1. /\ Uses(p1, ctl.arg) /\ Uses(p2, ctl.arg) /\ ctl.op = "ACTIVATE" /\ Gone(p1)
          BY <2>5, <3>5 DEF SessionInv, ControlInv
        <4>2. Uses(p1', ctl.arg) /\ Uses(p2', ctl.arg) /\ Gone(p1') /\ Gone(p2')
          BY <1>E, <2>2, <3>5, <4>1 DEF s2
        <4> QED BY <3>5, <4>1, <4>2 DEF SessionInv, Installs, At
      <3>6. /\ Expected["staged"] = "STAGED" /\ Expected["blocked"] = "COMMITTED_BLOCKED"
            /\ Expected["active"] = "ACTIVE"
        BY DEF Expected
      <3> QED BY <2>3, <2>5, <3>1, <3>2, <3>3, <3>4, <3>5, <3>6 DEF Concludes
    <2> QED BY <2>1, <2>3, <2>4, <2>5 DEF s1, s2
  <1>4. CASE InfoRoute
    <2>1. Eased /\ Keep(ctl, ctl') /\ ctl'.pc \in {"probe", "return"} /\ ctl.pc = "info"
      BY <1>4, <1>S DEF InfoRoute, At
    <2>2. ctl'.op # "ACTIVATE"
      BY <1>P, <2>1 DEF Keep
    <2> QED BY <2>1, <2>2, SessionKeeps
  <1>5. CASE AbortRoute
    <2>1. Eased /\ Keep(ctl, ctl') /\ ctl'.pc \in {"abort", "failZeroize"}
      BY <1>5, <1>S DEF AbortRoute, At, ControlInv, Targets
    <2> QED BY <2>1, SessionKeeps
  <1>6. CASE CloseRoute
    <2>1. Eased /\ Keep(ctl, ctl') /\ ctl'.pc \in {"close", "closed"}
      BY <1>6, <1>S DEF CloseRoute, At, ControlInv, Targets
    <2> QED BY <2>1, SessionKeeps
  <1>7. CASE SendRoute
    <2>1. /\ ctl.pc \in {"rx", "load", "arrive", "read", "ack"} /\ Eased
          /\ ctl'.pc \in {"return", "load", "encrypt", "arrive", "read", "ack"}
          /\ Keep(ctl, ctl') \/ (Counts(ctl, ctl') /\ ctl'.pc = "return")
      BY <1>7, <1>S DEF SendRoute, At
    <2>2. ctl.op = "SEND"
      BY <1>P, <2>1
    <2>3. CASE Keep(ctl, ctl')
      <3>1. ctl'.op # "ACTIVATE"
        BY <2>2, <2>3 DEF Keep
      <3> QED BY <2>1, <2>3, <3>1, SessionKeeps
    <2>4. CASE Counts(ctl, ctl') /\ ctl'.pc = "return"
      BY <1>E, <2>1, <2>2, <2>4 DEF Counts, SessionInv
    <2> QED BY <2>1, <2>3, <2>4
  <1>8. CASE StartRoute
    <2>1. ctl.op = "NONE" /\ p1' = p1 /\ p2' = p2
      BY <1>8, <1>P DEF StartRoute, Silent, p1vars, p2vars
    <2> QED BY <1>8, <2>1 DEF StartRoute, SessionInv
  <1>9. CASE LocalRoute
    <2>1. p1' = p1 /\ p2' = p2 /\ ctl'.op = ctl.op /\ ctl'.arg = ctl.arg
      BY <1>9 DEF LocalRoute, Silent, p1vars, p2vars, Turns
    <2>2. CASE ctl.pc \in {"tiny", "failAbort", "failZeroize"}
      <3>1. /\ ctl'.pc \in {"failAbort", "stage", "abort", "zero"} /\ ~ctl'.commit
            /\ ctl'.target = 1 /\ ctl'.op = "ACTIVATE"
        BY <1>9, <1>P, <1>C, <2>1, <2>2 DEF LocalRoute, Turns, At, ControlInv
      <3> QED BY <2>1, <3>1 DEF SessionInv
    <2>3. CASE ctl.pc = "high"
      <3>1. ctl'.pc = "active" /\ ctl'.target = 1 /\ ctl.op = "ACTIVATE"
        BY <1>9, <1>P, <2>3 DEF LocalRoute, Turns, At
      <3> QED BY <2>1, <2>3, <3>1 DEF SessionInv
    <2>4. CASE ctl.pc \in {"zeroState", "zeroCode", "closed"}
      <3>1. /\ ctl'.pc \in {"zeroCode", "return"} /\ ~ctl'.commit
            /\ ctl'.session = None \/ ctl'.session = ctl.session
        BY <1>9, <1>P, <1>C, <2>1, <2>4 DEF LocalRoute, Turns, At, ControlInv
      <3> QED BY <2>1, <3>1 DEF SessionInv
    <2> QED BY <1>9, <2>2, <2>3, <2>4 DEF LocalRoute
  <1>10. CASE FinishRoute
    <2>1. p1' = p1 /\ p2' = p2
      BY <1>10 DEF FinishRoute, Silent, p1vars, p2vars
    <2>2. /\ ctl'.op = "NONE" /\ ctl'.pc = "idle" /\ ctl'.session = ctl.session
          /\ ctl.pc = "return"
      BY <1>10 DEF FinishRoute, At
    <2>3. ctl.session # None =>
            /\ Gone(p1) /\ Gone(p2) /\ Uses(p1, ctl.session) /\ Uses(p2, ctl.session)
      <3>1. CASE ctl.op = "ACTIVATE" /\ ctl.session # None
        <4>1. ctl.commit /\ ctl.session = ctl.arg
          BY <2>2, <3>1 DEF ControlInv
        <4> QED BY <2>2, <3>1, <4>1 DEF SessionInv
      <3>2. CASE ctl.op # "ACTIVATE"
        BY <3>2 DEF SessionInv
      <3> QED BY <3>1, <3>2
    <2> QED BY <2>1, <2>2, <2>3 DEF SessionInv
  <1>11. CASE ContainRoute
    BY <1>11, <1>P DEF ContainRoute, SessionInv
  <1>12. CASE WorldRoute
    BY <1>12, SessionKeeps DEF WorldRoute, Kept
  <1> QED BY <1>0, <1>1, <1>2, <1>3, <1>4, <1>5, <1>6, <1>7, <1>8, <1>9, <1>10, <1>11,
             <1>12, Routes DEF ControllerRoute

(* Both Primers keep their banks and the registers their shape. *)
LEMMA SoundStep ==
  ASSUME Sound1, Sound2(p2), ControlInv, SysNext
  PROVE  Sound1' /\ Sound2(p2')
  <1>0. Sound
    BY DEF Sound, ControlInv
  <1>1. \A t, cmd, arg, rc : Served(t, cmd, arg, rc) => Sound1' /\ Sound2(p2')
    BY <1>0, ServedMoves
  <1>2. ASSUME Silent
        PROVE  Sound1' /\ Sound2(p2')
    BY <1>2 DEF Silent, Sound1, p1vars, p2vars
  <1> QED BY <1>0, <1>1, <1>2, Routes, ZenonT(60)
          DEF ControllerRoute, StageRoute, ExecuteRoute, StatusRoute, InfoRoute,
             AbortRoute, CloseRoute, SendRoute, StartRoute, LocalRoute, FinishRoute,
             ContainRoute, WorldRoute

-----------------------------------------------------------------------------
(* The shared session. *)

(* The initial state. *)
LEMMA SysInitSound ==
  ASSUME SysInit
  PROVE  Sound1 /\ Sound2(p2) /\ ControlInv /\ SessionInv
  <1>1. Sound1
    BY DEF SysInit, P1Init, P1Reset, Sound1, Registers1, Banked, Live
  <1>2. Sound2(p2)
    BY DEF SysInit, P2Init, P2Reset, Sound2, Registers2, Banked, Live
  <1>3. ctl = ControllerInit /\ secure = FALSE
    BY DEF SysInit
  <1>4. ControlInv
    BY <1>3 DEF ControllerInit, ControlInv, Fields, Targets, Program, Establishing, Clearing,
                Closing
  <1>5. SessionInv
    BY <1>3 DEF ControllerInit, SessionInv
  <1> QED BY <1>1, <1>2, <1>4, <1>5

(* The inductive invariant. *)
SharedInv == Sound1 /\ Sound2(p2) /\ ControlInv /\ SessionInv

(* A stuttering step changes nothing of it. *)
LEMMA SharedStutters ==
  ASSUME SharedInv, UNCHANGED sysvars
  PROVE  SharedInv'
  <1>1. UNCHANGED <<p1, p2, secure, ctl>>
    BY DEF sysvars, P1Vars, P2Vars, p1vars, p2vars, nets
  <1> QED BY <1>1 DEF SharedInv, Sound1, ControlInv, SessionInv

(* Every reachable state satisfies it. *)
LEMMA SharedInductive ==
  SysSpec => []SharedInv
  <1>1. SysInit => SharedInv
    BY SysInitSound DEF SharedInv
  <1>2. SharedInv /\ [SysNext]_sysvars => SharedInv'
    <2>1. ASSUME SharedInv, SysNext
          PROVE  SharedInv'
      BY <2>1, SoundStep, ControlStep, SessionStep DEF SharedInv
    <2> QED BY <2>1, SharedStutters
  <1> QED BY <1>1, <1>2, PTL DEF SysSpec

(* Under it secure_enable releases a Primer into the controller's session. *)
LEMMA SharedHolds ==
  ASSUME SharedInv
  PROVE  SharedSession
  <1> SUFFICES ASSUME secure
               PROVE  /\ Owner # None
                      /\ \A p \in {p1, p2} : p.session \in Live => p.active = Owner
    BY DEF SharedSession, Live
  <1>1. ctl.commit
    BY DEF SharedInv, ControlInv
  <1>2. None \notin Material
    BY SystemAssumption DEF SystemAssumption
  <1>3. CASE ctl.op = "ACTIVATE"
    BY <1>1, <1>2, <1>3 DEF SharedInv, ControlInv, SessionInv, Uses, Owner
  <1>4. CASE ctl.op # "ACTIVATE"
    BY <1>1, <1>4 DEF SharedInv, ControlInv, SessionInv, Uses, Owner
  <1> QED BY <1>3, <1>4

(* While secure_enable is high, a Primer in a session is in the session of  *)
(* the controller, and the controller has one: for every number of losses,  *)
(* faults and resets, every set of sessions and any length of a session.    *)
THEOREM SharedTheorem ==
  SysSpec => []SharedSession
  BY SharedInductive, SharedHolds, PTL

-----------------------------------------------------------------------------
(* ZEROIZE and CLOSE_SESSION. *)

(* As long as no error was noted, the Primers that were asked are erased. *)
EraseInv ==
  ctl.rc = "OK" =>
  /\ ctl.pc = "zero" /\ (ctl.target = 2 \/ ctl.sub # "request") => Keyless(p1)
  /\ ctl.pc = "zero" /\ ctl.target = 2 /\ ctl.sub # "request" => Keyless(p2)
  /\ ctl.pc \in {"zeroState", "zeroCode", "closed"} => Keyless(p1) /\ Keyless(p2)
  /\ ctl.pc = "close" /\ ctl.target = 2 => Keyless(p1)
  /\ ctl.pc = "return" /\ ctl.op \in {"ZEROIZE", "CLOSE"} => Keyless(p1) /\ Keyless(p2)

(* Without STAGE and COMMIT an erased Primer stays erased. *)
LEMMA KeylessStable ==
  ASSUME NEW p, NEW d, Moved(p, d, "NONE", None), Banked(d), Keyless(p)
  PROVE  Keyless(d)
  BY DEF Moved, Banked, Keyless, Live

(* In a fault that is not news both Primers have erased their sessions. *)
LEMMA FatalErases ==
  ASSUME Sound1, Sound2(p2), Quiet, fatal
  PROVE  Keyless(p1) /\ Keyless(p2) /\ Gone(p1) /\ Gone(p2)
  <1>1. p1.session \in {"ZEROIZE_BUSY", "FAULT_LOCKED"}
    BY DEF Quiet, P1Forced, Sound1, Banked
  <1>2. p2.session \in {"ZEROIZE_BUSY", "FAULT_LOCKED"}
    BY DEF Quiet, P2Forced, Sound2, Banked
  <1> QED BY <1>1, <1>2 DEF Sound1, Sound2, Banked, Live, Keyless, Gone

(* What the answers OK and FAULT_LOCKED say of the Primer that was asked to *)
(* erase its session, and BAD_SESSION in the controller's own session.      *)
LEMMA ErasingAnswers ==
  ASSUME SharedInv, NEW t \in Targets, NEW cmd \in {"ZEROIZE", "ABORT_SESSION"}, NEW arg,
         NEW rc, Served(t, cmd, arg, rc),
         \/ rc \in {"OK", "FAULT_LOCKED"}
         \/ /\ rc = "BAD_SESSION" /\ cmd = "ABORT_SESSION" /\ ctl.op # "ACTIVATE"
            /\ arg = IF ctl.session = None THEN None ELSE ctl.session.id
  PROVE  /\ t = 1 => Keyless(p1')
         /\ t = 2 => Keyless(p2')
  <1>0. Sound1 /\ Sound2(p2) /\ Sound
    BY DEF SharedInv, Sound, ControlInv
  <1>1. Eased /\ Banked(p1') /\ Banked(p2')
    <2>1. Eased /\ Sound1' /\ Sound2(p2')
      BY <1>0, ServedMoves
    <2> QED BY <2>1 DEF Sound1, Sound2
  <1>2. CASE rc = "FAULT_LOCKED"
    <2>1. \A c \in Codes : c # "FAULT_LOCKED"
      BY DEF Codes
    <2>2. fatal /\ Quiet
      BY <1>2, <2>1 DEF Served, Answering, P1Answered, P2Answered, Answered
    <2>3. Keyless(p1) /\ Keyless(p2)
      BY <1>0, <2>2, FatalErases
    <2> QED BY <1>1, <2>3, KeylessStable DEF Eased
  <1>3. CASE rc = "OK"
    <2>1. /\ t = 1 => Answered(p1, p1', cmd, arg, "OK")
          /\ t = 2 => Answered(p2, p2', cmd, arg, "OK")
      BY <1>3 DEF Served, Answering, P1Answered, P2Answered, Targets
    <2> QED BY <2>1 DEF Answered
  <1>4. CASE /\ rc = "BAD_SESSION" /\ cmd = "ABORT_SESSION" /\ ctl.op # "ACTIVATE"
             /\ arg = IF ctl.session = None THEN None ELSE ctl.session.id
    <2>1. /\ t = 1 => Answered(p1, p1', cmd, arg, "BAD_SESSION")
          /\ t = 2 => Answered(p2, p2', cmd, arg, "BAD_SESSION")
      BY <1>4 DEF Served, Answering, P1Answered, P2Answered, Targets
    <2>2. /\ ctl.session # None /\ arg = ctl.session.id
          /\ t = 1 => ~Named(p1, arg)
          /\ t = 2 => ~Named(p2, arg)
      BY <1>4, <2>1 DEF Answered, Targets
    <2>3. Gone(p1) /\ Gone(p2) /\ Uses(p1, ctl.session) /\ Uses(p2, ctl.session)
      BY <1>4, <2>2 DEF SharedInv, SessionInv
    <2>4. \A p : /\ Gone(p) /\ Uses(p, ctl.session) /\ ~Named(p, ctl.session.id) /\ Banked(p)
                 => Keyless(p)
      BY DEF Gone, Uses, Named, Banked, Keyless, Live
    <2>5. (t = 1 => Keyless(p1)) /\ (t = 2 => Keyless(p2))
      BY <1>0, <2>2, <2>3, <2>4 DEF Sound1, Sound2
    <2> QED BY <1>1, <2>5, KeylessStable DEF Eased
  <1> QED BY <1>2, <1>3, <1>4

(* Every route keeps the invariant. *)
LEMMA EraseStep ==
  ASSUME SharedInv, EraseInv, SysNext
  PROVE  EraseInv'
  <1>0. Sound1 /\ Sound2(p2) /\ Sound /\ ControlInv /\ SessionInv
    BY DEF SharedInv, Sound, ControlInv
  <1>C. ControlInv' /\ Sound1' /\ Sound2(p2')
    BY <1>0, ControlStep, SoundStep
  <1>S. \A t, cmd, arg, rc :
          Served(t, cmd, arg, rc) /\ cmd \notin {"STAGE_SESSION", "COMMIT_SESSION"} => Eased
    BY <1>0, ServedMoves
  <1>P. /\ Program(ctl.op, ctl.pc) /\ Program(ctl'.op, ctl'.pc) /\ ctl.target \in Targets
        /\ ctl'.target \in Targets
    BY <1>0, <1>C DEF ControlInv
  <1>E. /\ Eased /\ Keyless(p1) => Keyless(p1')
        /\ Eased /\ Keyless(p2) => Keyless(p2')
    BY <1>C, KeylessStable DEF Eased, Sound1, Sound2
  <1> USE DEF Program, Establishing, Released, Clearing, Closing, Sending
  <1>O. ASSUME ctl'.pc \notin {"zero", "zeroState", "zeroCode", "closed", "close"},
               ctl'.pc = "return" => ctl'.op \notin {"ZEROIZE", "CLOSE"}
        PROVE  EraseInv'
    BY <1>O DEF EraseInv
  <1>1. CASE StageRoute
    <2>1. ctl'.pc \in {"failAbort", "stage", "staged"}
      BY <1>1, <1>P DEF StageRoute, At, Targets
    <2> QED BY <1>O, <2>1
  <1>2. CASE ExecuteRoute
    <2>1. PICK cmd, arg, rc, code :
             /\ ctl.pc \in RetainedLabels /\ Served(ctl.target, cmd, arg, rc)
             /\ \/ ctl.sub = "request" /\ cmd = Command[ctl.pc] /\ arg = Operand(ctl)
                \/ ctl.sub # "request" /\ cmd \in {"GET_TXN_RESULT", "RETIRE_TXN_RESULT"}
             /\ \/ Stays(ctl, ctl') /\ (ctl.sub = "request" => rc = "OK")
                \/ /\ EndsAt(ctl, ctl', code)
                   /\ ctl.sub = "request" => code = rc /\ rc # "OK"
      BY <1>2 DEF ExecuteRoute
    <2>2. CASE ctl.pc = "zero"
      <3>1. Eased
        BY <1>S, <2>1, <2>2 DEF Command
      <3>2. \/ ctl'.pc = "zero" /\ ctl'.target = ctl.target /\ ctl'.rc = ctl.rc
            \/ /\ ctl.target = 1 /\ ctl'.pc = "zero" /\ ctl'.target = 2 /\ ctl'.sub = "request"
               /\ ctl'.rc = "OK" => ctl.rc = "OK"
            \/ /\ ctl.target = 2 /\ ctl'.pc = "zeroState"
               /\ ctl'.rc = "OK" => ctl.rc = "OK"
        BY <1>P, <2>1, <2>2 DEF Stays, EndsAt, At, Targets
      <3>3. CASE ctl.sub # "request"
        BY <1>E, <2>2, <3>1, <3>2, <3>3 DEF EraseInv
      <3>4. CASE ctl.sub = "request" /\ ctl'.rc = "OK"
        <4>1. rc \in {"OK", "FAULT_LOCKED"}
          BY <2>1, <2>2, <3>4 DEF EndsAt
        <4>2. cmd = "ZEROIZE"
          BY <2>1, <2>2, <3>4 DEF Command
        <4>3. /\ ctl.target = 1 => Keyless(p1')
              /\ ctl.target = 2 => Keyless(p2')
          BY <1>P, <2>1, <4>1, <4>2, ErasingAnswers
        <4> QED BY <1>E, <1>P, <2>2, <3>1, <3>2, <3>4, <4>3 DEF EraseInv, Targets
      <3>5. CASE ctl'.rc # "OK"
        BY <3>5 DEF EraseInv
      <3> QED BY <3>3, <3>4, <3>5
    <2>3. CASE ctl.pc # "zero"
      <3>1. /\ ctl'.pc \in {"commit", "test", "encrypt", "return", "refresh", "arrive",
                            "failAbort", "blocked"}
            /\ ctl'.op = ctl.op
        BY <1>P, <2>1, <2>3 DEF Stays, EndsAt, At, Targets, RetainedLabels, Keep
      <3>2. ctl.op \notin {"ZEROIZE", "CLOSE"}
        BY <1>P, <2>1, <2>3 DEF RetainedLabels
      <3> QED BY <1>O, <3>1, <3>2
    <2> QED BY <2>2, <2>3
  <1>3. CASE StatusRoute
    <2>1. ctl.pc \in {"staged", "blocked", "active", "refresh", "probe"}
      BY <1>3 DEF StatusRoute, Awaited
    <2>2. \/ FailsAt(ctl, ctl') \/ Halfway(ctl, ctl', Status(1))
          \/ Concludes(ctl, ctl', Status(2))
      BY <1>3 DEF StatusRoute
    <2>3. /\ ctl'.op = ctl.op
          /\ ctl'.pc \in {"staged", "blocked", "active", "refresh", "info", "return", "commit",
                          "high", "failAbort", "failZeroize"}
      BY <2>1, <2>2 DEF FailsAt, Halfway, Concludes, Installs, Keep, At, Awaited
    <2> QED BY <1>O, <1>P, <2>1, <2>3
  <1>4. CASE InfoRoute
    <2>1. ctl.pc = "info" /\ ctl'.op = ctl.op /\ ctl'.pc \in {"probe", "return"}
      BY <1>4 DEF InfoRoute, Keep, At
    <2> QED BY <1>O, <1>P, <2>1
  <1>5. CASE AbortRoute
    <2>1. ctl'.pc \in {"abort", "failZeroize"}
      BY <1>5, <1>P DEF AbortRoute, At, Targets
    <2> QED BY <1>O, <2>1
  <1>6. CASE CloseRoute
    <2>1. PICK rc :
            /\ ctl.pc = "close"
            /\ Served(ctl.target, "ABORT_SESSION",
                      IF ctl.session = None THEN None ELSE ctl.session.id, rc)
            /\ ctl'.rc = IF ctl.rc = "OK" /\ rc \notin {"OK", "BAD_SESSION", "FAULT_LOCKED"}
                         THEN rc ELSE ctl.rc
            /\ ctl.target = 1 => At(ctl', "close", 2)
            /\ ctl.target = 2 => At(ctl', "closed", 1)
      BY <1>6 DEF CloseRoute
    <2>2. CASE ctl'.rc = "OK"
      <3>1. ctl.rc = "OK" /\ rc \in {"OK", "BAD_SESSION", "FAULT_LOCKED"} /\ ctl.op = "CLOSE"
        BY <1>P, <2>1, <2>2
      <3>2. /\ ctl.target = 1 => Keyless(p1')
            /\ ctl.target = 2 => Keyless(p2')
        BY <1>P, <2>1, <3>1, ErasingAnswers
      <3>3. Eased
        BY <1>S, <2>1
      <3> QED BY <1>E, <1>P, <2>1, <3>1, <3>2, <3>3 DEF EraseInv, At, Targets
    <2>3. CASE ctl'.rc # "OK"
      BY <2>3 DEF EraseInv
    <2> QED BY <2>2, <2>3
  <1>7. CASE SendRoute
    <2>1. /\ ctl.pc \in {"rx", "load", "arrive", "read", "ack"} /\ ctl'.op = ctl.op
          /\ ctl'.pc \in {"return", "load", "encrypt", "arrive", "read", "ack"}
      BY <1>7 DEF SendRoute, At, Keep, Counts
    <2> QED BY <1>O, <1>P, <2>1
  <1>8. CASE StartRoute
    <2>1. /\ ctl'.sub = "request" /\ ctl'.pc \in {"zero", "close"} => ctl'.target = 1
          /\ ctl'.pc \in {"tiny", "zero", "close", "test", "refresh", "info", "rx"}
      BY <1>8 DEF StartRoute
    <2>2. ctl'.sub = "request"
      BY <1>8 DEF StartRoute
    <2> QED BY <2>1, <2>2 DEF EraseInv
  <1>9. CASE LocalRoute
    <2>1. p1' = p1 /\ p2' = p2 /\ ctl'.op = ctl.op
      BY <1>9 DEF LocalRoute, Silent, p1vars, p2vars, Turns
    <2>2. \/ ctl'.pc \in {"failAbort", "stage", "abort", "active"}
          \/ ctl'.pc = "zero" /\ ctl'.target = 1 /\ ctl'.sub = "request"
          \/ ctl.pc = "zeroState" /\ ctl'.pc = "zeroCode" /\ ctl'.rc = ctl.rc
          \/ /\ ctl.pc \in {"zeroCode", "closed"} /\ ctl'.pc = "return"
             /\ ctl'.rc = "OK" => ctl.rc = "OK"
      BY <1>9 DEF LocalRoute, Turns, At
    <2> QED BY <2>1, <2>2 DEF EraseInv
  <1>10. CASE FinishRoute \/ ContainRoute
    <2>1. ctl'.pc = "idle"
      BY <1>10 DEF FinishRoute, ContainRoute, At
    <2> QED BY <1>O, <2>1
  <1>12. CASE WorldRoute
    BY <1>12, <1>E DEF WorldRoute, Kept, Keep, EraseInv
  <1> QED BY <1>0, <1>1, <1>2, <1>3, <1>4, <1>5, <1>6, <1>7, <1>8, <1>9, <1>10,
             <1>12, Routes DEF ControllerRoute

(* ZEROIZE and CLOSE_SESSION that return OK have erased both Primers, also  *)
(* when the supervisor faults, recovers or faults again under way.          *)
THEOREM SuccessTheorem ==
  SysSpec => []SuccessErases
  <1>1. SysInit => EraseInv
    BY DEF SysInit, ControllerInit, EraseInv
  <1>2. SharedInv /\ EraseInv /\ [SysNext]_sysvars => EraseInv'
    <2>1. CASE UNCHANGED sysvars
      <3>1. UNCHANGED <<p1, p2, ctl>>
        BY <2>1 DEF sysvars, P1Vars, P2Vars, p1vars, p2vars
      <3> QED BY <3>1 DEF EraseInv
    <2> QED BY <2>1, EraseStep
  <1>3. SharedInv /\ EraseInv => SuccessErases
    BY DEF SharedInv, ControlInv, EraseInv, SuccessErases, Returned
  <1> QED BY <1>1, <1>2, <1>3, SharedInductive, PTL DEF SysSpec

-----------------------------------------------------------------------------
(* What holds as long as nothing went wrong. *)

(* Without trouble the supervisor enables, nothing has faulted and every    *)
(* frame on its way is in the key of Primer #2; a contained fault has       *)
(* erased both Primers.                                                     *)
CalmInv ==
  /\ trouble \in Nat
  /\ trouble = 0 => enable /\ ~fatal /\ ~p2.fault
  /\ ctl.commit /\ enable => secure
  /\ trouble = 0 /\ p2.core \in {"VALIDATE", "DECRYPT"} => p2.cand.key = p2.active.key
  /\ air # None /\ p2.active # None => air.key = p2.active.key
  /\ ctl.contained => Keyless(p1) /\ Keyless(p2) /\ Gone(p1) /\ Gone(p2)

(* A controller step is an exchange or silent. *)
LEMMA ControllerActs ==
  ASSUME Sound, ControllerRoute
  PROVE  \/ Exchanges
         \/ Silent /\ (StartRoute \/ LocalRoute \/ FinishRoute \/ ContainRoute)
  <1>1. CASE StageRoute
    BY <1>1 DEF StageRoute, Exchanges, Keep, Sound
  <1>2. CASE ExecuteRoute
    <2>1. PICK cmd, arg, rc, code :
            /\ Served(ctl.target, cmd, arg, rc)
            /\ Stays(ctl, ctl') \/ EndsAt(ctl, ctl', code)
      BY <1>2 DEF ExecuteRoute
    <2>2. Keep(ctl, ctl')
      BY <2>1 DEF Stays, EndsAt
    <2> QED BY <2>1, <2>2 DEF Exchanges, Keep, Sound
  <1>3. CASE StatusRoute
    <2>1. PICK rc : /\ Served(ctl.target, "GET_STATUS", None, rc)
                    /\ \/ FailsAt(ctl, ctl') \/ Halfway(ctl, ctl', Status(1))
                       \/ Concludes(ctl, ctl', Status(2))
      BY <1>3 DEF StatusRoute
    <2>2. ctl'.commit = ctl.commit /\ ctl'.contained = ctl.contained
      BY <2>1 DEF FailsAt, Halfway, Concludes, Installs, Keep
    <2> QED BY <2>1, <2>2 DEF Exchanges, Sound
  <1>4. CASE InfoRoute
    BY <1>4 DEF InfoRoute, Exchanges, Keep, Sound
  <1>5. CASE AbortRoute
    BY <1>5 DEF AbortRoute, Exchanges, Keep, Sound
  <1>6. CASE CloseRoute
    BY <1>6 DEF CloseRoute, Exchanges, Keep, Sound
  <1>7. CASE SendRoute
    <2>1. PICK t, cmd, arg, rc : t \in Targets /\ Served(t, cmd, arg, rc)
      BY <1>7 DEF SendRoute, Targets
    <2>2. ctl'.commit = ctl.commit /\ ctl'.contained = ctl.contained
      BY <1>7 DEF SendRoute, Counts, Keep
    <2> QED BY <2>1, <2>2 DEF Exchanges
  <1>8. CASE StartRoute \/ LocalRoute \/ FinishRoute \/ ContainRoute
    BY <1>8 DEF StartRoute, LocalRoute, FinishRoute, ContainRoute
  <1> QED BY <1>1, <1>2, <1>3, <1>4, <1>5, <1>6, <1>7, <1>8 DEF ControllerRoute

(* What an exchange keeps of it. *)
LEMMA CalmExchange ==
  ASSUME SharedInv, CalmInv, Exchanges
  PROVE  CalmInv'
  <1>0. Sound1 /\ Sound2(p2) /\ Sound
    BY DEF SharedInv, Sound, ControlInv
  <1>1. PICK t, cmd, arg, rc :
          /\ t \in Targets /\ Served(t, cmd, arg, rc)
          /\ ctl'.commit = ctl.commit /\ ctl'.contained = ctl.contained
    BY DEF Exchanges
  <1>2. /\ UNCHANGED <<enable, fatal, secure, air>> /\ Quiet /\ air = None
        /\ trouble' = trouble \/ trouble' = trouble + 1
    BY <1>1 DEF Served, nets, Quiet
  <1>3. ctl.contained => p1' = p1 /\ p2' = p2
    BY <1>1 DEF Served, p1vars, p2vars
  <1>4. p2' = p2 \/ (Received(p2, p2', cmd, None) /\ ~TestFails(p2, p2'))
    BY <1>1 DEF Served, Answering, P2Answered, P2Moved, p2vars
  <1>5. trouble = 0 => ~p2'.fault
    <2>1. CASE p2' = p2
      BY <2>1 DEF CalmInv
    <2>2. CASE Received(p2, p2', cmd, None) /\ ~TestFails(p2, p2') /\ trouble = 0 /\ p2'.fault
      <3>1. ~fatal /\ ~p2.fault /\ (p2.core = "DECRYPT" => p2.cand.key = p2.active.key)
        BY <2>2 DEF CalmInv
      <3>2. p2.core = "SELF_TEST"
        BY <2>2, <3>1 DEF Received
      <3> QED BY <2>2, <3>1, <3>2 DEF TestFails
    <2> QED BY <1>4, <2>1, <2>2
  <1>6. trouble = 0 /\ p2'.core \in {"VALIDATE", "DECRYPT"} => p2'.cand.key = p2'.active.key
    BY <1>4 DEF CalmInv, Received
  <1> QED BY <1>1, <1>2, <1>3, <1>5, <1>6 DEF CalmInv

(* ... and a silent step. *)
LEMMA CalmSilent ==
  ASSUME SharedInv, CalmInv, Silent, ctl'.contained => ctl.contained \/ fatal
  PROVE  CalmInv'
  <1>1. /\ UNCHANGED <<enable, fatal, trouble, air, p1, p2>> /\ Quiet
        /\ secure' = (ctl'.commit /\ enable')
    BY DEF Silent, p1vars, p2vars
  <1>2. ctl'.commit /\ enable' => secure'
    BY <1>1, Zenon
  <1>3. fatal => Keyless(p1) /\ Keyless(p2) /\ Gone(p1) /\ Gone(p2)
    BY <1>1, FatalErases DEF SharedInv
  <1> QED BY <1>1, <1>2, <1>3 DEF CalmInv

(* A frame that Primer #2 takes from the line. *)
LEMMA CalmReceives ==
  ASSUME SharedInv, CalmInv, NEW f, P2Receive(f), f = None \/ trouble' # 0 \/ f = air,
         UNCHANGED <<p1, enable, ctl>>, air' = air \/ air' = None,
         \/ Hurt(p2, p2')
         \/ Suffer
  PROVE  CalmInv'
  <1>1. P2Moved(p2', "NONE", None, f) /\ UNCHANGED nets
    BY ProgressMoves DEF SharedInv, P2Receive
  <1>2. /\ Sound2(p2') /\ Moved(p2, p2', "NONE", None) /\ Received(p2, p2', "NONE", f)
    BY <1>1 DEF P2Moved
  <1>3. trouble \in Nat /\ (trouble' = trouble \/ trouble' = trouble + 1)
    BY DEF CalmInv, Hurt, Suffer
  <1>4. trouble' = 0 => trouble = 0 /\ ~TestFails(p2, p2')
    BY <1>3 DEF Hurt, Suffer
  <1>5. trouble' = 0 => ~p2'.fault
    <2>1. SUFFICES ASSUME trouble' = 0, p2'.fault
                   PROVE  FALSE
      OBVIOUS
    <2>2. ~fatal /\ ~p2.fault /\ (p2.core = "DECRYPT" => p2.cand.key = p2.active.key)
      BY <1>4, <2>1 DEF CalmInv
    <2>3. p2.core = "SELF_TEST"
      BY <1>2, <2>1, <2>2 DEF Received
    <2> QED BY <1>4, <2>1, <2>2, <2>3 DEF TestFails
  <1>6. p2'.core \in {"VALIDATE", "DECRYPT"} => p2'.active # None /\ p2'.active = p2.active
    BY <1>2 DEF Received, Sound2, Banked, Live
  <1>7. trouble' = 0 /\ p2'.core \in {"VALIDATE", "DECRYPT"} => p2'.cand.key = p2'.active.key
    BY <1>2, <1>4, <1>6 DEF CalmInv, Received
  <1>8. p2'.active # None => p2'.active = p2.active
    BY <1>2 DEF Moved, Sound2, Banked, Live
  <1>9. ctl.contained => Keyless(p2') /\ Gone(p2')
    BY <1>2, KeylessStable, EasedStable DEF CalmInv, Sound2
  <1> QED BY <1>1, <1>3, <1>4, <1>5, <1>7, <1>8, <1>9 DEF CalmInv, nets

(* The steps outside the controller. *)
LEMMA CalmWorld ==
  ASSUME SharedInv, CalmInv,
         DeadlinePasses \/ P1Step \/ P2Step \/ UartStep \/ TinyStep \/ ResetStep
  PROVE  CalmInv'
  <1>0. Sound1 /\ Sound2(p2) /\ Sound /\ trouble \in Nat
    BY DEF SharedInv, Sound, ControlInv, CalmInv
  <1>1. WorldRoute
    BY <1>0, WorldLeads
  <1>2. /\ trouble' = trouble \/ trouble' = trouble + 1
        /\ Eased /\ Sound1' /\ Sound2(p2')
        /\ ctl'.commit = ctl.commit /\ ctl'.contained = ctl.contained
    BY <1>1 DEF WorldRoute, Kept, Keep
  <1>3. trouble' \in Nat /\ (trouble' = 0 => trouble = 0)
    BY <1>0, <1>2
  <1>4. /\ Keyless(p1) => Keyless(p1')
        /\ Keyless(p2) => Keyless(p2')
        /\ Gone(p1) => Gone(p1')
        /\ Gone(p2) => Gone(p2')
    BY <1>2, KeylessStable, EasedStable DEF Eased, Sound1, Sound2
  <1>5. CASE DeadlinePasses
    <2>1. UNCHANGED <<p1, p2, enable, fatal, secure, air>>
      BY <1>5 DEF DeadlinePasses, nets, p1vars, p2vars
    <2> QED BY <1>2, <1>3, <2>1 DEF CalmInv
  <1>6. CASE P1Step
    <2>1. /\ UNCHANGED <<p2, enable, fatal, secure>>
          /\ \/ air' = air
             \/ /\ p1.session = "ACTIVE" /\ secure
                /\ air'.key = p1.active.key
      BY <1>0, <1>6, P1EngineMoves DEF P1Step, p2vars, nets
    <2>2. air' # None /\ p2.active # None => air'.key = p2.active.key
      <3>1. CASE air' = air
        BY <3>1 DEF CalmInv
      <3>2. CASE /\ p1.session = "ACTIVE" /\ secure /\ air'.key = p1.active.key
                 /\ p2.active # None
        <4>1. p2.session \in Live
          BY <1>0, <3>2 DEF Sound2, Banked
        <4>2. p1.active = Owner /\ p2.active = Owner
          BY <3>2, <4>1, SharedHolds DEF SharedSession, Live
        <4> QED BY <3>2, <4>2
      <3> QED BY <2>1, <3>1, <3>2
    <2> QED BY <1>2, <1>3, <1>4, <2>1, <2>2 DEF CalmInv
  <1>7. CASE P2Step
    <2>1. UNCHANGED <<p1, enable, ctl, air>>
      BY <1>7 DEF P2Step, p1vars
    <2>2. CASE P2Receive(None)
      BY <1>7, <2>1, <2>2, CalmReceives DEF P2Step
    <2>3. CASE P2Engine
      <3>1. /\ UNCHANGED <<fatal, secure>>
            /\ \/ p2'.core \notin {"VALIDATE", "DECRYPT"}
               \/ p2'.cand = p2.cand /\ p2'.core = p2.core
            /\ p2'.active # None => p2'.active = p2.active
            /\ ~fatal /\ p2'.fault => p2.fault
        BY <1>0, <2>3, P2EngineMoves DEF nets
      <3>2. p2'.core \in {"VALIDATE", "DECRYPT"} => p2'.active # None
        BY <1>2 DEF Sound2, Banked, Live
      <3> QED BY <1>2, <1>3, <1>4, <2>1, <3>1, <3>2 DEF CalmInv
    <2> QED BY <1>7, <2>2, <2>3 DEF P2Step
  <1>8. CASE UartStep
    <2>1. UNCHANGED <<p1, enable, ctl>> /\ air' = None
      BY <1>8 DEF UartStep
    <2>2. CASE P2Receive(air) /\ Hurt(p2, p2')
      BY <2>1, <2>2, CalmReceives
    <2>3. CASE P2Receive([air EXCEPT !.key = None]) /\ Suffer
      <3> DEFINE f == [air EXCEPT !.key = None]
      <3> HIDE DEF f
      <3>1. P2Receive(f) /\ Suffer
        BY <2>3 DEF f
      <3>2. trouble' # 0
        BY <1>0, <3>1 DEF Suffer
      <3> QED BY <2>1, <3>1, <3>2, CalmReceives
    <2>4. CASE UNCHANGED <<nets, reply, p2vars>>
      <3>1. UNCHANGED <<p2, fatal, secure>>
        BY <2>4 DEF nets, p2vars
      <3> QED BY <1>2, <1>3, <2>1, <3>1 DEF CalmInv
    <2> QED BY <1>8, <2>2, <2>3, <2>4 DEF UartStep
  <1>9. CASE TinyStep
    <2>1. /\ UNCHANGED <<p1, p2, air, ctl>> /\ secure' = (ctl'.commit /\ enable')
      BY <1>9 DEF TinyStep, DriveSecure, p1vars, p2vars
    <2>2. ctl'.commit /\ enable' => secure'
      BY <2>1, Zenon
    <2>3. \/ trouble' # 0
          \/ (fatal' => fatal) /\ (enable => enable')
      <3>1. CASE TinyFaults \/ TinyDisturbed
        BY <1>0, <3>1 DEF TinyFaults, TinyDisturbed, Suffer
      <3>2. CASE TinyRecovers
        BY <3>2 DEF TinyRecovers, Tiny!Cleared, Tiny!Released, Tiny!Enabled
      <3> QED BY <1>9, <3>1, <3>2 DEF TinyStep
    <2> QED BY <1>3, <2>1, <2>2, <2>3 DEF CalmInv
  <1>10. CASE ResetStep
    <2>1. trouble' # 0 /\ UNCHANGED <<enable, ctl>>
      BY <1>0, <1>10 DEF ResetStep, Suffer
    <2>2. CASE P1PowerCycle /\ P1Record /\ UNCHANGED p2vars
      <3>1. UNCHANGED <<fatal, secure, air, p2>>
        BY <2>2, P1ResetMoves DEF nets, p2vars
      <3> QED BY <1>2, <1>3, <1>4, <2>1, <3>1 DEF CalmInv
    <2>3. CASE P2PowerCycle /\ UNCHANGED p1vars
      <3>1. UNCHANGED <<fatal, secure, air, p1>> /\ p2'.active = None /\ p2'.core = "IDLE"
        BY <2>3, P2ResetMoves DEF nets, p1vars
      <3> QED BY <1>2, <1>3, <1>4, <2>1, <3>1 DEF CalmInv
    <2> QED BY <1>10, <2>2, <2>3 DEF ResetStep
  <1> QED BY <1>5, <1>6, <1>7, <1>8, <1>9, <1>10

(* Every step. *)
LEMMA CalmStep ==
  ASSUME SharedInv, CalmInv, SysNext
  PROVE  CalmInv'
  <1>0. Sound
    BY DEF SharedInv, Sound, ControlInv
  <1>1. CASE ControllerRoute
    <2>1. CASE Exchanges
      BY <2>1, CalmExchange
    <2>2. CASE Silent /\ ~Exchanges
      <3>1. StartRoute \/ LocalRoute \/ FinishRoute \/ ContainRoute
        BY <1>0, <1>1, <2>2, ControllerActs
      <3>2. ctl'.contained => ctl.contained \/ fatal
        BY <3>1 DEF StartRoute, LocalRoute, FinishRoute, ContainRoute, Turns
      <3> QED BY <2>2, <3>2, CalmSilent
    <2> QED BY <1>0, <1>1, <2>1, <2>2, ControllerActs
  <1>2. CASE DeadlinePasses \/ P1Step \/ P2Step \/ UartStep \/ TinyStep \/ ResetStep
    BY <1>2, CalmWorld
  <1> QED BY <1>0, <1>1, <1>2, Routes DEF SysNext

-----------------------------------------------------------------------------
(* Failed activations. *)

(* What a Primer could be released into, if anything, is m. *)
Tied(p, m) == /\ p.session = "STAGED" => p.staged = m
              /\ p.session = "COMMITTED_BLOCKED" => p.active = m

(* With at most one trouble: outside an activation neither Primer waits for *)
(* a release; inside it waits for this session only; the abort takes it     *)
(* away unless it was disturbed, and then the zeroize is not.               *)
FailInv ==
  trouble <= 1 =>
  /\ ctl.op # "ACTIVATE" \/ ctl.pc \in {"tiny", "zeroState", "zeroCode", "return"} =>
       Gone(p1) /\ Gone(p2)
  /\ ctl.pc = "stage" => Gone(p2) /\ (ctl.target = 1 => Gone(p1))
  /\ ctl.pc \in Establishing => Tied(p1, ctl.arg) /\ Tied(p2, ctl.arg)
  /\ ctl.pc = "abort" /\ ctl.target = 2 /\ trouble = 0 => Gone(p1)
  /\ ctl.pc \in {"failZeroize", "zero"} /\ trouble = 0 => Gone(p1) /\ Gone(p2)
  /\ ctl.pc = "zero" /\ (ctl.target = 2 \/ ctl.sub # "request") => Gone(p1)
  /\ ctl.pc = "zero" /\ ctl.target = 2 /\ ctl.sub # "request" => Gone(p2)
  /\ ctl.op = "ACTIVATE" /\ ctl.pc = "return" /\ ~ctl.commit => Keyless(p1) /\ Keyless(p2)

(* What a Primer waits for changes only by STAGE_SESSION. *)
LEMMA TiedStable ==
  ASSUME NEW p, NEW d, NEW cmd, NEW arg, Moved(p, d, cmd, arg), NEW m, Tied(p, m),
         cmd = "STAGE_SESSION" => arg = m
  PROVE  Tied(d, m)
  BY DEF Moved, Tied, Live

(* A step of a command that changes no label FailInv speaks of. *)
LEMMA FailKeeps ==
  ASSUME SharedInv, CalmInv, FailInv, Sound1', Sound2(p2'), Eased, Keep(ctl, ctl'),
         trouble' = trouble \/ trouble' = trouble + 1,
         ctl'.pc \in {"tiny", "zeroState", "zeroCode", "return"} =>
           ctl'.op # "ACTIVATE" \/ ctl.pc = ctl'.pc,
         ctl'.pc = "stage" => ctl.pc = "stage" /\ ctl'.target = ctl.target,
         ctl'.pc \in Establishing => ctl.pc \in Establishing,
         ctl'.pc = "abort" /\ ctl'.target = 2 => ctl.pc = "abort" /\ ctl.target = 2,
         ctl'.pc \in {"failZeroize", "zero"} =>
           /\ ctl.pc = ctl'.pc /\ ctl'.target = ctl.target /\ ctl'.sub = ctl.sub
  PROVE  FailInv'
  <1>1. /\ Gone(p1) => Gone(p1')
        /\ Gone(p2) => Gone(p2')
        /\ Keyless(p1) => Keyless(p1')
        /\ Keyless(p2) => Keyless(p2')
    BY KeylessStable, EasedStable DEF Eased, Sound1, Sound2
  <1>2. /\ \A m : Tied(p1, m) => Tied(p1', m)
        /\ \A m : Tied(p2, m) => Tied(p2', m)
    BY TiedStable DEF Eased
  <1>3. (trouble' <= 1 => trouble <= 1) /\ (trouble' = 0 => trouble = 0)
    BY DEF CalmInv
  <1> QED BY <1>1, <1>2, <1>3 DEF FailInv, Keep

(* A Primer whose exchange is not served has nothing to be released into,   *)
(* unless something went wrong.                                             *)
LEMMA ServedOrGone ==
  ASSUME SharedInv, CalmInv, NEW t \in Targets, NEW cmd, NEW arg, NEW rc,
         Served(t, cmd, arg, rc), trouble' = trouble
  PROVE  \/ /\ t = 1 => P1Answered(cmd, arg)
            /\ t = 2 => P2Answered(cmd, arg)
         \/ /\ UNCHANGED <<p1, p2>>
            /\ t = 1 => Gone(p1)
            /\ t = 2 => Gone(p2)
  <1>0. trouble' # trouble + 1
    BY DEF CalmInv
  <1>1. CASE Answering(t, cmd, arg)
    BY <1>1 DEF Answering, Targets
  <1>2. CASE /\ UNCHANGED <<p1vars, p2vars>>
             /\ fatal \/ ctl.contained \/ (t = 2 /\ p2.core = "ZEROIZE")
    <2>1. UNCHANGED <<p1, p2>>
      BY <1>2 DEF p1vars, p2vars
    <2>2. CASE fatal
      BY <2>1, <2>2, FatalErases DEF SharedInv, Served
    <2>3. CASE ctl.contained
      BY <2>1, <2>3 DEF CalmInv
    <2>4. CASE t = 2 /\ p2.core = "ZEROIZE"
      BY <2>1, <2>4 DEF SharedInv, Sound2, Banked, Gone
    <2> QED BY <1>2, <2>2, <2>3, <2>4
  <1> QED BY <1>0, <1>1, <1>2 DEF Served

(* ABORT_SESSION of what a Primer waits for takes it away. *)
LEMMA AbortReleases ==
  ASSUME NEW p, NEW d, NEW m \in Material, NEW code, Moved(p, d, "ABORT_SESSION", m.id),
         Answered(p, d, "ABORT_SESSION", m.id, code), Tied(p, m)
  PROVE  Gone(d)
  <1>1. m # None /\ m.id # Malformed
    BY SystemAssumption DEF SystemAssumption, Material
  <1>2. SUFFICES ASSUME ~Gone(d)
                 PROVE  FALSE
    OBVIOUS
  <1>3. ~Named(p, m.id)
    BY <1>1, <1>2 DEF Answered
  <1>4. ~Gone(p)
    BY <1>2 DEF Moved, Gone, Live
  <1> QED BY <1>1, <1>3, <1>4 DEF Named, Tied, Gone

(* A released session that is not ACTIVE was disturbed. *)
LEMMA ReleasedGone ==
  ASSUME SharedInv, CalmInv, Quiet, trouble = 0, ctl.pc = "active"
  PROVE  Gone(p1) /\ Gone(p2)
  <1>1. ctl.commit /\ ctl.op = "ACTIVATE"
    BY DEF SharedInv, ControlInv, Program, Clearing, Closing, Sending
  <1>2. secure /\ ~fatal /\ ~p2.fault
    BY <1>1 DEF CalmInv
  <1>3. p1.session # "COMMITTED_BLOCKED" /\ p2.session # "COMMITTED_BLOCKED"
    BY <1>2 DEF Quiet
  <1>4. p1.session # "STAGED" /\ p2.session # "STAGED"
    BY <1>1 DEF SharedInv, SessionInv, Uses
  <1> QED BY <1>3, <1>4 DEF Gone

(* With secure_enable low a Primer that waits for no release has no key. *)
LEMMA LowErases ==
  ASSUME SharedInv, Quiet, ~ctl.commit, Gone(p1), Gone(p2)
  PROVE  Keyless(p1) /\ Keyless(p2)
  <1>1. ~secure
    BY DEF SharedInv, ControlInv
  <1>2. p1.session # "ACTIVE" /\ p2.session # "ACTIVE"
    BY <1>1 DEF Quiet, P1Forced, P2Forced, SharedInv, Sound1, Sound2, Banked
  <1> QED BY <1>2 DEF Gone, SharedInv, Sound1, Sound2, Banked, Keyless, Live

(* The zeroize of a failed activation: the Primer that was asked waits for  *)
(* nothing, or this is the second trouble.                                  *)
LEMMA ZeroizeReleases ==
  ASSUME SharedInv, CalmInv, FailInv, trouble' <= 1, ctl.pc = "zero",
         trouble' = trouble \/ trouble' = trouble + 1,
         NEW arg, NEW rc, Served(ctl.target, "ZEROIZE", arg, rc), arg = None, Eased
  PROVE  /\ ctl.target = 1 => Gone(p1')
         /\ ctl.target = 2 => Gone(p2')
  <1>1. /\ Gone(p1) => Gone(p1')
        /\ Gone(p2) => Gone(p2')
    BY EasedStable DEF Eased
  <1>2. CASE trouble = 0
    BY <1>1, <1>2 DEF FailInv
  <1>3. CASE trouble # 0
    <2>1. trouble' = trouble /\ ctl.target \in Targets
      BY <1>3 DEF CalmInv, SharedInv, ControlInv
    <2>2. CASE /\ ctl.target = 1 => P1Answered("ZEROIZE", arg)
               /\ ctl.target = 2 => P2Answered("ZEROIZE", arg)
      BY <2>2 DEF P1Answered, P2Answered, Answered
    <2> QED BY <1>1, <2>1, <2>2, ServedOrGone
  <1> QED BY <1>2, <1>3

(* Every route keeps the invariant. *)
LEMMA FailStep ==
  ASSUME SharedInv, SharedInv', CalmInv, CalmInv', FailInv, SysNext
  PROVE  FailInv'
  <1>0. Sound1 /\ Sound2(p2) /\ Sound /\ ControlInv /\ SessionInv
    BY DEF SharedInv, Sound, ControlInv
  <1>C. ControlInv' /\ SessionInv' /\ Sound1' /\ Sound2(p2')
    BY DEF SharedInv
  <1>P. /\ Program(ctl.op, ctl.pc) /\ Program(ctl'.op, ctl'.pc) /\ ctl.target \in Targets
        /\ ctl'.target \in Targets
    BY <1>0, <1>C DEF ControlInv
  <1>N. trouble \in Nat /\ trouble' \in Nat
    BY DEF CalmInv
  <1>S. \A t, cmd, arg, rc : Served(t, cmd, arg, rc) =>
          /\ trouble' = trouble \/ trouble' = trouble + 1
          /\ cmd \notin {"STAGE_SESSION", "COMMIT_SESSION"} => Eased
    BY <1>0, ServedMoves DEF Served
  <1>G. /\ Eased /\ Gone(p1) => Gone(p1')
        /\ Eased /\ Gone(p2) => Gone(p2')
    BY EasedStable DEF Eased
  <1>T. \A p, m : Gone(p) => Tied(p, m)
    BY DEF Gone, Tied
  <1> USE DEF Program, Establishing, Released, Clearing, Closing, Sending
  <1>1. CASE StageRoute
    <2>1. PICK rc : /\ ctl.pc = "stage" /\ Served(ctl.target, "STAGE_SESSION", ctl.arg, rc)
                    /\ Keep(ctl, ctl')
                    /\ rc # "OK" => At(ctl', "failAbort", 1)
                    /\ rc = "OK" /\ ctl.target = 1 => At(ctl', "stage", 2)
                    /\ rc = "OK" /\ ctl.target = 2 => At(ctl', "staged", 1)
      BY <1>1 DEF StageRoute
    <2>2. /\ p1' = p1 \/ (ctl.target = 1 /\ Moved(p1, p1', "STAGE_SESSION", ctl.arg))
          /\ p2' = p2 \/ (ctl.target = 2 /\ Moved(p2, p2', "STAGE_SESSION", ctl.arg))
      BY <1>0, <2>1, ServedMoves
    <2>3. trouble' <= 1 => trouble <= 1
      BY <1>N, <1>S, <2>1
    <2>4. trouble' <= 1 => Tied(p1', ctl.arg) /\ Tied(p2', ctl.arg)
      BY <2>1, <2>2, <2>3, TiedStable DEF FailInv
    <2>5. trouble' <= 1 /\ ctl.target = 1 => Gone(p2')
      BY <2>1, <2>2, <2>3 DEF FailInv
    <2>6. /\ ctl'.op = "ACTIVATE" /\ ctl'.arg = ctl.arg
          /\ ctl'.pc \in {"failAbort", "stage", "staged"}
          /\ ctl'.pc = "stage" => ctl.target = 1 /\ ctl'.target = 2
      BY <1>P, <2>1 DEF Keep, At, Targets
    <2> QED BY <2>4, <2>5, <2>6 DEF FailInv
  <1>2. CASE ExecuteRoute
    <2>1. PICK cmd, arg, rc, code :
             /\ ctl.pc \in RetainedLabels /\ Served(ctl.target, cmd, arg, rc)
             /\ \/ ctl.sub = "request" /\ cmd = Command[ctl.pc] /\ arg = Operand(ctl)
                \/ ctl.sub # "request" /\ cmd \in {"GET_TXN_RESULT", "RETIRE_TXN_RESULT"}
             /\ Stays(ctl, ctl') \/ EndsAt(ctl, ctl', code)
      BY <1>2 DEF ExecuteRoute
    <2>2. CASE ctl.pc = "commit"
      <3>1. /\ ctl'.op = "ACTIVATE" /\ ctl'.arg = ctl.arg
            /\ ctl'.pc \in {"commit", "failAbort", "blocked"}
        BY <1>P, <2>1, <2>2 DEF Stays, EndsAt, Keep, At, Targets
      <3>2. cmd # "STAGE_SESSION"
        BY <2>1, <2>2 DEF Command
      <3>3. /\ p1' = p1 \/ Moved(p1, p1', cmd, arg)
            /\ p2' = p2 \/ Moved(p2, p2', cmd, arg)
        BY <1>0, <2>1, ServedMoves
      <3>4. trouble' <= 1 => trouble <= 1
        BY <1>N, <1>S, <2>1
      <3>5. trouble' <= 1 => Tied(p1', ctl.arg) /\ Tied(p2', ctl.arg)
        BY <2>2, <3>2, <3>3, <3>4, TiedStable DEF FailInv
      <3> QED BY <3>1, <3>5 DEF FailInv
    <2>3. CASE ctl.pc = "zero"
      <3>1. cmd \notin {"STAGE_SESSION", "COMMIT_SESSION"}
        BY <2>1, <2>3 DEF Command
      <3>2. Eased /\ (trouble' = trouble \/ trouble' = trouble + 1)
        BY <1>S, <2>1, <3>1
      <3>3. /\ ctl'.op = ctl.op
            /\ \/ ctl'.pc = "zero" /\ ctl'.target = ctl.target
               \/ ctl.target = 1 /\ ctl'.pc = "zero" /\ ctl'.target = 2 /\ ctl'.sub = "request"
               \/ ctl.target = 2 /\ ctl'.pc = "zeroState"
        BY <1>P, <2>1, <2>3 DEF Stays, EndsAt, Keep, At, Targets
      <3>4. SUFFICES ASSUME trouble' <= 1
                     PROVE  FailInv'
        BY DEF FailInv
      <3>5. trouble <= 1 /\ (trouble' = 0 => trouble = 0)
        BY <1>N, <3>2, <3>4
      <3>6. ctl.op # "ACTIVATE" \/ trouble' = 0 => Gone(p1') /\ Gone(p2')
        BY <1>G, <2>3, <3>2, <3>5 DEF FailInv
      <3>7. /\ ctl.target = 1 => Gone(p1')
            /\ ctl.target = 2 => Gone(p2')
        <4>1. CASE ctl.sub # "request"
          BY <1>G, <2>3, <3>2, <3>5, <4>1 DEF FailInv
        <4>2. CASE ctl.sub = "request"
          <5>1. cmd = "ZEROIZE" /\ arg = None
            BY <2>1, <2>3, <4>2 DEF Command, Operand
          <5> QED BY <2>1, <2>3, <3>2, <3>4, <5>1, ZeroizeReleases
        <4> QED BY <4>1, <4>2
      <3>8. ctl.target = 2 => Gone(p1')
        BY <1>G, <2>3, <3>2, <3>5 DEF FailInv
      <3> QED BY <1>P, <2>3, <3>3, <3>6, <3>7, <3>8 DEF FailInv, Targets
    <2>4. CASE ctl.pc \in {"test", "encrypt"}
      <3>1. cmd \notin {"STAGE_SESSION", "COMMIT_SESSION"}
        BY <2>1, <2>4 DEF Command
      <3>2. Eased /\ (trouble' = trouble \/ trouble' = trouble + 1)
        BY <1>S, <2>1, <3>1
      <3>3. /\ Keep(ctl, ctl')
            /\ ctl'.pc \in {"test", "encrypt", "return", "refresh", "arrive"}
        BY <2>1, <2>4 DEF Stays, EndsAt, At
      <3>4. ctl'.op # "ACTIVATE"
        BY <1>P, <2>4, <3>3 DEF Keep
      <3> QED BY <1>C, <3>2, <3>3, <3>4, FailKeeps
    <2> QED BY <2>1, <2>2, <2>3, <2>4 DEF RetainedLabels
  <1>3. CASE StatusRoute
    <2>1. PICK rc : /\ Served(ctl.target, "GET_STATUS", None, rc)
                    /\ ctl.pc \in Awaited \cup {"refresh", "probe"}
                    /\ \/ FailsAt(ctl, ctl') \/ Halfway(ctl, ctl', Status(1))
                       \/ Concludes(ctl, ctl', Status(2))
      BY <1>3 DEF StatusRoute
    <2>2. Eased /\ Quiet /\ (trouble' = trouble \/ trouble' = trouble + 1)
      BY <1>S, <2>1, SMTT(30) DEF Served
    <2>3. CASE ctl.pc = "active" /\ FailsAt(ctl, ctl')
      <3>1. ctl'.op = "ACTIVATE" /\ ctl'.pc = "failZeroize"
        BY <1>P, <2>3 DEF FailsAt, Keep, At
      <3>2. trouble' = 0 => Gone(p1') /\ Gone(p2')
        BY <1>G, <1>N, <2>2, <2>3, ReleasedGone
      <3> QED BY <3>1, <3>2 DEF FailInv
    <2>4. CASE ctl.pc = "active" /\ Installs(ctl, ctl')
      <3>1. ctl'.op = "ACTIVATE" /\ ctl'.pc = "return" /\ ctl'.commit
        BY <1>0, <1>P, <2>4 DEF Installs, At, ControlInv
      <3>2. Gone(p1') /\ Gone(p2')
        BY <1>C, <3>1 DEF SessionInv
      <3> QED BY <3>1, <3>2 DEF FailInv
    <2>5. CASE /\ Keep(ctl, ctl')
               /\ \/ ctl.pc \in {"staged", "blocked"}
                     /\ ctl'.pc \in {"staged", "blocked", "commit", "high", "failAbort"}
                  \/ ctl.pc = "active" /\ ctl'.pc = "active"
                  \/ ctl.pc \in {"refresh", "probe"} /\ ctl'.pc \in {"refresh", "info", "return"}
      <3>1. ctl'.pc = "return" => ctl'.op # "ACTIVATE"
        BY <1>P, <2>5 DEF Keep
      <3> QED BY <1>C, <2>2, <2>5, <3>1, FailKeeps
    <2>6. FailsAt(ctl, ctl') =>
            /\ Keep(ctl, ctl')
            /\ ctl.pc \in {"staged", "blocked"} => ctl'.pc = "failAbort"
            /\ ctl.pc \in {"refresh", "probe"} => ctl'.pc = "return"
      BY DEF FailsAt, At
    <2>7. Halfway(ctl, ctl', Status(1)) =>
            /\ Keep(ctl, ctl')
            /\ ctl'.pc = ctl.pc \/ (ctl.pc = "probe" /\ ctl'.pc = "info")
      BY DEF Halfway
    <2>8. Concludes(ctl, ctl', Status(2)) =>
            \/ FailsAt(ctl, ctl')
            \/ ctl.pc = "active" /\ Installs(ctl, ctl')
            \/ /\ Keep(ctl, ctl')
               /\ \/ ctl.pc \in {"refresh", "probe"} /\ ctl'.pc = "return"
                  \/ ctl.pc \in Awaited /\ ctl'.pc = ctl.pc
                  \/ ctl.pc = "staged" /\ ctl'.pc = "commit"
                  \/ ctl.pc = "blocked" /\ ctl'.pc = "high"
      BY DEF Concludes, At
    <2>9. ctl.pc = "probe" => ctl'.pc # "probe"
      BY <2>1, <2>6, <2>8 DEF Halfway, Awaited
    <2> QED BY <2>1, <2>3, <2>4, <2>5, <2>6, <2>7, <2>8, <2>9 DEF Awaited
  <1>4. CASE InfoRoute
    <2>1. /\ Eased /\ Keep(ctl, ctl') /\ ctl'.pc \in {"probe", "return"} /\ ctl.pc = "info"
          /\ trouble' = trouble \/ trouble' = trouble + 1
      BY <1>4, <1>S DEF InfoRoute, At
    <2>2. ctl'.op # "ACTIVATE"
      BY <1>P, <2>1 DEF Keep
    <2> QED BY <1>C, <2>1, <2>2, FailKeeps
  <1>5. CASE AbortRoute
    <2>1. PICK rc : /\ ctl.pc = "abort" /\ Served(ctl.target, "ABORT_SESSION", ctl.arg.id, rc)
                    /\ Keep(ctl, ctl')
                    /\ ctl.target = 1 => At(ctl', "abort", 2)
                    /\ ctl.target = 2 => At(ctl', "failZeroize", 1)
      BY <1>5 DEF AbortRoute
    <2>2. /\ Eased /\ (trouble' = trouble \/ trouble' = trouble + 1)
          /\ ctl.op = "ACTIVATE" /\ ctl.arg \in Material
      BY <1>0, <1>P, <1>S, <2>1 DEF ControlInv
    <2>3. trouble' <= 1 => Tied(p1', ctl.arg) /\ Tied(p2', ctl.arg)
      <3>1. trouble' <= 1 => trouble <= 1
        BY <1>N, <2>2
      <3> QED BY <2>1, <2>2, <3>1, TiedStable DEF Eased, FailInv
    <2>4. ASSUME trouble' = 0
          PROVE  /\ ctl.target = 1 => Gone(p1')
                 /\ ctl.target = 2 => Gone(p1') /\ Gone(p2')
      <3>1. trouble = 0 /\ trouble' = trouble /\ trouble <= 1
        BY <1>N, <2>2, <2>4
      <3>2. Tied(p1, ctl.arg) /\ Tied(p2, ctl.arg)
        BY <2>1, <3>1 DEF FailInv
      <3>3. ctl.target = 2 => Gone(p1')
        BY <1>G, <2>1, <2>2, <3>1 DEF FailInv
      <3>4. /\ ctl.target = 1 => Gone(p1')
            /\ ctl.target = 2 => Gone(p2')
        <4>1. CASE /\ ctl.target = 1 => P1Answered("ABORT_SESSION", ctl.arg.id)
                   /\ ctl.target = 2 => P2Answered("ABORT_SESSION", ctl.arg.id)
          BY <2>2, <3>2, <4>1, AbortReleases
             DEF P1Answered, P2Answered, P1Moved, P2Moved
        <4> QED BY <1>P, <2>1, <3>1, <4>1, ServedOrGone
      <3> QED BY <3>3, <3>4
    <2>5. /\ ctl'.op = "ACTIVATE" /\ ctl'.arg = ctl.arg
          /\ \/ ctl.target = 1 /\ ctl'.pc = "abort" /\ ctl'.target = 2
             \/ ctl.target = 2 /\ ctl'.pc = "failZeroize"
      BY <1>P, <2>1, <2>2 DEF Keep, At, Targets
    <2> QED BY <2>3, <2>4, <2>5 DEF FailInv
  <1>6. CASE CloseRoute
    <2>1. /\ Eased /\ Keep(ctl, ctl') /\ ctl'.pc \in {"close", "closed"} /\ ctl.pc = "close"
          /\ trouble' = trouble \/ trouble' = trouble + 1
      BY <1>6, <1>P, <1>S DEF CloseRoute, At, Targets
    <2> QED BY <1>C, <2>1, FailKeeps
  <1>7. CASE SendRoute
    <2>1. /\ ctl.pc \in {"rx", "load", "arrive", "read", "ack"} /\ Eased
          /\ trouble' = trouble \/ trouble' = trouble + 1
          /\ ctl'.pc \in {"return", "load", "encrypt", "arrive", "read", "ack"}
          /\ ctl'.op = ctl.op
      BY <1>7, <1>S DEF SendRoute, At, Keep, Counts
    <2>2. ctl.op = "SEND" /\ (trouble' <= 1 => trouble <= 1)
      BY <1>N, <1>P, <2>1
    <2> QED BY <1>G, <2>1, <2>2 DEF FailInv
  <1>8. CASE StartRoute
    <2>1. ctl.op = "NONE" /\ p1' = p1 /\ p2' = p2 /\ trouble' = trouble
      BY <1>8, <1>P DEF StartRoute, Silent, p1vars, p2vars
    <2>2. trouble <= 1 => Gone(p1) /\ Gone(p2)
      BY <2>1 DEF FailInv
    <2>3. ctl'.pc \in {"tiny", "zero", "close", "test", "refresh", "info", "rx"}
      BY <1>8 DEF StartRoute
    <2> QED BY <1>T, <2>1, <2>2, <2>3 DEF FailInv
  <1>9. CASE LocalRoute
    <2>1. /\ p1' = p1 /\ p2' = p2 /\ trouble' = trouble /\ ctl'.op = ctl.op
          /\ ctl'.arg = ctl.arg /\ Quiet
      BY <1>9 DEF LocalRoute, Silent, p1vars, p2vars, Turns
    <2>2. \/ ctl.pc = "tiny" /\ ctl'.pc \in {"failAbort", "stage"} /\ ctl'.target = 1
          \/ ctl.pc = "high" /\ ctl'.pc = "active"
          \/ ctl.pc = "failAbort" /\ ctl'.pc = "abort" /\ ctl'.target = 1
          \/ /\ ctl.pc = "failZeroize" /\ ctl'.pc = "zero" /\ ctl'.target = 1
             /\ ctl'.sub = "request"
          \/ ctl.pc = "zeroState" /\ ctl'.pc = "zeroCode"
          \/ ctl.pc \in {"zeroCode", "closed"} /\ ctl'.pc = "return"
      BY <1>9 DEF LocalRoute, Turns, At
    <2>3. CASE ctl.pc \in {"tiny", "high", "failAbort", "failZeroize", "zeroState"}
      <3>1. ctl.pc \in {"tiny", "high", "failAbort", "failZeroize"} => ctl.op = "ACTIVATE"
        BY <1>P
      <3> QED BY <1>T, <2>1, <2>2, <2>3, <3>1 DEF FailInv
    <2>4. CASE ctl.pc \in {"zeroCode", "closed"}
      <3>1. trouble <= 1 => Gone(p1) /\ Gone(p2)
        BY <1>P, <2>4 DEF FailInv
      <3>2. ~ctl.commit
        BY <1>0, <2>4 DEF ControlInv
      <3>3. trouble <= 1 => Keyless(p1) /\ Keyless(p2)
        BY <2>1, <3>1, <3>2, LowErases
      <3> QED BY <2>1, <2>2, <2>4, <3>1, <3>3 DEF FailInv
    <2> QED BY <2>2, <2>3, <2>4
  <1>10. CASE FinishRoute \/ ContainRoute
    <2>1. /\ p1' = p1 /\ p2' = p2 /\ trouble' = trouble /\ ctl'.pc = "idle"
          /\ ctl.pc \in {"return", "idle"}
      BY <1>10 DEF FinishRoute, ContainRoute, Silent, p1vars, p2vars, At
    <2>2. trouble <= 1 => Gone(p1) /\ Gone(p2)
      BY <1>P, <2>1 DEF FailInv
    <2> QED BY <2>1, <2>2 DEF FailInv
  <1>12. CASE WorldRoute
    BY <1>12, FailKeeps DEF WorldRoute, Kept
  <1> QED BY <1>0, <1>1, <1>2, <1>3, <1>4, <1>5, <1>6, <1>7, <1>8, <1>9, <1>10,
             <1>12, Routes DEF ControllerRoute

(* The calm facts hold in every reachable state. *)
LEMMA CalmInductive ==
  SysSpec => []CalmInv
  <1>1. SysInit => CalmInv
    BY DEF SysInit, ControllerInit, P1Init, P2Init, P2Reset, CalmInv
  <1>2. SharedInv /\ CalmInv /\ [SysNext]_sysvars => CalmInv'
    <2>1. CASE UNCHANGED sysvars
      <3>1. UNCHANGED <<p1, p2, ctl, air, enable, fatal, secure, trouble>>
        BY <2>1 DEF sysvars, P1Vars, P2Vars, p1vars, p2vars, nets
      <3> QED BY <3>1 DEF CalmInv
    <2> QED BY <2>1, CalmStep
  <1> QED BY <1>1, <1>2, SharedInductive, PTL DEF SysSpec

(* An activation that fails leaves secure_enable low, no session in the     *)
(* controller and, with at most one lost exchange, fault or reset in the    *)
(* whole history, no key in either Primer.                                  *)
THEOREM FailureTheorem ==
  SysSpec => []FailureErases
  <1>1. SysInit => FailInv
    BY DEF SysInit, ControllerInit, P1Init, P1Reset, P2Init, P2Reset, FailInv, Gone,
           Establishing
  <1>2. SharedInv /\ SharedInv' /\ CalmInv /\ CalmInv' /\ FailInv
          /\ [SysNext]_sysvars => FailInv'
    <2>1. CASE UNCHANGED sysvars
      <3>1. UNCHANGED <<p1, p2, ctl, trouble>>
        BY <2>1 DEF sysvars, P1Vars, P2Vars, p1vars, p2vars
      <3> QED BY <3>1 DEF FailInv
    <2> QED BY <2>1, FailStep
  <1>3. SharedInv /\ FailInv => FailureErases
    BY DEF SharedInv, ControlInv, FailInv, FailureErases, Returned
  <1> QED BY <1>1, <1>2, <1>3, SharedInductive, CalmInductive, PTL DEF SysSpec

-----------------------------------------------------------------------------
(* Telemetry. *)

FrameFields == {"id", "key", "seq", "tel"}

(* x left Primer #1 in its present session. *)
Left(x) == /\ DOMAIN x = FrameFields /\ x.seq \in Nat /\ x.seq < p1.seq
           /\ <<x.seq, x.tel>> \in used

(* While Primer #1 has a session, every frame on its way, in Primer #2 or   *)
(* read out of it comes from that session, under a number already counted.  *)
FrameInv ==
  /\ p1.seq \in Nat \ {0} /\ p2.last \in Nat
  /\ p1.active # None =>
       /\ p1.core \in {"ASCON", "UART"} => <<p1.seq, p1.tel>> \in used
       /\ air # None => Left(air)
       /\ p2.core \in {"VALIDATE", "DECRYPT"} => Left(p2.cand)
       /\ p2.result # None => Left(p2.result)
       /\ p2.active # None => p2.last < p1.seq

(* Primer #1 is committed while Primer #2 has no session; the controller's  *)
(* count never exceeds the number of the last frame Primer #2 accepted; a   *)
(* result the controller has compared is still there when it acknowledges.  *)
CountInv ==
  /\ ctl.sequence \in Nat
  /\ ctl.op = "SEND" => ctl.session # None
  /\ ctl.pc = "staged" \/ (ctl.pc = "commit" /\ ctl.target = 1) => p2.session \notin Live
  /\ ctl.op # "ACTIVATE" /\ ctl.session # None /\ p2.active # None => ctl.sequence <= p2.last
  /\ ctl.pc = "ack" /\ p2.active # None =>
       /\ p2.result # None /\ p2.result.seq = ctl.sequence + 1 /\ p2.result.tel = ctl.arg

(* Primer #2 takes the frame f, if any, and moves the ones it has on. *)
Relays(p, d, cmd, f) ==
  /\ d.core \in {"VALIDATE", "DECRYPT"} =>
       /\ d.active = p.active
       /\ \/ p.core \in {"VALIDATE", "DECRYPT"} /\ d.cand = p.cand
          \/ f # None /\ d.cand = f
  /\ d.active # None =>
       \/ /\ d.active = p.active /\ d.last = p.last
          /\ d.result = p.result \/ (cmd = "ACK_AUTH_RESULT" /\ d.result = None)
       \/ /\ d.active = p.active /\ p.core = "DECRYPT"
          /\ d.result = p.cand /\ d.last = p.cand.seq
       \/ p.active = None /\ d.last = 0 /\ d.result = None
  /\ p.last \in Nat => d.last \in Nat

(* Its session goes on, or is over. *)
Advances(p, d, cmd) ==
  d.active # None =>
    /\ p.active # None /\ d.last >= p.last
    /\ p.result # None /\ cmd # "ACK_AUTH_RESULT" => d.result = p.result

(* Doing nothing is a relay. *)
LEMMA StillRelays ==
  ASSUME Sound2(p2), NEW cmd
  PROVE  Relays(p2, p2, cmd, None)
  BY DEF Relays, Sound2, Banked, Live

(* A relay without STAGE and COMMIT advances the session. *)
LEMMA RelayAdvances ==
  ASSUME Sound2(p2), Sound2(p2'), Moved(p2, p2', "NONE", None), p2.last \in Nat,
         NEW cmd, NEW f, Relays(p2, p2', cmd, f)
  PROVE  Advances(p2, p2', cmd)
  <1> SUFFICES ASSUME p2'.active # None
               PROVE  /\ p2.active # None /\ p2'.last >= p2.last
                      /\ p2.result # None /\ cmd # "ACK_AUTH_RESULT" => p2'.result = p2.result
    BY DEF Advances
  <1>1. p2.active # None
    BY DEF Moved, Sound2, Banked, Live
  <1>2. p2.core = "DECRYPT" => p2.cand.seq = p2.last + 1 /\ p2.result = None
    BY DEF Sound2
  <1> QED BY <1>1, <1>2 DEF Relays

(* A step of Primer #2. *)
LEMMA FramesRelayed ==
  ASSUME FrameInv, Sound2(p2), Sound2(p2'), NEW cmd, NEW f, Relays(p2, p2', cmd, f),
         UNCHANGED <<p1, used>>, air' = air \/ air' = None,
         f # None /\ p1.active # None => Left(f)
  PROVE  FrameInv'
  <1>1. p1'.seq \in Nat \ {0} /\ p2'.last \in Nat
    BY DEF FrameInv, Relays
  <1>2. \A x : Left(x) => Left(x)'
    BY DEF Left
  <1>3. SUFFICES ASSUME p1.active # None
                 PROVE  /\ p1.core \in {"ASCON", "UART"} => <<p1.seq, p1.tel>> \in used
                        /\ air' # None => Left(air)'
                        /\ p2'.core \in {"VALIDATE", "DECRYPT"} => Left(p2.cand)'
                        /\ p2'.result # None => Left(p2.result)'
                        /\ p2'.active # None => p2'.last < p1.seq
    BY <1>1 DEF FrameInv
  <1>4. air' # None => Left(air)'
    BY <1>3 DEF FrameInv, Left
  <1>5. p2'.core \in {"VALIDATE", "DECRYPT"} => Left(p2.cand)'
    BY <1>3 DEF FrameInv, Left, Relays
  <1>6. p2'.result # None => Left(p2.result)'
    <2>1. p2'.result # None => p2'.active # None
      BY DEF Sound2
    <2> QED BY <1>3, <2>1 DEF FrameInv, Left, Relays
  <1>7. p2'.active # None => p2'.last < p1.seq
    BY <1>3 DEF FrameInv, Left, Relays
  <1> QED BY <1>3, <1>4, <1>5, <1>6, <1>7 DEF FrameInv

(* A step of Primer #1. *)
LEMMA FramesNumbered ==
  ASSUME FrameInv, Sound1, Sound2(p2), NEW cmd, Numbered(p1, p1', used, used', cmd),
         p2' = p2,
         cmd = "COMMIT_SESSION" => /\ p2.active = None /\ air' = None
                                   /\ p2.core \notin {"VALIDATE", "DECRYPT"},
         \/ air' = air
         \/ /\ p1.core = "UART" /\ p1'.seq = p1.seq + 1 /\ p1'.active = p1.active
            /\ cmd # "COMMIT_SESSION"
            /\ air' = [id |-> p1.active.id, key |-> p1.active.key, seq |-> p1.seq,
                       tel |-> p1.tel]
  PROVE  FrameInv'
  <1>1. p1'.seq \in Nat \ {0} /\ p2'.last \in Nat
    BY DEF FrameInv, Numbered
  <1>2. SUFFICES ASSUME p1'.active # None
                 PROVE  /\ p1'.core \in {"ASCON", "UART"} => <<p1'.seq, p1'.tel>> \in used'
                        /\ air' # None => Left(air)'
                        /\ p2.core \in {"VALIDATE", "DECRYPT"} => Left(p2.cand)'
                        /\ p2.result # None => Left(p2.result)'
                        /\ p2.active # None => p2.last < p1'.seq
    BY <1>1 DEF FrameInv
  <1>3. CASE cmd = "COMMIT_SESSION" /\ p1'.core = "IDLE"
    BY <1>3 DEF Sound2
  <1>4. CASE /\ p1'.active = p1.active /\ used \subseteq used' /\ p1'.seq >= p1.seq
             /\ p1'.core \in {"ASCON", "UART"} =>
                  \/ <<p1'.seq, p1'.tel>> \in used'
                  \/ p1.core \in {"ASCON", "UART"} /\ p1'.seq = p1.seq /\ p1'.tel = p1.tel
    <2>1. p1.active # None
      BY <1>2, <1>4
    <2>2. p1'.core \in {"ASCON", "UART"} => <<p1'.seq, p1'.tel>> \in used'
      BY <1>4, <2>1 DEF FrameInv
    <2>3. /\ p2.core \in {"VALIDATE", "DECRYPT"} => Left(p2.cand)'
          /\ p2.result # None => Left(p2.result)'
      BY <1>1, <1>4, <2>1 DEF FrameInv, Left
    <2>4. p2.active # None => p2.last < p1'.seq
      BY <1>1, <1>4, <2>1 DEF FrameInv
    <2>5. air' # None => Left(air)'
      <3>1. CASE air' = air
        BY <1>1, <1>4, <2>1, <3>1 DEF FrameInv, Left
      <3>2. CASE /\ p1.core = "UART" /\ p1'.seq = p1.seq + 1
                 /\ air' = [id |-> p1.active.id, key |-> p1.active.key, seq |-> p1.seq,
                            tel |-> p1.tel]
        <4>1. <<p1.seq, p1.tel>> \in used' /\ p1.seq \in Nat
          BY <1>4, <2>1, <3>2 DEF FrameInv
        <4>2. /\ DOMAIN air' = FrameFields /\ air'.seq = p1.seq /\ air'.tel = p1.tel
          BY <3>2 DEF FrameFields
        <4> QED BY <3>2, <4>1, <4>2 DEF Left
      <3> QED BY <1>3, <3>1, <3>2
    <2> QED BY <2>2, <2>3, <2>4, <2>5
  <1>5. p1.seq \in Nat
    BY DEF FrameInv
  <1> QED BY <1>2, <1>3, <1>4, <1>5 DEF Numbered

(* What an exchange does to the frames. *)
LEMMA ServedRelays ==
  ASSUME SharedInv, NEW t, NEW cmd, NEW arg, NEW rc, Served(t, cmd, arg, rc)
  PROVE  /\ Relays(p2, p2', cmd, None) /\ Sound2(p2') /\ air' = None /\ air = None
         /\ p2.core \notin {"VALIDATE", "DECRYPT"}
         /\ \/ UNCHANGED <<p1, used>>
            \/ t = 1 /\ p2' = p2 /\ Numbered(p1, p1', used, used', cmd)
  <1>1. Sound2(p2) /\ Sound2(p2') /\ Quiet /\ UNCHANGED air
    BY DEF SharedInv, Served
  <1>2. \/ UNCHANGED <<p1, used>>
        \/ t = 1 /\ p2' = p2 /\ Numbered(p1, p1', used, used', cmd)
    BY DEF Served, Answering, P1Answered, P1Moved, p1vars, p2vars
  <1>3. p2' = p2 \/ Received(p2, p2', cmd, None)
    BY DEF Served, Answering, P2Answered, P2Moved, p2vars
  <1>4. Relays(p2, p2', cmd, None)
    <2>1. CASE p2' = p2
      BY <1>1, <2>1, StillRelays
    <2>2. CASE Received(p2, p2', cmd, None)
      BY <2>2 DEF Received, Relays
    <2> QED BY <1>3, <2>1, <2>2
  <1> QED BY <1>1, <1>2, <1>4 DEF Quiet

(* ... keeps the invariant, also the commit of Primer #1. *)
LEMMA FramesServed ==
  ASSUME SharedInv, FrameInv, NEW t, NEW cmd, NEW arg, NEW rc, Served(t, cmd, arg, rc),
         t = 1 /\ cmd = "COMMIT_SESSION" => p2.session \notin Live
  PROVE  FrameInv'
  <1>1. Sound1 /\ Sound2(p2)
    BY DEF SharedInv
  <1>2. /\ Relays(p2, p2', cmd, None) /\ Sound2(p2') /\ air' = None /\ air = None
        /\ p2.core \notin {"VALIDATE", "DECRYPT"}
        /\ \/ UNCHANGED <<p1, used>>
           \/ t = 1 /\ p2' = p2 /\ Numbered(p1, p1', used, used', cmd)
    BY ServedRelays
  <1>3. CASE UNCHANGED <<p1, used>>
    BY <1>1, <1>2, <1>3, FramesRelayed
  <1>4. CASE t = 1 /\ p2' = p2 /\ Numbered(p1, p1', used, used', cmd)
    <2>1. cmd = "COMMIT_SESSION" => p2.active = None
      BY <1>1, <1>4 DEF Sound2, Banked
    <2> QED BY <1>1, <1>2, <1>4, <2>1, FramesNumbered
  <1> QED BY <1>2, <1>3, <1>4

(* A step outside the controller is one of Primer #1, or Primer #2 takes    *)
(* what is on the line, damaged or not.                                     *)
LEMMA WorldRelays ==
  ASSUME SharedInv, FrameInv,
         DeadlinePasses \/ P1Step \/ P2Step \/ UartStep \/ TinyStep \/ ResetStep
  PROVE  FrameInv' /\ Advances(p2, p2', "NONE")
  <1>0. Sound1 /\ Sound2(p2) /\ Sound /\ p1.seq \in Nat /\ p2.last \in Nat
    BY DEF SharedInv, Sound, ControlInv, FrameInv
  <1>1. Sound2(p2') /\ Moved(p2, p2', "NONE", None)
    BY <1>0, WorldLeads DEF WorldRoute, Eased
  <1>R. ASSUME NEW f, Relays(p2, p2', "NONE", f), UNCHANGED <<p1, used>>,
               air' = air \/ air' = None, f # None /\ p1.active # None => Left(f)
        PROVE  FrameInv' /\ Advances(p2, p2', "NONE")
    BY <1>0, <1>1, <1>R, FramesRelayed, RelayAdvances
  <1>Q. ASSUME UNCHANGED <<p1, p2, used>>, air' = air \/ air' = None
        PROVE  FrameInv' /\ Advances(p2, p2', "NONE")
    BY <1>0, <1>Q, <1>R, StillRelays
  <1>F. ASSUME NEW f, P2Receive(f)
        PROVE  Relays(p2, p2', "NONE", f)
    <2>1. P2Moved(p2', "NONE", None, f)
      BY <1>0, <1>F, ProgressMoves DEF P2Receive
    <2> QED BY <2>1 DEF P2Moved, Received, Relays
  <1>2. CASE DeadlinePasses \/ TinyStep
    BY <1>2, <1>Q DEF DeadlinePasses, TinyStep, p1vars, p2vars
  <1>3. CASE P1Step
    <2>1. /\ P1Moved("NONE", None) /\ p2' = p2
          /\ \/ air' = air
             \/ /\ p1.core = "UART" /\ p1'.active = p1.active /\ p1'.seq = p1.seq + 1
                /\ air' = [id |-> p1.active.id, key |-> p1.active.key, seq |-> p1.seq,
                           tel |-> p1.tel]
      BY <1>0, <1>3, P1EngineMoves DEF P1Step, p2vars
    <2>2. FrameInv'
      BY <1>0, <2>1, FramesNumbered DEF P1Moved
    <2>3. Advances(p2, p2', "NONE")
      BY <1>0, <2>1 DEF Advances
    <2> QED BY <2>2, <2>3
  <1>4. CASE P2Step
    <2>1. UNCHANGED <<p1, used, air>>
      BY <1>4 DEF P2Step, p1vars
    <2>2. CASE P2Receive(None)
      BY <1>F, <1>R, <2>1, <2>2
    <2>3. CASE P2Engine
      <3>1. p2'.core \in {"VALIDATE", "DECRYPT"} => p2'.active # None
        BY <1>1 DEF Sound2, Banked, Live
      <3>2. Relays(p2, p2', "NONE", None)
        BY <1>0, <2>3, <3>1, P2EngineMoves DEF Relays
      <3> QED BY <1>R, <2>1, <3>2
    <2> QED BY <1>4, <2>2, <2>3 DEF P2Step
  <1>5. CASE UartStep
    <2>1. UNCHANGED <<p1, used>> /\ air # None /\ air' = None
      BY <1>5 DEF UartStep
    <2>2. p1.active # None => Left(air)
      BY <2>1 DEF FrameInv
    <2>3. CASE P2Receive(air)
      BY <1>F, <1>R, <2>1, <2>2, <2>3
    <2>4. CASE P2Receive([air EXCEPT !.key = None])
      <3> DEFINE f == [air EXCEPT !.key = None]
      <3>1. p1.active # None => Left(f)
        BY <2>2 DEF Left, FrameFields
      <3> HIDE DEF f
      <3>2. P2Receive(f)
        BY <2>4 DEF f
      <3> QED BY <1>F, <1>R, <2>1, <3>1, <3>2
    <2>5. CASE UNCHANGED <<nets, reply, p2vars>>
      BY <1>Q, <2>1, <2>5 DEF p2vars
    <2> QED BY <1>5, <2>3, <2>4, <2>5 DEF UartStep
  <1>6. CASE ResetStep
    <2>1. CASE P1PowerCycle /\ P1Record /\ UNCHANGED p2vars
      <3>1. Numbered(p1, p1', used, used', "NONE") /\ air' = air /\ p2' = p2
        BY <2>1, P1ResetMoves DEF P1Moved, p2vars
      <3>2. Advances(p2, p2', "NONE")
        BY <1>0, <3>1 DEF Advances
      <3> QED BY <1>0, <3>1, <3>2, FramesNumbered
    <2>2. CASE P2PowerCycle /\ UNCHANGED p1vars
      <3>1. Relays(p2, p2', "NONE", None)
        BY <2>2, P2ResetMoves DEF Relays
      <3> QED BY <1>R, <2>2, <3>1 DEF p1vars
    <2> QED BY <1>6, <2>1, <2>2 DEF ResetStep
  <1> QED BY <1>2, <1>3, <1>4, <1>5, <1>6

(* The frames through every step. *)
LEMMA FrameStep ==
  ASSUME SharedInv, FrameInv, CountInv, SysNext
  PROVE  FrameInv'
  <1>0. Sound
    BY DEF SharedInv, Sound, ControlInv
  <1>1. ASSUME NEW t, NEW cmd, NEW arg, NEW rc, Served(t, cmd, arg, rc), cmd # "COMMIT_SESSION"
        PROVE  FrameInv'
    BY <1>1, FramesServed
  <1>2. CASE ExecuteRoute
    <2>1. PICK cmd, arg, rc :
             /\ ctl.pc \in RetainedLabels /\ Served(ctl.target, cmd, arg, rc)
             /\ cmd \in {Command[ctl.pc], "GET_TXN_RESULT", "RETIRE_TXN_RESULT"}
      BY <1>2 DEF ExecuteRoute
    <2>2. cmd = "COMMIT_SESSION" => ctl.pc = "commit"
      BY <2>1 DEF Command, RetainedLabels
    <2> QED BY <2>1, <2>2, FramesServed DEF CountInv
  <1>3. CASE StageRoute \/ StatusRoute \/ InfoRoute \/ AbortRoute \/ CloseRoute \/ SendRoute
    BY <1>1, <1>3 DEF StageRoute, StatusRoute, InfoRoute, AbortRoute, CloseRoute, SendRoute
  <1>4. CASE Silent
    BY <1>4 DEF Silent, p1vars, p2vars, FrameInv, Left
  <1>5. CASE StartRoute \/ LocalRoute \/ FinishRoute \/ ContainRoute
    BY <1>4, <1>5 DEF StartRoute, LocalRoute, FinishRoute, ContainRoute
  <1>6. CASE DeadlinePasses \/ P1Step \/ P2Step \/ UartStep \/ TinyStep \/ ResetStep
    BY <1>6, WorldRelays
  <1> QED BY <1>0, <1>2, <1>3, <1>5, <1>6, Routes DEF SysNext, ControllerRoute

(* A step of a command that changes no label CountInv speaks of. *)
LEMMA CountKeeps ==
  ASSUME SharedInv, FrameInv, CountInv, Moved(p2, p2', "NONE", None), p2'.last \in Nat,
         Keep(ctl, ctl'), NEW cmd, Advances(p2, p2', cmd),
         ctl'.pc = "staged" \/ (ctl'.pc = "commit" /\ ctl'.target = 1) =>
           ctl.pc = "staged" \/ (ctl.pc = "commit" /\ ctl.target = 1),
         ctl'.pc = "ack" => ctl.pc = "ack" /\ cmd # "ACK_AUTH_RESULT"
  PROVE  CountInv'
  <1>1. p2.session \notin Live => p2'.session \notin Live
    BY DEF Moved
  <1>2. p2'.active # None => p2.active # None /\ p2'.last >= p2.last
    BY DEF Advances
  <1>3. p2.last \in Nat /\ ctl.sequence \in Nat
    BY DEF FrameInv, CountInv
  <1>4. /\ ctl'.op = ctl.op /\ ctl'.arg = ctl.arg /\ ctl'.session = ctl.session
        /\ ctl'.sequence = ctl.sequence
    BY DEF Keep
  <1>5. ctl'.op # "ACTIVATE" /\ ctl'.session # None /\ p2'.active # None =>
          ctl'.sequence <= p2'.last
    BY <1>2, <1>3, <1>4 DEF CountInv
  <1>6. ctl'.pc = "ack" /\ p2'.active # None =>
          /\ p2'.result # None /\ p2'.result.seq = ctl'.sequence + 1
          /\ p2'.result.tel = ctl'.arg
    BY <1>2, <1>4 DEF Advances, CountInv
  <1> QED BY <1>1, <1>4, <1>5, <1>6 DEF CountInv

(* The acknowledged result is the one the controller has compared. *)
LEMMA AckDelivers ==
  ASSUME SharedInv, FrameInv, CountInv, ctl.pc = "ack", ctl.op = "SEND",
         NEW arg, Served(2, "ACK_AUTH_RESULT", arg, "OK"),
         arg = [id |-> ctl.session.id, seq |-> ctl.sequence + 1]
  PROVE  /\ p2.active # None /\ p2'.last = ctl.sequence + 1 /\ p2'.result = None
         /\ p2.result.seq = ctl.sequence + 1 /\ p2.result.tel = ctl.arg /\ p2.result # None
         /\ UNCHANGED p1
  <1>1. P2Answered("ACK_AUTH_RESULT", arg) /\ reply' = "OK" /\ UNCHANGED p1vars
    BY DEF Served, Answering
  <1>2. /\ p2'.active = p2.active /\ p2'.last = p2.last /\ p2'.result = None
        /\ \/ p2.result # None
           \/ p2.ack = arg
    BY <1>1 DEF P2Answered, Delivers
  <1>3. arg # None
    <2>1. ctl.session \in Material
      BY DEF CountInv, SharedInv, ControlInv
    <2>2. ctl.session.id \in Ids /\ ctl.sequence + 1 \in Nat
      BY <2>1 DEF Material, CountInv
    <2>3. arg \in [id: Ids, seq: Nat]
      BY <2>2
    <2> QED BY <2>3, SystemAssumption DEF SystemAssumption
  <1>4. p2.active # None
    BY <1>2, <1>3 DEF SharedInv, Sound2
  <1>5. p2.result # None /\ p2.result.seq = ctl.sequence + 1 /\ p2.result.tel = ctl.arg
    BY <1>4 DEF CountInv
  <1>6. p2.last = p2.result.seq
    BY <1>5 DEF SharedInv, Sound2
  <1> QED BY <1>1, <1>2, <1>4, <1>5, <1>6 DEF p1vars

(* The count through every route. *)
LEMMA CountStep ==
  ASSUME SharedInv, FrameInv, FrameInv', CountInv, SysNext
  PROVE  CountInv'
  <1>0. Sound1 /\ Sound2(p2) /\ Sound /\ ControlInv /\ p2.last \in Nat /\ p2'.last \in Nat
    BY DEF SharedInv, Sound, ControlInv, FrameInv
  <1>C. ControlInv'
    BY <1>0, ControlStep
  <1>P. /\ Program(ctl.op, ctl.pc) /\ Program(ctl'.op, ctl'.pc) /\ ctl.target \in Targets
        /\ ctl'.target \in Targets
    BY <1>0, <1>C DEF ControlInv
  <1>S. ASSUME NEW t, NEW cmd, NEW arg, NEW rc, Served(t, cmd, arg, rc),
               cmd \notin {"STAGE_SESSION", "COMMIT_SESSION"}
        PROVE  Advances(p2, p2', cmd) /\ Moved(p2, p2', "NONE", None)
    <2>1. Eased /\ Sound2(p2') /\ Relays(p2, p2', cmd, None)
      BY <1>0, <1>S, ServedMoves, ServedRelays
    <2> QED BY <1>0, <2>1, RelayAdvances DEF Eased
  <1> USE DEF Program, Establishing, Released, Clearing, Closing, Sending
  <1>1. CASE StageRoute
    <2>1. PICK rc : /\ ctl.pc = "stage" /\ Served(ctl.target, "STAGE_SESSION", ctl.arg, rc)
                    /\ Keep(ctl, ctl')
                    /\ rc # "OK" => At(ctl', "failAbort", 1)
                    /\ rc = "OK" /\ ctl.target = 1 => At(ctl', "stage", 2)
                    /\ rc = "OK" /\ ctl.target = 2 => At(ctl', "staged", 1)
      BY <1>1 DEF StageRoute
    <2>2. ctl'.op = "ACTIVATE" /\ ctl'.sequence = ctl.sequence
      BY <1>P, <2>1 DEF Keep
    <2>3. CASE rc = "OK" /\ ctl.target = 2
      <3>1. P2Answered("STAGE_SESSION", ctl.arg) /\ reply' = "OK"
        BY <2>1, <2>3 DEF Served, Answering
      <3>2. p2'.session \notin Live
        BY <3>1 DEF P2Answered, Answered
      <3> QED BY <2>1, <2>2, <2>3, <3>2 DEF CountInv, At
    <2>4. CASE ctl'.pc \in {"failAbort", "stage"}
      BY <2>2, <2>4 DEF CountInv
    <2> QED BY <1>P, <2>1, <2>3, <2>4 DEF Targets, At
  <1>2. CASE ExecuteRoute
    <2>1. PICK cmd, arg, rc, code :
             /\ ctl.pc \in RetainedLabels /\ Served(ctl.target, cmd, arg, rc)
             /\ cmd \in {Command[ctl.pc], "GET_TXN_RESULT", "RETIRE_TXN_RESULT"}
             /\ Stays(ctl, ctl') \/ EndsAt(ctl, ctl', code)
      BY <1>2 DEF ExecuteRoute
    <2>2. CASE ctl.pc = "commit"
      <3>1. /\ ctl'.op = "ACTIVATE" /\ ctl'.sequence = ctl.sequence
            /\ ctl'.pc \in {"commit", "failAbort", "blocked"}
            /\ ctl'.pc = "commit" /\ ctl'.target = 1 => ctl.target = 1
        BY <1>P, <2>1, <2>2 DEF Stays, EndsAt, Keep, At, Targets
      <3>2. ctl.target = 1 => p2' = p2
        BY <1>0, <2>1, ServedMoves
      <3> QED BY <2>2, <3>1, <3>2 DEF CountInv
    <2>3. CASE ctl.pc # "commit"
      <3>1. cmd \notin {"STAGE_SESSION", "COMMIT_SESSION"}
        BY <2>1, <2>3 DEF Command, RetainedLabels
      <3>2. /\ Keep(ctl, ctl')
            /\ ctl'.pc \in {"test", "zero", "encrypt", "return", "refresh", "zeroState", "arrive"}
        BY <1>P, <2>1, <2>3 DEF Stays, EndsAt, At, Targets, RetainedLabels
      <3> QED BY <1>0, <1>S, <2>1, <3>1, <3>2, CountKeeps
    <2> QED BY <2>2, <2>3
  <1>3. CASE StatusRoute
    <2>1. PICK rc : /\ Served(ctl.target, "GET_STATUS", None, rc)
                    /\ ctl.pc \in Awaited \cup {"refresh", "probe"}
                    /\ \/ FailsAt(ctl, ctl') \/ Halfway(ctl, ctl', Status(1))
                       \/ Concludes(ctl, ctl', Status(2))
      BY <1>3 DEF StatusRoute
    <2>2. Advances(p2, p2', "GET_STATUS") /\ Moved(p2, p2', "NONE", None)
      BY <1>S, <2>1
    <2>3. CASE ctl.pc = "active" /\ Installs(ctl, ctl')
      <3>1. ctl'.op = "ACTIVATE" /\ ctl'.pc = "return" /\ ctl'.sequence = 0
        BY <1>P, <2>3 DEF Installs, At
      <3> QED BY <3>1 DEF CountInv
    <2>4. CASE /\ Keep(ctl, ctl') /\ ctl'.pc # "ack"
               /\ ctl'.pc \in {"staged", "commit"} => ctl.pc = "staged"
      BY <1>0, <2>2, <2>4, CountKeeps
    <2>5. FailsAt(ctl, ctl') =>
            /\ Keep(ctl, ctl')
            /\ ctl'.pc \in {"failAbort", "failZeroize", "return"}
      BY <2>1 DEF FailsAt, At, Awaited
    <2>6. Halfway(ctl, ctl', Status(1)) =>
            /\ Keep(ctl, ctl')
            /\ ctl'.pc = ctl.pc \/ ctl'.pc = "info"
      BY DEF Halfway
    <2>7. Concludes(ctl, ctl', Status(2)) =>
            \/ FailsAt(ctl, ctl')
            \/ ctl.pc = "active" /\ Installs(ctl, ctl')
            \/ /\ Keep(ctl, ctl')
               /\ \/ ctl'.pc \in {"return", ctl.pc, "high"}
                  \/ ctl.pc = "staged" /\ ctl'.pc = "commit"
      BY DEF Concludes, At
    <2> QED BY <2>1, <2>3, <2>4, <2>5, <2>6, <2>7 DEF Awaited
  <1>4. CASE InfoRoute
    <2>1. PICK rc : Served(ctl.target, "GET_INFO", None, rc)
      BY <1>4 DEF InfoRoute
    <2>2. Keep(ctl, ctl') /\ ctl'.pc \in {"probe", "return"}
      BY <1>4 DEF InfoRoute, At
    <2> QED BY <1>0, <1>S, <2>1, <2>2, CountKeeps
  <1>5. CASE AbortRoute
    <2>1. PICK rc : Served(ctl.target, "ABORT_SESSION", ctl.arg.id, rc)
      BY <1>5 DEF AbortRoute
    <2>2. Keep(ctl, ctl') /\ ctl'.pc \in {"abort", "failZeroize"}
      BY <1>5, <1>P DEF AbortRoute, At, Targets
    <2> QED BY <1>0, <1>S, <2>1, <2>2, CountKeeps
  <1>6. CASE CloseRoute
    <2>1. PICK arg, rc : Served(ctl.target, "ABORT_SESSION", arg, rc)
      BY <1>6 DEF CloseRoute
    <2>2. Keep(ctl, ctl') /\ ctl'.pc \in {"close", "closed"}
      BY <1>6, <1>P DEF CloseRoute, At, Targets
    <2> QED BY <1>0, <1>S, <2>1, <2>2, CountKeeps
  <1>7. CASE SendRoute
    <2>1. CASE Keep(ctl, ctl') /\ ctl'.pc # "ack"
      <3>1. PICK t, cmd, arg, rc :
              /\ cmd \notin {"STAGE_SESSION", "COMMIT_SESSION"} /\ Served(t, cmd, arg, rc)
        BY <1>7 DEF SendRoute
      <3>2. ctl'.pc \in {"return", "load", "encrypt", "arrive", "read", "ack"}
        BY <1>7 DEF SendRoute, At
      <3> QED BY <1>0, <1>S, <2>1, <3>1, <3>2, CountKeeps
    <2>2. CASE ctl'.pc = "ack"
      <3>1. PICK arg : /\ Keep(ctl, ctl') /\ ctl.pc = "read"
                       /\ Served(2, "READ_AUTH_RESULT", arg, "OK")
                       /\ p2.result.seq = ctl.sequence + 1 /\ p2.result.tel = ctl.arg
        BY <1>7, <2>2 DEF SendRoute, At
      <3>2. P2Answered("READ_AUTH_RESULT", arg) /\ reply' = "OK"
        BY <3>1 DEF Served, Answering
      <3>3. p2' = p2 /\ p2.result # None
        BY <3>2 DEF P2Answered, Delivers
      <3> QED BY <2>2, <3>1, <3>3 DEF CountInv, Keep
    <2>3. CASE ~Keep(ctl, ctl')
      <3>1. PICK arg : /\ ctl.pc = "ack" /\ At(ctl', "return", 1) /\ Counts(ctl, ctl')
                       /\ Served(2, "ACK_AUTH_RESULT", arg, "OK")
                       /\ arg = [id |-> ctl.session.id, seq |-> ctl.sequence + 1]
        BY <1>7, <2>3 DEF SendRoute
      <3>2. ctl.op = "SEND"
        BY <1>P, <3>1
      <3>3. p2'.last = ctl.sequence + 1
        BY <3>1, <3>2, AckDelivers
      <3>4. ctl'.sequence = ctl.sequence + 1 /\ ctl.sequence \in Nat
        BY <3>1 DEF Counts, CountInv
      <3> QED BY <3>1, <3>2, <3>3, <3>4 DEF CountInv, Counts, At
    <2> QED BY <2>1, <2>2, <2>3
  <1>8. CASE StartRoute
    <2>1. ctl.op = "NONE" /\ p2' = p2
      BY <1>8, <1>P DEF StartRoute, Silent, p2vars
    <2> QED BY <1>8, <2>1 DEF StartRoute, CountInv
  <1>9. CASE LocalRoute
    <2>1. p2' = p2 /\ ctl'.op = ctl.op
      BY <1>9 DEF LocalRoute, Silent, p2vars, Turns
    <2>2. /\ ctl'.pc \in {"failAbort", "stage", "active", "abort", "zero", "zeroCode", "return"}
          /\ \/ ctl'.session = ctl.session /\ ctl'.sequence = ctl.sequence
             \/ ctl'.session = None /\ ctl'.sequence = 0
      BY <1>9 DEF LocalRoute, Turns, At
    <2>3. ctl.op # "SEND"
      BY <1>9, <1>P DEF LocalRoute
    <2> QED BY <2>1, <2>2, <2>3 DEF CountInv
  <1>10. CASE FinishRoute
    <2>1. /\ p2' = p2 /\ ctl'.op = "NONE" /\ ctl'.pc = "idle" /\ ctl.pc = "return"
          /\ ctl'.session = ctl.session /\ ctl'.sequence = ctl.sequence
      BY <1>10 DEF FinishRoute, Silent, p2vars, At
    <2>2. ctl.op = "ACTIVATE" /\ ctl.session # None => ctl.sequence = 0
      BY <1>0, <2>1 DEF ControlInv
    <2> QED BY <1>0, <2>1, <2>2 DEF CountInv
  <1>11. CASE ContainRoute
    BY <1>11, <1>P DEF ContainRoute, CountInv
  <1>12. CASE WorldRoute /\ Advances(p2, p2', "NONE")
    BY <1>0, <1>12, CountKeeps DEF WorldRoute, Kept, Eased
  <1>13. CASE DeadlinePasses \/ P1Step \/ P2Step \/ UartStep \/ TinyStep \/ ResetStep
    BY <1>0, <1>12, <1>13, WorldLeads, WorldRelays
  <1> QED BY <1>0, <1>1, <1>2, <1>3, <1>4, <1>5, <1>6, <1>7, <1>8, <1>9, <1>10, <1>11,
             <1>13, Routes DEF SysNext, ControllerRoute

(* Frames and count in every reachable state. *)
LEMMA TransitInductive ==
  SysSpec => [](SharedInv /\ FrameInv /\ CountInv)
  <1>1. SysInit => FrameInv /\ CountInv
    BY DEF SysInit, ControllerInit, P1Init, P1Reset, P2Init, P2Reset, FrameInv, CountInv
  <1>2. SharedInv /\ FrameInv /\ CountInv /\ [SysNext]_sysvars => FrameInv' /\ CountInv'
    <2>1. CASE UNCHANGED sysvars
      <3>1. UNCHANGED <<p1, p2, ctl, air, used>>
        BY <2>1 DEF sysvars, P1Vars, P2Vars, p1vars, p2vars
      <3> QED BY <3>1 DEF FrameInv, CountInv, Left
    <2> QED BY <2>1, FrameStep, CountStep
  <1> QED BY <1>1, <1>2, SharedInductive, PTL DEF SysSpec

(* In a session that all three share, the controller's count, the last      *)
(* number Primer #2 accepted and the next one of Primer #1 are in order.    *)
THEOREM SequenceTheorem ==
  SysSpec => []SequenceChain
  <1>1. SharedInv /\ FrameInv /\ CountInv => SequenceChain
    BY DEF FrameInv, CountInv, SequenceChain
  <1> QED BY <1>1, TransitInductive, PTL

(* SEND_TELEMETRY that returns OK has delivered this image: Primer #2       *)
(* accepted it under the counted number and has released the result.        *)
THEOREM SendTheorem ==
  SysSpec => SendDelivers
  <1> DEFINE Delivered ==
        ~Returned({"SEND"}) /\ Returned({"SEND"})' /\ ctl'.rc = "OK" =>
          /\ p2'.last = ctl'.sequence /\ p2'.result = None
          /\ p1.active = ctl.session => <<ctl'.sequence, ctl.arg>> \in used
  <1>1. SharedInv /\ FrameInv /\ CountInv /\ [SysNext]_sysvars => [Delivered]_sysvars
    <2> SUFFICES ASSUME SharedInv, FrameInv, CountInv, SysNext, ~Returned({"SEND"}),
                        Returned({"SEND"})', ctl'.rc = "OK"
                 PROVE  /\ p2'.last = ctl'.sequence /\ p2'.result = None
                        /\ p1.active = ctl.session => <<ctl'.sequence, ctl.arg>> \in used
      BY DEF Delivered
    <2>0. Sound /\ Program(ctl.op, ctl.pc)
      BY DEF SharedInv, Sound, ControlInv
    <2>1. ctl'.pc = "return" /\ ctl'.op = "SEND" /\ ~(ctl.pc = "return" /\ ctl.op = "SEND")
      BY DEF Returned
    <2>2. ~WorldRoute
      BY <2>1 DEF WorldRoute, Kept, Keep
    <2>3. ~StartRoute /\ ~FinishRoute /\ ~ContainRoute /\ ~StageRoute
      BY <2>0, <2>1 DEF StartRoute, FinishRoute, ContainRoute, StageRoute, At, Sound, Targets
    <2>4. ~LocalRoute
      BY <2>0, <2>1 DEF LocalRoute, Turns, At, Program, Sending
    <2>5. ~AbortRoute /\ ~CloseRoute /\ ~InfoRoute
      BY <2>0, <2>1 DEF AbortRoute, CloseRoute, InfoRoute, At, Sound, Targets, Program, Keep,
                        Sending
    <2>6. ~ExecuteRoute
      <3>1. SUFFICES ASSUME ExecuteRoute
                     PROVE  FALSE
        OBVIOUS
      <3>2. PICK code : ctl.pc \in RetainedLabels /\ (Stays(ctl, ctl') \/ EndsAt(ctl, ctl', code))
        BY <3>1 DEF ExecuteRoute
      <3>3. ctl.op = "SEND"
        BY <2>1, <3>2 DEF Stays, EndsAt, Keep
      <3>4. ctl.pc = "encrypt"
        BY <2>0, <3>2, <3>3 DEF RetainedLabels, Program, Sending
      <3> QED BY <2>1, <3>2, <3>4 DEF Stays, EndsAt, At
    <2>7. ~StatusRoute
      <3>1. SUFFICES ASSUME StatusRoute
                     PROVE  FALSE
        OBVIOUS
      <3>2. ctl'.op = ctl.op /\ ctl.pc \in Awaited \cup {"refresh", "probe"}
        BY <3>1 DEF StatusRoute, FailsAt, Halfway, Concludes, Installs, Keep
      <3> QED BY <2>0, <2>1, <3>2 DEF Program, Sending, Awaited
    <2>8. PICK arg : /\ ctl.pc = "ack" /\ Counts(ctl, ctl')
                     /\ Served(2, "ACK_AUTH_RESULT", arg, "OK")
                     /\ arg = [id |-> ctl.session.id, seq |-> ctl.sequence + 1]
      <3>1. SendRoute
        BY <2>0, <2>2, <2>3, <2>4, <2>5, <2>6, <2>7, Routes DEF ControllerRoute
      <3> QED BY <2>1, <3>1 DEF SendRoute, At
    <2>9. ctl.op = "SEND" /\ ctl.session # None /\ ctl'.sequence = ctl.sequence + 1
      BY <2>0, <2>1, <2>8 DEF Counts, CountInv
    <2>10. /\ p2'.last = ctl.sequence + 1 /\ p2'.result = None
           /\ p2.result.seq = ctl.sequence + 1 /\ p2.result.tel = ctl.arg /\ p2.result # None
      BY <2>8, <2>9, AckDelivers
    <2> QED BY <2>9, <2>10 DEF FrameInv, Left
  <1>2. SysSpec => [][Delivered]_sysvars
    BY <1>1, TransitInductive, PTL DEF SysSpec
  <1> QED BY <1>2 DEF SendDelivers
=============================================================================
