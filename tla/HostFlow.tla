------------------------------ MODULE HostFlow ------------------------------
(***************************************************************************)
(* What the PC programs do with the client library: the qualifications, the *)
(* core demo and the single commands of trinity-host, against a board that  *)
(* may be reset, fail or fall silent at any point.                          *)
(*                                                                          *)
(* A flow is a table of steps.  A step is one call of the client library    *)
(* with the test its caller makes of the answer; what such a call goes      *)
(* through on the line is the subject of HostLink.  A call returns, or      *)
(* raises after an error answer, or raises because a request or an answer   *)
(* was lost, the board having executed it or not.  The board keeps what the *)
(* callers can observe or change.                                           *)
(***************************************************************************)
EXTENDS Naturals, Sequences, SequencesExt

CONSTANTS
  None,         \* no value
  Iterations,   \* rounds of the liveness loop: 2 in the demo, 10 by default
  MaxRuns,      \* bound: programs started
  MaxTrouble    \* bound: lost answers, failed commands, resets, faults, kills

ASSUME FlowAssumption ==
  /\ Iterations \in Nat \ {0} /\ MaxRuns \in Nat /\ MaxTrouble \in Nat
  /\ None \notin Nat

VARIABLES
  board,     \* the SN32 with its Primers, as far as the PC can tell
  run,       \* the program that has the serial port, or the last one that had
  runs,      \* programs started so far
  trouble    \* troubles so far

flowVars == <<board, run, runs, trouble>>

-----------------------------------------------------------------------------
(* The board.                                                               *)

(* READY is READY_NO_SESSION or, without a key pair, READY_NO_KEYPAIR; DOWN *)
(* stands for every state in which no caller goes on.                       *)
States == {"SELF_TEST", "READY", "ACTIVE", "DOWN"}

(* clean: both Primers ready, no fault flag, last_error OK;  error: only    *)
(* last_error is set;  fault: fault flags;  locked: g_fault, which closes   *)
(* the SPI bus;  lost: a Primer is not ready, which is a fault flag too.    *)
Healths == {"clean", "error", "fault", "locked", "lost"}

(* State after a reset, until the start-up probe has ended.  reset: the     *)
(* uptime restarted since it was last read.  latch: a first SPI failure is  *)
(* retained.                                                                *)
Booting ==
  [booting |-> TRUE, state |-> "DOWN", health |-> "lost", key |-> FALSE,
   session |-> 0, seq |-> 0, last |-> None, txn |-> None,
   latch |-> FALSE, reset |-> TRUE]

NoSession(b) == [b EXCEPT !.session = 0, !.seq = 0, !.last = None]

(* Commands that run as a managed host transaction. *)
ManagedSteps ==
  {"p1Start", "p1Test", "p2Test", "keypair", "session", "send", "close", "scoped",
   "zeroize", "cleanup"}

TestSteps == {"p1Start", "p1Test", "p2Test"}

Emergency(s) == s \in {"zeroize", "cleanup"}

(* Answered while the start-up probe runs; everything else is BUSY then. *)
LocalSteps ==
  {"ping", "livePing", "read", "identity", "readyWait", "firstFailure", "lastFailure",
   "initialStatus", "dualStatus", "dualAfter", "liveStatus", "preflight", "keyStatus",
   "activeStatus", "activeClean", "finalStatus", "finalClean", "p1Status", "p1After",
   "diagnose"}

(* The handlers' tests before a transaction is begun. *)
Admitted(s, b) ==
  CASE s = "keypair" -> b.state = "READY"
    [] s = "session" -> b.state = "READY" /\ b.key
    [] OTHER -> TRUE

(* A command that needs the SPI bus fails while the bus is closed. *)
CanSucceed(s, b) ==
  /\ b.health # "locked"
  /\ s = "send" => b.state = "ACTIVE" /\ b.session # 0
  /\ s = "session" => b.health # "lost"

(* The states a successful command may leave; p is the plaintext sent.      *)
(* Zeroizing ALL also clears the errors, and the Primers may ask for their  *)
(* self-test after it.                                                      *)
Succeeded(s, b, p) ==
  CASE s \in TestSteps -> {[b EXCEPT !.state = "READY"]}
    [] s = "keypair" -> {[b EXCEPT !.key = TRUE]}
    [] s = "session" -> {[b EXCEPT !.state = "ACTIVE", !.session = 1, !.seq = 0,
                                   !.health = "clean"]}
    [] s = "send" -> {[b EXCEPT !.seq = b.seq + 1, !.last = [seq |-> b.seq + 1, text |-> p]]}
    [] s \in {"close", "scoped"} -> {[NoSession(b) EXCEPT !.state = "READY"]}
    [] Emergency(s) -> {[NoSession(b) EXCEPT !.key = FALSE, !.state = st, !.health = "clean"] :
                          st \in {"READY", "SELF_TEST"}}

(* Closing and zeroizing erase the controller's own material whatever the   *)
(* Primers answer: key and session are the SN32's, and whether a Primer     *)
(* that failed was erased is not told.  A failed activation zeroizes the    *)
(* Primers and keeps the key pair.                                          *)
Residue(s, b) ==
  IF Emergency(s) THEN [NoSession(b) EXCEPT !.key = FALSE]
  ELSE IF s \in {"session", "close", "scoped"} THEN NoSession(b) ELSE b

(* What else a failure may leave. *)
Damages(s, b) ==
  [state: {b.state, "DOWN"}, health: {b.health, "fault"}, latch: {b.latch, TRUE},
   key: IF s = "keypair" THEN BOOLEAN ELSE {Residue(s, b).key}]

(* The states a failed command may leave. *)
Failed(s, b) ==
  IF b.health = "locked" THEN {Residue(s, b)}
  ELSE {[Residue(s, b) EXCEPT !.state = d.state, !.health = d.health, !.latch = d.latch,
                              !.key = d.key] : d \in Damages(s, b)}

-----------------------------------------------------------------------------
(* The tests the callers make of a status.  v is the board as reported.     *)

READY_STATE(v) == v.state = "READY"

NO_FAULT(v) == v.health \in {"clean", "error"}

(* run_sn32_hardware_qualification, initial_status. *)
CleanStart(v) ==
  v.health = "clean" /\ v.txn = None /\ v.state \in {"SELF_TEST", "READY"}

(* run_sn32_hardware_qualification, in the loop: the status read before the *)
(* ping is judged after it.                                                 *)
StillLive(v) == v.health = "clean" /\ v.txn = None /\ READY_STATE(v)

(* _validate_full_preflight. *)
ValidateFullPreflight(v) ==
  v.health = "clean" /\ v.txn = None /\ READY_STATE(v) /\ ~v.key

(* _require_active; the qualification leaves the last line out. *)
ActiveSession(v) == v.state = "ACTIVE" /\ v.session = 1 /\ v.seq = 0

RequireActive(v) == ActiveSession(v) /\ v.health = "clean"

(* The status after the last zeroize. *)
Erased(v) == v.session = 0 /\ v.seq = 0 /\ v.health = "clean"

(* READ_LAST_RESULT against the telemetry result of the last send. *)
SameResult(v) == v.last = [seq |-> run.sent, text |-> run.data[run.sent]]

NO_KEYPAIR(v) == READY_STATE(v) /\ ~v.key

(* What must hold for the step to return. *)
Accepts(s, v) ==
  CASE s = "traces" -> v.health # "locked"
    [] s = "initialStatus" -> CleanStart(v)
    [] s = "dualStatus" -> NO_FAULT(v)
    [] s \in {"dualAfter", "p1After"} -> NO_FAULT(v) /\ READY_STATE(v)
    [] s = "livePing" -> StillLive(run.seen)
    [] s = "preflight" -> ValidateFullPreflight(v)
    [] s = "keyStatus" -> READY_STATE(v) /\ v.key
    [] s = "activeStatus" -> ActiveSession(v)
    [] s = "activeClean" -> RequireActive(v)
    [] s = "readBack" -> SameResult(v)
    [] s = "finalStatus" -> Erased(v) /\ NO_KEYPAIR(v)
    [] s = "finalClean" -> Erased(v) /\ v.txn = None /\ (NO_KEYPAIR(v) \/ v.state = "SELF_TEST")
    [] s = "firstFailure" -> ~v.latch /\ run.seen.health # "lost"
    [] s = "lastFailure" -> ~v.latch
    [] OTHER -> TRUE

(* And where the model does not tell: the build IDs of a Primer that is not *)
(* ready may be known or not, and it may be the other Primer; the uptime    *)
(* after a reset may have passed the one before it.                         *)
Doubtful(s, v) ==
  \/ s \in {"identity", "p1Status"} /\ v.health = "lost"
  \/ s = "livePing" /\ v.reset

-----------------------------------------------------------------------------
(* The flows.                                                               *)

DualSpiBringup == <<"ping", "identity", "dualStatus", "p1Test", "p2Test", "dualAfter">>

(* The four live exchanges are one step: they leave no state behind. *)
HardwareQualification ==
  <<"identity", "initialStatus", "traces">> \o DualSpiBringup
    \o [i \in 1..2 * Iterations |-> IF i % 2 = 1 THEN "liveStatus" ELSE "livePing"]

P1Bringup == <<"ping", "read", "p1Status", "p1Test", "p1After">>

(* run_core_demo, when nothing raises. *)
CoreDemo ==
  HardwareQualification
    \o <<"preflight", "keypair", "keyStatus", "session", "activeClean", "send", "readBack",
         "zeroize", "finalClean", "ping">>

(* run_secure_telemetry_qualification, when nothing raises. *)
SecureTelemetry ==
  HardwareQualification
    \o <<"preflight", "keypair", "keyStatus", "session", "activeStatus", "send", "send",
         "readBack", "zeroize", "finalStatus">>

(* Mutant: the failure latch is not read again at the end. *)
Sn32Qualify_ReadsOnce == <<"ping", "readyWait", "firstFailure">> \o HardwareQualification

(* sn32-qualify: waits for the Primers, and reads the SPI failure latch     *)
(* before and after the qualification.                                      *)
Sn32Qualify ==
  <<"ping", "readyWait", "firstFailure">> \o HardwareQualification \o <<"lastFailure">>

(* Commands of cli.main.  "read" stands for every command that only reads:  *)
(* ping, system-info, system-status, spi-diag, spi-first-failure and        *)
(* txn-result.                                                              *)
LegacyCommands ==
  [read |-> <<"read">>, start |-> <<"p1Start">>, retire |-> <<"retire">>,
   p1 |-> P1Bringup, dual |-> DualSpiBringup, gate |-> Sn32Qualify]

(* Commands of full_cli; session-diagnostic only reads. *)
FullCommands ==
  [keypair |-> <<"keypair">>, create |-> <<"session">>, diagnostic |-> <<"diagnose">>,
   send |-> <<"send">>, close |-> <<"close">>, zeroize |-> <<"zeroize">>,
   scoped |-> <<"scoped">>, secure |-> SecureTelemetry]

(* full_cli.main hands every other command to cli.main. *)
Commands == DOMAIN LegacyCommands \cup DOMAIN FullCommands

Command(c) == IF c \in DOMAIN FullCommands THEN FullCommands[c] ELSE LegacyCommands[c]

-----------------------------------------------------------------------------
(* A running program.                                                       *)

(* armed: a failure from here on must clean up.  seen: a status kept for a  *)
(* later step.  History: auth counts the packets of this run that P2        *)
(* authenticated, kats the Primers whose known-answer tests it ran, spi     *)
(* tells of an SPI failure since it started or the SN32 was reset, skipped  *)
(* that its last zeroize was not executed.                                  *)
Started(owner, flow, steps, data) ==
  [owner |-> owner, flow |-> flow, rest |-> steps, data |-> data, sent |-> 0,
   armed |-> FALSE, seen |-> None, auth |-> 0, kats |-> {}, spi |-> FALSE,
   skipped |-> FALSE, outcome |-> "running"]

NoRun == [Started("none", "none", <<>>, <<>>) EXCEPT !.outcome = "none"]

Active == run.outcome \in {"running", "failing"}

(* The program has ended.  Its record is kept for the properties about it:  *)
(* that of a qualification, or of a failure with a clean-up due.            *)
Ended(r, outcome) ==
  IF \/ outcome = "PASS" /\ r.flow \in {"demo", "prepare", "secure", "gate"}
     \/ outcome = "FAIL" /\ r.armed
  THEN [r EXCEPT !.rest = <<>>, !.outcome = outcome, !.seen = None]
  ELSE [NoRun EXCEPT !.outcome = outcome]

(* The call returned: the next step, or the end. *)
Returned(r) ==
  LET rest == Tail(r.rest)
  IN IF rest # <<>> THEN [r EXCEPT !.rest = rest]
     ELSE Ended(r, IF r.outcome = "failing" THEN "FAIL" ELSE "PASS")

(* Mutant: the clean-up is skipped while there is no session. *)
DemoRaised_NeedsSession(r) ==
  IF r.armed /\ Contains(r.rest, "zeroize") /\ ~Contains(r.rest, "session")
  THEN [r EXCEPT !.rest = <<"diagnose", "cleanup">>, !.outcome = "failing"]
  ELSE Ended(r, "FAIL")

(* run_core_demo: once a key pair was reported, an exception up to and in   *)
(* the zeroize is diagnosed and followed by an emergency zeroize.           *)
DemoRaised(r) ==
  IF r.armed /\ Contains(r.rest, "zeroize")
  THEN [r EXCEPT !.rest = <<"diagnose", "cleanup">>, !.outcome = "failing"]
  ELSE Ended(r, "FAIL")

(* Mutant: leaving the finally clause swallows the exception. *)
SecureRaised_Swallows(r) ==
  IF Head(r.rest) \in {"send", "readBack"} THEN [r EXCEPT !.rest = <<"zeroize", "finalStatus">>]
  ELSE Ended(r, "FAIL")

(* run_secure_telemetry_qualification: the finally clause around the sends  *)
(* and the read-back.                                                       *)
SecureRaised(r) ==
  IF Head(r.rest) \in {"send", "readBack"}
  THEN [r EXCEPT !.rest = <<"cleanup">>, !.outcome = "failing"]
  ELSE Ended(r, "FAIL")

(* The call raised.  Errors of the diagnosis and the clean-up are dropped   *)
(* for the first one.                                                       *)
Raised(r) ==
  IF r.outcome = "failing" THEN Returned(r)
  ELSE IF r.flow = "demo" THEN DemoRaised(r)
  ELSE IF r.flow = "secure" THEN SecureRaised(r)
  ELSE Ended(r, "FAIL")

Troubled == trouble < MaxTrouble /\ trouble' = trouble + 1

(* What the caller keeps when step s returns; executed tells that the board *)
(* did it for this call.                                                    *)
Learned(r, s, executed) ==
  [r EXCEPT !.armed = @ \/ <<r.flow, s>> \in {<<"demo", "keypair">>, <<"secure", "activeStatus">>},
            !.seen = IF s \in {"liveStatus", "readyWait"}
                     THEN [state |-> board.state, health |-> board.health, txn |-> board.txn]
                     ELSE None,
            !.sent = @ + (IF s = "send" THEN 1 ELSE 0),
            !.auth = @ + (IF s = "send" /\ executed THEN 1 ELSE 0),
            !.kats = @ \cup (IF s \in TestSteps /\ executed THEN {s} ELSE {}),
            !.skipped = @ /\ ~Emergency(s)]

Busy(s) == board.booting /\ s \notin LocalSteps

(* A step that only reads; a ping also takes note of the uptime. *)
ReadStep(s) ==
  /\ s \notin ManagedSteps \cup {"retire"}
  /\ \/ /\ ~Busy(s) /\ Accepts(s, board)
        /\ board' = [board EXCEPT !.reset = @ /\ s \notin {"ping", "livePing"}]
        /\ run' = Returned(Learned(run, s, TRUE))
     \/ /\ Busy(s) \/ ~Accepts(s, board) \/ Doubtful(s, board)
        /\ run' = Raised(run)
        /\ UNCHANGED board
  /\ UNCHANGED trouble

(* txn-retire: the identifier given is that of the retained result, or not. *)
RetireStep(s) ==
  /\ s = "retire"
  /\ IF Busy(s) THEN run' = Raised(run) /\ UNCHANGED board
     ELSE /\ run' = Returned(run)
          /\ \E t \in {board.txn, None} : board' = [board EXCEPT !.txn = t]
  /\ UNCHANGED trouble

(* The plaintext a step sends, and the result it leaves in the SN32. *)
Argument(s) == IF s = "send" THEN run.data[run.sent + 1] ELSE None

Result(s, ok) == [op |-> s, ok |-> ok]

Blocked(s) == board.txn # None /\ ~Emergency(s)

(* An error answer: a managed command retires what is retained, before it   *)
(* raises; the self-tests leave it.                                         *)
AfterError(s, b) == IF s \in TestSteps THEN b ELSE [b EXCEPT !.txn = None]

(* BUSY, BAD_STATE, RESULT_PENDING and TRANSACTION_CONFLICT; or the very    *)
(* same request, with the same identifier, gets the retained result.        *)
RefusedStep(s) ==
  /\ s \in ManagedSteps
  /\ \/ /\ Busy(s) \/ ~Admitted(s, board) \/ Blocked(s)
        /\ board' = AfterError(s, board)
        /\ run' = Raised(run)
     \/ /\ ~Busy(s) /\ Admitted(s, board) /\ Blocked(s)
        /\ board.txn = Result(s, TRUE)
        /\ board' = IF s = "p1Start" THEN board ELSE [board EXCEPT !.txn = None]
        /\ run' = Returned(Learned(run, s, FALSE))
  /\ UNCHANGED trouble

Executes(s) == s \in ManagedSteps /\ ~Busy(s) /\ Admitted(s, board) /\ ~Blocked(s)

(* The command succeeds, its result is read and retired; p1-self-test-start *)
(* leaves it retained.                                                      *)
SucceedStep(s) ==
  /\ Executes(s) /\ CanSucceed(s, board)
  /\ \E b \in Succeeded(s, board, Argument(s)) :
       board' = [b EXCEPT !.txn = IF s = "p1Start" THEN Result(s, TRUE) ELSE None]
  /\ run' = Returned(Learned(run, s, TRUE))
  /\ UNCHANGED trouble

FailStep(s) ==
  /\ Executes(s)
  /\ IF CanSucceed(s, board) THEN Troubled ELSE UNCHANGED trouble
  /\ \E b \in Failed(s, board) :
       /\ board' = AfterError(s, [b EXCEPT !.txn = Result(s, FALSE)])
       /\ run' = Raised([run EXCEPT !.spi = @ \/ (b.latch /\ ~board.latch),
                                    !.skipped = @ /\ ~Emergency(s)])

(* A request or an answer is lost.  A managed command may have been         *)
(* executed, with its result still retained or retired.                     *)
LoseStep(s) ==
  /\ Troubled
  /\ \/ board' = board /\ run' = Raised([run EXCEPT !.skipped = @ \/ Emergency(s)])
     \/ /\ Executes(s) /\ CanSucceed(s, board)
        /\ \E b \in Succeeded(s, board, Argument(s)), t \in {None, Result(s, TRUE)} :
             board' = [b EXCEPT !.txn = t]
        /\ run' = Raised([run EXCEPT !.skipped = @ /\ ~Emergency(s)])

RunStep ==
  /\ Active
  /\ LET s == Head(run.rest)
     IN ReadStep(s) \/ RetireStep(s) \/ RefusedStep(s) \/ SucceedStep(s) \/ FailStep(s) \/ LoseStep(s)
  /\ UNCHANGED runs

-----------------------------------------------------------------------------
(* The command line, and what happens to the board.                         *)

(* Every program sends payloads of its own: equal ones could only hide that *)
(* a result is another program's.                                           *)
Payload == <<2 * runs, 2 * runs + 1>>

(* Open the port, which nobody else has. *)
StartCli ==
  /\ ~Active /\ runs < MaxRuns /\ runs' = runs + 1
  /\ \E c \in Commands :
       run' = Started("cli", c, Command(c),
                      IF c = "secure" THEN Payload ELSE IF c = "send" THEN <<Payload[1]>> ELSE <<>>)
  /\ UNCHANGED <<board, trouble>>

KillCli ==
  /\ Active /\ run.owner = "cli" /\ Troubled
  /\ run' = [NoRun EXCEPT !.outcome = "KILLED"]
  /\ UNCHANGED <<board, runs>>

(* The start-up probe ends.  If it succeeds it clears the failure it may    *)
(* have retained: an exchange that failed in it is not charged to a program *)
(* that waits, as the firmware does not keep it either.                     *)
StartupDone ==
  /\ board.booting
  /\ \/ \E s \in {"SELF_TEST", "READY"} :
          board' = [board EXCEPT !.booting = FALSE, !.state = s, !.health = "clean", !.latch = FALSE]
     \/ \E l \in BOOLEAN : board' = [board EXCEPT !.booting = FALSE, !.latch = l]
  /\ UNCHANGED <<run, runs, trouble>>

ResetBoard ==
  /\ Troubled /\ board' = Booting
  /\ run' = [run EXCEPT !.spi = FALSE]
  /\ UNCHANGED runs

(* full_contain_tiny_fault. *)
ContainFault ==
  /\ board.health # "locked" /\ Troubled
  /\ board' = [NoSession(board) EXCEPT !.key = FALSE, !.state = "DOWN", !.health = "locked",
                                       !.txn = None]
  /\ UNCHANGED <<run, runs>>

(* An exchange fails in the background or in a diagnostic command. *)
SpiFails ==
  /\ ~board.booting /\ board.health # "locked" /\ Troubled
  /\ \E h \in {"fault", "lost"} : board' = [board EXCEPT !.health = h, !.latch = TRUE]
  /\ run' = [run EXCEPT !.spi = @ \/ Active]
  /\ UNCHANGED runs

(* The periodic probe finds the Primers changed: one was reset, both hold a *)
(* session the SN32 has forgotten, or an error has gone.                    *)
PeriodicProbe ==
  /\ ~board.booting /\ ~board.latch /\ board.txn = None /\ board.health # "locked"
  /\ Troubled
  /\ \E s \in States \ {"DOWN"}, h \in {"clean", "error"} :
       board' = [board EXCEPT !.state = s, !.health = h]
  /\ UNCHANGED <<run, runs>>

FlowInit == board = Booting /\ run = NoRun /\ runs = 0 /\ trouble = 0

BoardNext == StartupDone \/ ResetBoard \/ ContainFault \/ SpiFails \/ PeriodicProbe

-----------------------------------------------------------------------------
(* Properties.                                                              *)

(* When the core demo or the secure-telemetry qualification reports PASS,   *)
(* P2 has authenticated every plaintext of this very run, and the board is  *)
(* left with no key pair, no session, no authenticated plaintext and no     *)
(* retained result.                                                         *)
PassHonest ==
  run.outcome = "PASS" /\ run.flow \in {"demo", "secure"} =>
    /\ run.auth = Len(run.data)
    /\ ~board.key /\ board.session = 0 /\ board.last = None /\ board.txn = None

(* When one of them fails after its clean-up became due, the key pair and   *)
(* the session of the SN32 are erased, wherever it failed, unless the       *)
(* zeroize request itself was lost.  Of the Primers it says nothing: the    *)
(* clean-up's zeroize may itself fail, and its error is dropped.            *)
FailureCleansUp ==
  run.outcome = "FAIL" /\ run.armed /\ ~run.skipped => ~board.key /\ board.session = 0

(* A qualification that reports PASS ran the known-answer tests of both     *)
(* Primers itself, and the cold-boot gate tells of every SPI failure since  *)
(* it started, unless the SN32 was reset after it.  A reset as such does    *)
(* not fail the gate: sn32-qualify does not compare its first uptime.       *)
GateHonest ==
  run.outcome = "PASS" =>
    /\ run.flow \in {"demo", "prepare", "secure", "gate"} => {"p1Test", "p2Test"} \subseteq run.kats
    /\ run.flow = "gate" => ~run.spi
=============================================================================
