------------------------------ MODULE DemoGui -------------------------------
(***************************************************************************)
(* The demo window: Tk's main thread with its buttons and its F5 key, one   *)
(* worker thread that runs a flow, and the queue between them, beside a     *)
(* command line that competes for the serial port.  The worker has put its  *)
(* outcome into the queue a moment before its thread is dead.               *)
(*                                                                          *)
(* Of the display the model keeps the conclusion, the stages, the           *)
(* authenticated plaintext and the verdict on it; progress bar, log and     *)
(* explanations say nothing the queue does not.                             *)
(***************************************************************************)
EXTENDS HostFlow

VARIABLES
  gui,      \* the widgets and the handlers' fields
  worker,   \* the worker thread
  queue     \* messages from the worker to the main thread

guiVars == <<gui, worker, queue>>
vars == <<board, run, runs, trouble, gui, worker, queue>>

-----------------------------------------------------------------------------
(* Stages.                                                                  *)

STAGES == {"preflight", "keygen", "session", "transmit", "verify", "zeroize"}

ASSUME StageAssumption == None \notin STAGES

(* The stage of the progress message that run_core_demo emits before a      *)
(* step, by PROGRESS_PREFIXES; None where there is no message.              *)
StageForProgress(s) ==
  CASE s = "keypair" -> "keygen"
    [] s = "session" -> "session"
    [] s = "send" -> "transmit"
    [] s = "readBack" -> "verify"
    [] Emergency(s) -> "zeroize"
    [] OTHER -> None

(* _finish_stage *)
FinishStage(g, how) ==
  IF g.current = None THEN g
  ELSE [g EXCEPT !.stages[g.current] = how, !.current = None]

(* _activate_stage: the stage before it has passed. *)
ActivateStage(g, stage) ==
  IF g.current = stage THEN g
  ELSE [FinishStage(g, "pass") EXCEPT !.current = stage, !.stages[stage] = "running"]

(* _reset_stages *)
ResetStages(g) == [g EXCEPT !.stages = [s \in STAGES |-> "waiting"], !.current = None]

-----------------------------------------------------------------------------
(* Starting work.  A start handler redraws the screen and then asks         *)
(* _start_worker, which refuses while a worker is alive.                    *)

(* _set_busy, for the four buttons and the one on the connection bar. *)
SetBusy(g, b) == [g EXCEPT !.busy = b]

(* History: report is the outcome that the last worker put. *)
Worker(phase, name, data) ==
  [phase |-> phase, name |-> name, data |-> data, report |-> worker.report]

NoWorker == [phase |-> "none", name |-> "none", data |-> <<>>, report |-> None]

(* Mutant: the conclusion is cleared before the worker is looked at. *)
StartWorker_ClearsFirst(g, name, data) ==
  IF worker.phase # "none"
  THEN gui' = [g EXCEPT !.result = "RUNNING", !.refused = TRUE] /\ UNCHANGED worker
  ELSE /\ gui' = SetBusy([g EXCEPT !.result = "RUNNING", !.refused = FALSE], TRUE)
       /\ worker' = Worker("opening", name, data)

(* _start_worker.  History: refused tells that a handler redrew the screen  *)
(* and no worker was started.                                               *)
StartWorker(g, name, data) ==
  IF worker.phase # "none"
  THEN gui' = [g EXCEPT !.refused = TRUE] /\ UNCHANGED worker
  ELSE /\ gui' = SetBusy([g EXCEPT !.result = "RUNNING", !.refused = FALSE], TRUE)
       /\ worker' = Worker("opening", name, data)

(* The buttons are disabled while busy, the F5 key never; neither works     *)
(* while an error dialog is open.                                           *)
Clickable == ~gui.busy /\ ~gui.dialog

StartPreflight == Clickable /\ StartWorker(gui, "preflight", <<>>)

StartPrepare == Clickable /\ StartWorker(ActivateStage(ResetStages(gui), "preflight"), "prepare", <<>>)

(* start_demo, by its buttons or by F5, with a payload that parses. *)
StartDemo ==
  /\ ~gui.dialog
  /\ StartWorker([ResetStages(gui) EXCEPT !.output = "waiting", !.match = "waiting"], "demo", <<Payload[1]>>)

StartZeroize == Clickable /\ StartWorker(ActivateStage(gui, "zeroize"), "zeroize", <<>>)

(* History: runs bounds the starts, refused ones excepted. *)
User ==
  /\ runs < MaxRuns
  /\ StartPreflight \/ StartPrepare \/ StartZeroize \/ StartDemo
  /\ runs' = runs + (IF worker.phase = "none" THEN 1 ELSE 0)
  /\ UNCHANGED <<board, run, trouble, queue>>

-----------------------------------------------------------------------------
(* The worker thread.                                                       *)

Work(name) ==
  CASE name = "preflight" -> <<"ping", "read", "read">>
    [] name = "prepare" -> HardwareQualification
    [] name = "demo" -> CoreDemo
    [] name = "zeroize" -> <<"zeroize", "read", "ping">>

Message(kind, stage, text) == [kind |-> kind, name |-> worker.name, stage |-> stage, text |-> text]

(* _worker_entry: the outcome is put, then the thread ends. *)
Report(kind, text) ==
  /\ queue' = Append(queue, Message(kind, None, text))
  /\ worker' = [worker EXCEPT !.phase = "exiting", !.report = Message(kind, None, text)]

(* _open_client fails for a blank, missing or occupied port.  run_core_demo *)
(* announces its first stage at once.                                       *)
OpenClient ==
  /\ worker.phase = "opening"
  /\ \/ /\ ~Active
        /\ run' = Started("gui", worker.name, Work(worker.name), worker.data)
        /\ worker' = [worker EXCEPT !.phase = "running"]
        /\ queue' = IF worker.name = "demo"
                    THEN Append(queue, Message("progress", "preflight", None)) ELSE queue
     \/ Report("failure", None) /\ UNCHANGED run
  /\ UNCHANGED <<board, runs, trouble, gui>>

(* The stage announced before the step that comes next, in the demo only. *)
Progress ==
  LET stage == IF run'.flow = "demo" THEN StageForProgress(Head(run'.rest)) ELSE None
  IN IF stage = None THEN <<>> ELSE <<Message("progress", stage, None)>>

WorkerStep ==
  /\ worker.phase = "running" /\ RunStep
  /\ IF run'.rest # <<>> THEN queue' = queue \o Progress /\ UNCHANGED worker
     ELSE Report(IF run'.outcome = "PASS" THEN "success" ELSE "failure",
                 IF run'.flow = "demo" /\ run'.outcome = "PASS" THEN run'.data[1] ELSE None)
  /\ UNCHANGED gui

ThreadExit ==
  /\ worker.phase = "exiting"
  /\ worker' = Worker("none", "none", <<>>)
  /\ UNCHANGED <<board, run, runs, trouble, gui, queue>>

-----------------------------------------------------------------------------
(* The main thread takes the messages.                                      *)

Conclusion(name, kind) ==
  IF kind = "failure" THEN (IF name = "demo" THEN "DEMO FAIL" ELSE "FAIL")
  ELSE CASE name = "preflight" -> "PREFLIGHT PASS"
         [] name = "prepare" -> "SELF-TEST PASS"
         [] name = "demo" -> "CORE DEMO PASS"
         [] name = "zeroize" -> "ZEROIZE PASS"

(* _handle_success *)
HandleSuccess(g, m) ==
  LET f == [FinishStage(g, "pass") EXCEPT !.result = Conclusion(m.name, m.kind)]
  IN CASE m.name = "preflight" -> [g EXCEPT !.result = Conclusion(m.name, m.kind)]
       [] m.name = "demo" ->
            [f EXCEPT !.output = m.text, !.match = "match",
                      !.stages = [s \in STAGES |-> IF @[s] = "waiting" THEN "pass" ELSE @[s]]]
       [] OTHER -> f

(* _handle_failure, up to its error dialog *)
HandleFailure(g, m) ==
  [FinishStage(g, "fail") EXCEPT !.result = Conclusion(m.name, m.kind), !.dialog = TRUE]

(* Mutant: a success does not give the buttons back. *)
Handle_StaysBusy(g, m) ==
  CASE m.kind = "progress" -> ActivateStage(g, m.stage)
    [] m.kind = "success" -> HandleSuccess(g, m)
    [] m.kind = "failure" -> HandleFailure(g, m)

(* _drain_queue, one message. *)
Handle(g, m) ==
  CASE m.kind = "progress" -> ActivateStage(g, m.stage)
    [] m.kind = "success" -> SetBusy(HandleSuccess(g, m), FALSE)
    [] m.kind = "failure" -> HandleFailure(g, m)

(* A pass handles every message there is.  The model lets the user click    *)
(* between two of them, as if the second had come after the click.          *)
DrainQueue ==
  /\ queue # <<>> /\ ~gui.dialog
  /\ gui' = Handle(gui, Head(queue)) /\ queue' = Tail(queue)
  /\ UNCHANGED <<board, run, runs, trouble, worker>>

CloseDialog ==
  /\ gui.dialog
  /\ gui' = SetBusy([gui EXCEPT !.dialog = FALSE], FALSE)
  /\ UNCHANGED <<board, run, runs, trouble, worker, queue>>

-----------------------------------------------------------------------------
Window ==
  [busy |-> FALSE, dialog |-> FALSE, result |-> "NOT RUN", current |-> None,
   stages |-> [s \in STAGES |-> "waiting"], output |-> None, match |-> None, refused |-> FALSE]

(* Closing the window ends the process, and the worker with it. *)
CloseWindow ==
  /\ worker.phase = "running" /\ Troubled
  /\ gui' = Window /\ worker' = NoWorker /\ queue' = <<>>
  /\ run' = [NoRun EXCEPT !.outcome = "KILLED"]
  /\ UNCHANGED <<board, runs>>

Init == FlowInit /\ gui = Window /\ worker = NoWorker /\ queue = <<>>

CliStep == run.owner = "cli" /\ RunStep

Next ==
  \/ User \/ OpenClient \/ WorkerStep \/ ThreadExit \/ DrainQueue \/ CloseDialog \/ CloseWindow
  \/ (StartCli \/ CliStep \/ KillCli \/ BoardNext) /\ UNCHANGED guiVars

(* Every call of the client has a deadline, so the worker goes on; its      *)
(* thread ends; Tk runs _drain_queue every POLL_MS.                         *)
Fairness == WF_vars(OpenClient \/ WorkerStep) /\ WF_vars(ThreadExit) /\ WF_vars(DrainQueue)

Spec == Init /\ [][Next]_vars /\ Fairness

-----------------------------------------------------------------------------
(* Properties.                                                              *)

(* Once the last worker is gone and its messages are handled, the window    *)
(* shows that worker's outcome, whatever was clicked meanwhile; and after a *)
(* passed demo that no refused click has redrawn, it shows the plaintext P2 *)
(* authenticated in it, the match, and every stage as passed.               *)
DisplayTruthful ==
  LET last == worker.report
  IN worker.phase = "none" /\ queue = <<>> /\ ~gui.dialog /\ last # None =>
       /\ gui.result = Conclusion(last.name, last.kind)
       /\ last.name = "demo" /\ last.kind = "success" /\ ~gui.refused =>
            /\ gui.output = last.text /\ gui.match = "match"
            /\ \A s \in STAGES : gui.stages[s] = "pass"

(* The buttons come back after every start, or an error dialog waits for    *)
(* the user: no lost answer, reset, fault or occupied port leaves the       *)
(* window disabled.                                                         *)
ButtonsComeBack == gui.busy ~> (~gui.busy \/ gui.dialog)
=============================================================================
