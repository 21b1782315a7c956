------------------------------ MODULE SpiLink -------------------------------
(***************************************************************************)
(* One exchange on the SPI bus and what is told of it: the SN32 as master   *)
(* with its transaction identifiers, its bounded drains, re-reads and       *)
(* reissues and its retained failure trace; the response mailbox of a       *)
(* Primer, whose pending bit is the IRQ line; and the PC that judges the    *)
(* trace of a live exchange.                                                *)
(*                                                                          *)
(* A Primer answers within microseconds of the end of a CS window and the   *)
(* SN32 waits milliseconds before it looks, so a CS window and the Primer's *)
(* answer to it are one step.  Noise on the wires damages requests and      *)
(* responses; a damaged frame never passes its CRC.  The master talks to    *)
(* one Primer at a time, so one is modelled.                                *)
(***************************************************************************)
EXTENDS Naturals, Sequences

CONSTANTS
  None,           \* no value; byte 0 where a frame has no command
  MaxTxid,        \* last transaction identifier before the wrap: 65535 in the code
  READ_REISSUE,   \* TRINITY_DEPLOY_SPI_READ_REISSUE_MAX: 2
  MaxRequests,    \* bound: requests sent
  MaxNoise        \* bound: damaged transfers, resets, faults

ASSUME SpiAssumption ==
  /\ MaxTxid \in Nat \ {0} /\ READ_REISSUE \in Nat
  /\ MaxRequests \in Nat /\ MaxNoise \in Nat

VARIABLES
  sn,       \* the SN32
  box,      \* the response mailbox of the Primer, None when IRQ is inactive
  core,     \* the command core behind it
  hist,     \* history, see Hist
  noise     \* noise so far

vars == <<sn, box, core, hist, noise>>

Irq == box # None

Reads == {"GET_INFO", "GET_STATUS"}
SideEffects == {"RUN_SELF_TEST", "COMMIT_SESSION"}
Commands == Reads \cup SideEffects \cup {"GET_TXN_RESULT", "RETIRE_TXN_RESULT"}

-----------------------------------------------------------------------------
(* The Primer.                                                              *)

(* History: n numbers the requests by the identifiers issued so far. *)
Request(cmd, txid, n) == [cmd |-> cmd, txid |-> txid, n |-> n]

Response(q, code) == [cmd |-> q.cmd, txid |-> q.txid, code |-> code, n |-> q.n]

(* The answer to a CS window cut within the header: command and transaction *)
(* identifier are 0.                                                        *)
ShortCs(q) == Response([q EXCEPT !.cmd = None, !.txid = 0], "BAD_LENGTH")

Retains(q) == core.ret # None /\ core.ret.txid = q.txid

(* The code of the answer to an intact request; a retire names the retained *)
(* result.  While an engine runs only the two reads of its state are        *)
(* served.  ZEROIZE, which overrules a retained result, is left out.        *)
Code(q) ==
  CASE core.busy /\ q.cmd \notin {"GET_STATUS", "GET_TXN_RESULT"} -> "BUSY"
    [] ~core.busy /\ q.cmd \in SideEffects /\ core.ret # None ->
         IF ~Retains(q) THEN "RESULT_PENDING"
         ELSE IF core.ret.cmd = q.cmd THEN "OK" ELSE "TRANSACTION_CONFLICT"
    [] q.cmd \in {"GET_TXN_RESULT", "RETIRE_TXN_RESULT"} /\ core.ret = None -> "RESULT_NOT_READY"
    [] OTHER -> "OK"

(* A retained request is executed unless it is the retained one again. *)
Executes(q) == q.cmd \in SideEffects /\ Code(q) = "OK" /\ core.ret = None

CoreAfter(q) ==
  IF Executes(q) THEN [busy |-> TRUE, ret |-> [cmd |-> q.cmd, txid |-> q.txid, n |-> q.n, boot |-> hist.boot]]
  ELSE IF q.cmd = "RETIRE_TXN_RESULT" /\ Code(q) = "OK" THEN [core EXCEPT !.ret = None]
  ELSE core

(* The CS window of a request ends.  With a response pending its clocks     *)
(* read the mailbox and the request is lost.  Without SPI_MAGIC in front it *)
(* is no request; a damaged one is answered, by an idle core only, with the *)
(* error the endpoint found in it.                                          *)
ReceiveIntact(q) ==
  /\ ~Irq
  /\ box' = Response(q, Code(q)) /\ core' = CoreAfter(q)
  /\ hist' = [hist EXCEPT !.ids = q.n, !.met = core.ret, !.runs = @ + (IF Executes(q) THEN 1 ELSE 0)]

ReceiveDamaged(q) ==
  /\ \/ box' = box
     \/ /\ ~Irq /\ ~core.busy
        /\ box' \in {Response(q, "BAD_CRC"), Response(q, "BAD_LENGTH"), ShortCs(q)}
  /\ hist' = [hist EXCEPT !.ids = q.n]
  /\ UNCHANGED core

(* The engine ends; its result stays retained. *)
EngineDone ==
  /\ core.busy /\ core' = [core EXCEPT !.busy = FALSE]
  /\ UNCHANGED <<sn, box, hist, noise>>

-----------------------------------------------------------------------------
(* The trace of an exchange and the one retained.                           *)

(* spi_trace_begin, with what endpoint_exchange adds.  A drain has no       *)
(* request.                                                                 *)
SpiTraceBegin(context, request) ==
  [context |-> context, request |-> request, cmd |-> IF request = None THEN None ELSE request.cmd,
   code |-> "OK", response |-> None, irqBeforeRequest |-> request # None /\ Irq,
   irqBeforeResponse |-> FALSE, irqAfterResponse |-> FALSE]

(* spi_latch_first_failure: a failure also replaces a residue. *)
SpiLatchFirstFailure(s) ==
  IF (s.kept = None \/ ~s.kept.failure) /\ s.trace.code # "OK"
  THEN [s EXCEPT !.kept = [failure |-> TRUE, trace |-> s.trace]] ELSE s

ResidueContexts == {"STARTUP", "PERIODIC_PROBE"}

(* spi_trace_is_startup_reset_residue *)
SpiTraceIsResidue(t) ==
  /\ t.context \in ResidueContexts /\ t.code = "BAD_LENGTH"
  /\ t.response # None /\ t.response.cmd = None /\ t.response.code = "BAD_LENGTH"

(* spi_record_startup_residue *)
SpiRecordResidue(s) ==
  IF s.kept = None /\ SpiTraceIsResidue(s.trace)
  THEN [s EXCEPT !.kept = [failure |-> FALSE, trace |-> s.trace]] ELSE s

-----------------------------------------------------------------------------
(* Reading a mailbox.  BAD_CRC stands for the errors a damaged response is  *)
(* found out by: magic, version, length, flags or CRC.                      *)

(* spi_capture_response_once: what is read and what is left.  Too few       *)
(* clocks counted, and the mailbox stays.                                   *)
ReadOnce(b) ==
  IF sn.fault THEN [code: {"FAULT_LOCKED"}, frame: {None}, left: {b}, cost: {0}]
  ELSE UNION {[code: {"OK"}, frame: {b}, left: {None}, cost: {0}],
              [code: {"OK"}, frame: {b}, left: {b}, cost: {1}],
              [code: {"BAD_CRC"}, frame: {None}, left: {None, b}, cost: {1}]}

(* spi_capture_response: a damaged response that is still pending is read   *)
(* once more.                                                               *)
SpiCaptureResponse(b) ==
  UNION {IF r.code # "BAD_CRC" \/ r.left = None THEN {r}
         ELSE {[s EXCEPT !.cost = @ + r.cost] : s \in ReadOnce(b)} : r \in ReadOnce(b)}

(* The trace after a read. *)
Captured(t, r) ==
  [t EXCEPT !.irqBeforeResponse = TRUE, !.irqAfterResponse = r.left # None,
            !.response = r.frame, !.code = r.code,
            !.cmd = IF t.request = None /\ r.frame # None THEN r.frame.cmd ELSE @]

-----------------------------------------------------------------------------
(* endpoint_exchange.                                                       *)

(* The call returns; the answer of a diagnostic is the host's. *)
Return(s, code) == [s EXCEPT !.phase = "done", !.code = code]

(* failed: *)
Fail(s, code) == Return(SpiLatchFirstFailure([s EXCEPT !.trace.code = code]), code)

(* spi_drain_startup_mailbox, one attempt of three.  A drained error other  *)
(* than a residue is a failure to be retained, and still drained.           *)
Drain ==
  /\ sn.phase = "drain" /\ Irq
  /\ \E r \in SpiCaptureResponse(box) :
       LET t == Captured(SpiTraceBegin(sn.context, None), r)
           s == [sn EXCEPT !.trace = IF r.code # "OK" THEN t ELSE [t EXCEPT !.code = r.frame.code]]
           kept == IF SpiTraceIsResidue(s.trace) THEN SpiRecordResidue(s) ELSE SpiLatchFirstFailure(s)
       IN /\ noise + r.cost <= MaxNoise /\ noise' = noise + r.cost
          /\ box' = r.left
          /\ sn' = IF r.code # "OK" THEN Return(kept, r.code)
                   ELSE IF r.left = None THEN [kept EXCEPT !.phase = "prepare", !.attempts = 0]
                   ELSE IF sn.attempts < 2 THEN [kept EXCEPT !.attempts = @ + 1]
                   ELSE Fail(kept, "RESULT_PENDING")
  /\ UNCHANGED <<core, hist>>

(* The mailbox was emptied since IRQ was seen: there is nothing to drain,   *)
(* or the drain reads no frame.                                             *)
DrainEmpty ==
  /\ sn.phase = "drain" /\ ~Irq
  /\ \/ sn.attempts = 0 /\ sn' = [sn EXCEPT !.phase = "prepare"]
     \/ sn' = Fail([sn EXCEPT !.trace = SpiTraceBegin(sn.context, None)],
                   IF sn.fault THEN "FAULT_LOCKED" ELSE "BAD_CRC")
  /\ UNCHANGED <<box, core, hist, noise>>

(* spi_prepare_request_window: IRQ stays inactive for the settle time, or   *)
(* the mailbox is drained, three times at most.  A start-up drain of its    *)
(* own ends here.                                                           *)
SpiPrepareRequestWindow ==
  /\ sn.phase = "prepare"
  /\ sn' = IF Irq
           THEN IF sn.drains < 3 THEN [sn EXCEPT !.phase = "drain", !.drains = @ + 1]
                ELSE Return(sn, "RESULT_PENDING")
           ELSE IF sn.cmd = "DRAIN" THEN Return(sn, "OK") ELSE [sn EXCEPT !.phase = "send"]
  /\ UNCHANGED <<box, core, hist, noise>>

(* next_spi_txid *)
NextSpiTxid(id) == IF id = MaxTxid THEN 1 ELSE id + 1

(* The request goes out, unless a response is pending or a fault has closed *)
(* the bus.                                                                 *)
SendRequest ==
  /\ sn.phase = "send" /\ hist.ids < MaxRequests
  /\ LET q == Request(sn.cmd, sn.txid, hist.ids + 1)
         s == [sn EXCEPT !.txid = NextSpiTxid(@), !.trace = SpiTraceBegin(sn.context, q)]
     IN IF Irq \/ sn.fault
        THEN /\ sn' = Fail(s, IF Irq THEN "RESULT_PENDING" ELSE "FAULT_LOCKED")
             /\ hist' = [hist EXCEPT !.ids = q.n]
             /\ UNCHANGED <<box, core, noise>>
        ELSE /\ sn' = [s EXCEPT !.phase = "wait"]
             /\ \/ ReceiveIntact(q) /\ UNCHANGED noise
                \/ noise < MaxNoise /\ noise' = noise + 1 /\ ReceiveDamaged(q)

(* Mutant: every command is sent again after a transport error. *)
SpiCommandAllowsReadRetry_Any(cmd) == TRUE

(* spi_command_allows_read_retry: discovery and status, without payload. *)
SpiCommandAllowsReadRetry(cmd) == cmd \in Reads

(* spi_error_allows_read_retry *)
SpiErrorAllowsReadRetry(code) ==
  code \in {"BAD_LENGTH", "BAD_CRC", "FRAME_TIMEOUT", "TRANSACTION_CONFLICT"}

(* retry_read_request: *)
RetryReadRequest(s, code) ==
  IF /\ SpiCommandAllowsReadRetry(s.cmd) /\ SpiErrorAllowsReadRetry(code)
     /\ s.reissues < READ_REISSUE
  THEN [s EXCEPT !.trace.code = code, !.phase = "prepare", !.drains = 0, !.reissues = @ + 1]
  ELSE Fail(s, code)

(* What the exchange makes of a decoded response: a request cut on the way, *)
(* another exchange's answer, an error, or the answer.                      *)
Verdict(q, p) ==
  IF p.code = "BAD_LENGTH" THEN "BAD_LENGTH"
  ELSE IF p.cmd # q.cmd \/ p.txid # q.txid THEN "TRANSACTION_CONFLICT"
  ELSE p.code

ReceiveResponse ==
  /\ sn.phase = "wait" /\ Irq
  /\ \E r \in SpiCaptureResponse(box) :
       LET s == [sn EXCEPT !.trace = Captured(@, r)]
           code == IF r.code # "OK" THEN r.code ELSE Verdict(sn.trace.request, r.frame)
       IN /\ noise + r.cost <= MaxNoise /\ noise' = noise + r.cost
          /\ box' = r.left
          /\ sn' = IF code = "OK" THEN Return(s, "OK")
                   ELSE RetryReadRequest(SpiRecordResidue([s EXCEPT !.trace.code = code]), code)
  /\ UNCHANGED <<core, hist>>

ResponseTimeout ==
  /\ sn.phase = "wait" /\ ~Irq
  /\ sn' = RetryReadRequest(sn, "FRAME_TIMEOUT")
  /\ UNCHANGED <<box, core, hist, noise>>

-----------------------------------------------------------------------------
(* The callers.                                                             *)

Begin(s, cmd, context) ==
  [s EXCEPT !.phase = "prepare", !.cmd = cmd, !.context = context, !.code = None,
            !.reissues = 0, !.drains = 0, !.attempts = 0]

NewCall == [hist EXCEPT !.runs = 0, !.call = hist.ids + 1, !.met = None]

(* startup_drain_and_probe_with_recovery, for one Primer. *)
StartupProbe == <<"DRAIN", "GET_INFO", "GET_STATUS">>

(* The SN32 after a reset: identifiers start at 1 again and no failure is   *)
(* retained.  plan is what is left of the start-up probe, failed that an    *)
(* earlier round of it failed.                                              *)
Boot ==
  [phase |-> "prepare", cmd |-> "DRAIN", context |-> "STARTUP", code |-> None,
   reissues |-> 0, drains |-> 0, attempts |-> 0, txid |-> 1, trace |-> None, kept |-> None,
   fault |-> FALSE, plan |-> StartupProbe, failed |-> FALSE]

(* startup_clear_recovered_transport_evidence *)
ClearRecovered(s) ==
  IF s.failed /\ s.kept # None /\ s.kept.failure THEN [s EXCEPT !.kept = None] ELSE s

StartupErrorIsRetryable(code) ==
  SpiErrorAllowsReadRetry(code) \/ code \in {"RESULT_PENDING", "BUSY", "RESULT_NOT_READY"}

(* A part of the start-up probe has ended: the next part, the end, another  *)
(* round, or giving up.                                                     *)
StartupStep ==
  /\ sn.phase = "done" /\ sn.plan # <<>>
  /\ \/ /\ sn.code = "OK" /\ Len(sn.plan) > 1
        /\ sn' = Begin([sn EXCEPT !.plan = Tail(@)], sn.plan[2], "STARTUP")
     \/ /\ sn.code = "OK" /\ Len(sn.plan) = 1
        /\ sn' = ClearRecovered([sn EXCEPT !.plan = <<>>])
     \/ /\ sn.code # "OK" /\ StartupErrorIsRetryable(sn.code) /\ ~sn.fault
        /\ sn' = Begin([sn EXCEPT !.plan = StartupProbe, !.failed = TRUE], "DRAIN", "STARTUP")
     \/ /\ sn.code # "OK"
        /\ sn' = [sn EXCEPT !.plan = <<>>]
  /\ hist' = IF sn'.plan = <<>> THEN hist ELSE NewCall
  /\ UNCHANGED <<box, core, noise>>

(* The main loop probes only while no failure is retained. *)
MayProbe == ~sn.fault /\ (sn.kept # None => ~sn.kept.failure)

(* An exchange for the periodic probe, for the host's diagnostic command,   *)
(* or for the controller.                                                   *)
Call ==
  /\ sn.phase = "done" /\ sn.plan = <<>>
  /\ \E context \in {"PERIODIC_PROBE", "HOST_DIAGNOSTIC", "NONE"}, cmd \in Commands :
       /\ context # "NONE" => cmd \in Reads
       /\ context = "PERIODIC_PROBE" => MayProbe
       /\ sn' = Begin(sn, cmd, context)
  /\ hist' = NewCall
  /\ UNCHANGED <<box, core, noise>>

(* The answer to SPI_DIAGNOSTIC is refused by its handler, or accepted as   *)
(* live by _validate_live_spi_trace.                                        *)
HandleSpiDiagnostic == sn.trace # None /\ sn.trace.cmd = sn.cmd

(* Mutant: the IRQ level after the response is not looked at. *)
ValidateLiveSpiTrace_IgnoresIrq(t, cmd) ==
  /\ t.code = "OK"
  /\ t.request # None /\ t.request.cmd = cmd
  /\ t.response # None /\ t.response.code = "OK"
  /\ t.response.cmd = cmd /\ t.response.txid = t.request.txid
  /\ ~t.irqBeforeRequest /\ t.irqBeforeResponse

ValidateLiveSpiTrace(t, cmd) ==
  /\ t.code = "OK"
  /\ t.request # None /\ t.request.cmd = cmd
  /\ t.response # None /\ t.response.code = "OK"
  /\ t.response.cmd = cmd /\ t.response.txid = t.request.txid
  /\ ~t.irqBeforeRequest /\ t.irqBeforeResponse /\ ~t.irqAfterResponse

(* The answer to GET_FIRST_SPI_FAILURE is one that the host can read. *)
FirstSpiFailureReadable == sn.kept # None /\ ~sn.kept.failure => sn.kept.trace.context \in ResidueContexts

-----------------------------------------------------------------------------
(* Resets and faults.                                                       *)

(* A reset of the SN32 may cut a request short. *)
ResetSn32 ==
  /\ noise < MaxNoise /\ noise' = noise + 1
  /\ sn' = Boot
  /\ \/ UNCHANGED box
     \/ /\ sn.phase = "send" /\ ~Irq /\ ~core.busy
        /\ box' = ShortCs(Request(sn.cmd, sn.txid, hist.ids))
  /\ hist' = [NewCall EXCEPT !.boot = @ + 1]
  /\ UNCHANGED core

ResetPrimer ==
  /\ noise < MaxNoise /\ noise' = noise + 1
  /\ box' = None /\ core' = [busy |-> FALSE, ret |-> None]
  /\ UNCHANGED <<sn, hist>>

(* g_fault: a fault of the Tiny1P5 or an expired progress lease. *)
RaiseFault ==
  /\ ~sn.fault /\ noise < MaxNoise /\ noise' = noise + 1
  /\ sn' = [sn EXCEPT !.fault = TRUE]
  /\ UNCHANGED <<box, core, hist>>

(* History: ids issued, resets of the SN32, the first request of the        *)
(* present call and the side effects executed for it, and the record that   *)
(* the Primer held when the last request reached it.                        *)
Hist == [ids |-> 0, boot |-> 0, call |-> 1, runs |-> 0, met |-> None]

Init ==
  /\ sn = Boot /\ box = None /\ core = [busy |-> FALSE, ret |-> None]
  /\ hist = Hist /\ noise = 0

Next ==
  \/ Drain \/ DrainEmpty \/ SpiPrepareRequestWindow \/ SendRequest \/ ReceiveResponse
  \/ ResponseTimeout \/ StartupStep \/ Call \/ EngineDone \/ ResetSn32 \/ ResetPrimer \/ RaiseFault

Spec == Init /\ [][Next]_vars

-----------------------------------------------------------------------------
(* What is sent, answered and told.                                         *)

Codes == {"OK", "BAD_LENGTH", "BAD_CRC", "FRAME_TIMEOUT", "TRANSACTION_CONFLICT",
          "RESULT_PENDING", "BUSY", "RESULT_NOT_READY", "FAULT_LOCKED"}

Contexts == ResidueContexts \cup {"HOST_DIAGNOSTIC", "NONE"}

Requests == [cmd: Commands, txid: 1..MaxTxid, n: Nat]

Responses == [cmd: Commands \cup {None}, txid: 0..MaxTxid, code: Codes, n: Nat]

Traces ==
  [context: Contexts, request: Requests \cup {None}, cmd: Commands \cup {None}, code: Codes,
   response: Responses \cup {None}, irqBeforeRequest: BOOLEAN, irqBeforeResponse: BOOLEAN,
   irqAfterResponse: BOOLEAN]

KeptTraces == [failure: BOOLEAN, trace: Traces]

(* No failure retained is not a retained failure. *)
ASSUME KeptAssumption == None \notin KeptTraces

-----------------------------------------------------------------------------
(* Properties.                                                              *)

(* One call of endpoint_exchange executes a side effect at most once,       *)
(* whatever is lost, damaged, read again or sent again.  An accepted        *)
(* response answers the last request of this very call; an accepted side    *)
(* effect was executed for it, or its identifier had come round to that of  *)
(* a result still retained, after a wrap or a reset of the SN32.            *)
ExchangeHonest ==
  /\ hist.runs <= 1
  /\ sn.phase = "done" /\ sn.code = "OK" /\ sn.cmd # "DRAIN" =>
       /\ sn.trace.response.cmd = sn.cmd
       /\ sn.trace.response.n = hist.ids /\ hist.ids >= hist.call
       /\ sn.cmd \in SideEffects /\ hist.runs = 0 =>
            /\ hist.met # None /\ hist.met.cmd = sn.cmd
            /\ hist.met.boot < hist.boot \/ hist.ids - hist.met.n >= MaxTxid

(* A trace that the PC accepts as live is of an exchange the Primer         *)
(* answered for this diagnostic, with nothing left in the mailbox.          *)
LiveTraceHonest ==
  /\ sn.phase = "done" /\ sn.context = "HOST_DIAGNOSTIC" /\ HandleSpiDiagnostic
  /\ ValidateLiveSpiTrace(sn.trace, sn.cmd)
  => sn.trace.response.n = hist.ids /\ hist.ids >= hist.call /\ box = None

(* A failed exchange leaves a failure retained, and the PC can read what is *)
(* retained.                                                                *)
FailureRetained ==
  /\ sn.phase = "done" /\ sn.code # "OK" => sn.kept # None /\ sn.kept.failure
  /\ sn.kept # None /\ sn.kept.failure => sn.kept.trace.code # "OK"
  /\ FirstSpiFailureReadable

(* The evidence the SN32 gives of an exchange is true. *)
EvidenceHonest == LiveTraceHonest /\ FailureRetained
=============================================================================
