--------------------------- MODULE SpiLinkProofs ---------------------------
(* Honesty of the SPI exchange and of the evidence kept of it, for any      *)
(* number of transaction identifiers, requests, reissues and disturbances.  *)
EXTENDS SpiLink, TLAPS

Phases == {"prepare", "drain", "send", "wait", "done"}

(* What may be left of the start-up probe. *)
Plans == {StartupProbe, <<"GET_INFO", "GET_STATUS">>, <<"GET_STATUS">>, <<>>}

Masters ==
  [phase: Phases, cmd: Commands \cup {"DRAIN"}, context: Contexts, code: Codes \cup {None},
   reissues: Nat, drains: Nat, attempts: Nat, txid: 1..MaxTxid, trace: Traces \cup {None},
   kept: KeptTraces \cup {None}, fault: BOOLEAN, plan: Plans, failed: BOOLEAN]

(* A retained record, with the request and the boot it was made for. *)
Records == [cmd: SideEffects, txid: 1..MaxTxid, n: Nat, boot: Nat]

Cores == [busy: BOOLEAN, ret: Records \cup {None}]

Histories == [ids: Nat, boot: Nat, call: Nat, runs: 0..1, met: Records \cup {None}]

SpiTypeOK ==
  /\ sn \in Masters /\ box \in Responses \cup {None} /\ core \in Cores
  /\ hist \in Histories /\ noise \in Nat

(* A side effect that was answered and not executed for this call. *)
Explained ==
  /\ hist.met # None /\ hist.met.cmd = sn.cmd
  /\ hist.met.boot < hist.boot \/ hist.ids - hist.met.n >= MaxTxid

(* What a retained trace is evidence of. *)
Evidence(k) ==
  k # None => /\ k.failure => k.trace.code # "OK"
              /\ ~k.failure => k.trace.context \in ResidueContexts

(* A call before its request: only a read is ever sent again, so nothing    *)
(* was executed yet, and what was drained does not come back.               *)
CallInv ==
  /\ sn.phase \in {"prepare", "drain", "send"} => hist.runs = 0
  /\ sn.phase \in {"send", "wait"} => sn.cmd \in Commands
  /\ sn.cmd \notin SideEffects => hist.runs = 0
  /\ sn.cmd = "DRAIN" => sn.context = "STARTUP"
  /\ sn.phase = "prepare" /\ sn.drains # 0 => box = None
  /\ hist.call <= hist.ids + 1

(* A call after its request: a response in the mailbox answers it. *)
WaitInv ==
  sn.phase = "wait" =>
    /\ sn.trace \in Traces /\ sn.trace.request \in Requests
    /\ sn.trace.request.cmd = sn.cmd /\ hist.call <= hist.ids
    /\ box # None =>
         /\ box.n = hist.ids
         /\ box.code = "OK" /\ sn.cmd \in SideEffects /\ hist.runs = 0 => Explained

(* A call that has returned: an accepted response, or a failure on record. *)
DoneInv ==
  sn.phase = "done" =>
    /\ sn.code = "OK" /\ sn.cmd # "DRAIN" =>
         /\ sn.trace.response.cmd = sn.cmd
         /\ sn.trace.response.n = hist.ids /\ hist.call <= hist.ids
         /\ sn.cmd \in SideEffects /\ hist.runs = 0 => Explained
    /\ sn.context = "HOST_DIAGNOSTIC" /\ sn.trace.code = "OK" /\ sn.trace.request # None =>
         /\ sn.trace.response.n = hist.ids /\ hist.call <= hist.ids
         /\ ~sn.trace.irqAfterResponse => box = None
    /\ sn.code # "OK" => sn.kept # None /\ sn.kept.failure

(* The identifiers issued in this boot run in order from the one of the     *)
(* retained record: fewer than MaxTxid of them do not come round to it.     *)
RecordInv ==
  core.ret # None =>
    LET d == hist.ids + 1 - core.ret.n IN
    /\ core.ret.n <= hist.ids /\ core.ret.boot <= hist.boot
    /\ core.ret.boot = hist.boot /\ d < MaxTxid =>
         sn.txid = core.ret.txid + d \/ sn.txid + MaxTxid = core.ret.txid + d

(* The inductive invariant. *)
SpiIInv == SpiTypeOK /\ CallInv /\ WaitInv /\ DoneInv /\ RecordInv /\ Evidence(sn.kept)

-----------------------------------------------------------------------------
(* The helpers.                                                             *)

(* One read of a pending mailbox. *)
ReadResults(b) == [code: {"OK", "BAD_CRC", "FAULT_LOCKED"}, frame: {b, None}, left: {b, None}, cost: Nat]

ReadSound(b, r) ==
  /\ r \in ReadResults(b)
  /\ r.code = "OK" => r.frame = b
  /\ r.code # "OK" => r.frame = None

(* spi_capture_response_once returns the pending frame or an error, and     *)
(* leaves the frame or an empty mailbox.                                    *)
LEMMA ReadOnceSound == \A b : \A r \in ReadOnce(b) : ReadSound(b, r)
BY DEF ReadOnce, ReadSound, ReadResults

(* spi_capture_response, with its second read, does the same. *)
LEMMA ReadSoundness == \A b : \A r \in SpiCaptureResponse(b) : ReadSound(b, r)
<1> SUFFICES ASSUME NEW b, NEW x \in SpiCaptureResponse(b) PROVE ReadSound(b, x)
  OBVIOUS
<1>1. PICK r \in ReadOnce(b) :
        x \in IF r.code # "BAD_CRC" \/ r.left = None THEN {r}
              ELSE {[s EXCEPT !.cost = @ + r.cost] : s \in ReadOnce(b)}
  BY DEF SpiCaptureResponse
<1>2. ReadSound(b, r)
  BY ReadOnceSound
<1>3. CASE x = r
  BY <1>2, <1>3
<1>4. CASE \E s \in ReadOnce(b) : x = [s EXCEPT !.cost = @ + r.cost]
  <2>1. PICK s \in ReadOnce(b) : x = [s EXCEPT !.cost = @ + r.cost]
    BY <1>4
  <2>2. ReadSound(b, s)
    BY ReadOnceSound
  <2>3. r.cost \in Nat /\ s.cost \in Nat /\ s \in ReadResults(b)
    BY <1>2, <2>2 DEF ReadSound, ReadResults
  <2>4. x.code = s.code /\ x.frame = s.frame /\ x \in ReadResults(b)
    BY <2>1, <2>3 DEF ReadResults
  <2> QED BY <2>2, <2>4 DEF ReadSound
<1> QED BY <1>1, <1>3, <1>4

(* What latching leaves in a master s with the evidence k. *)
Latched(s, k) ==
  /\ k \in KeptTraces \cup {None} /\ Evidence(k)
  /\ s.trace.code # "OK" => k # None /\ k.failure

(* spi_latch_first_failure changes the retained trace only, and after it a  *)
(* failed trace has a failure retained.                                     *)
LEMMA LatchSound ==
  ASSUME NEW s \in Masters, s.trace \in Traces, Evidence(s.kept)
  PROVE  \E k : Latched(s, k) /\ SpiLatchFirstFailure(s) = [s EXCEPT !.kept = k]
<1>1. CASE (s.kept = None \/ ~s.kept.failure) /\ s.trace.code # "OK"
  <2> DEFINE k == [failure |-> TRUE, trace |-> s.trace]
  <2>1. k \in KeptTraces /\ k.failure = TRUE /\ k.trace = s.trace
    BY DEF KeptTraces
  <2>2. k # None
    BY <2>1, KeptAssumption DEF KeptAssumption
  <2>3. Evidence(k)
    BY <2>1, <1>1 DEF Evidence
  <2>4. SpiLatchFirstFailure(s) = [s EXCEPT !.kept = k]
    BY <1>1 DEF SpiLatchFirstFailure
  <2> QED BY <2>1, <2>2, <2>3, <2>4 DEF Latched
<1>2. CASE ~((s.kept = None \/ ~s.kept.failure) /\ s.trace.code # "OK")
  <2>1. SpiLatchFirstFailure(s) = s
    BY <1>2 DEF SpiLatchFirstFailure
  <2>2. s = [s EXCEPT !.kept = s.kept]
    BY DEF Masters
  <2>3. s.kept \in KeptTraces \cup {None}
    BY DEF Masters
  <2>4. Latched(s, s.kept)
    BY <1>2, <2>3 DEF Latched
  <2> QED BY <2>1, <2>2, <2>4
<1> QED BY <1>1, <1>2

(* spi_record_startup_residue changes the retained trace only; a residue is *)
(* of the probes alone.                                                     *)
LEMMA ResidueSound ==
  ASSUME NEW s \in Masters, s.trace \in Traces, Evidence(s.kept)
  PROVE  \E k \in KeptTraces \cup {None} :
           Evidence(k) /\ SpiRecordResidue(s) = [s EXCEPT !.kept = k]
<1>1. CASE s.kept = None /\ SpiTraceIsResidue(s.trace)
  <2> DEFINE k == [failure |-> FALSE, trace |-> s.trace]
  <2>1. k \in KeptTraces /\ k.failure = FALSE /\ k.trace = s.trace
    BY DEF KeptTraces
  <2>2. Evidence(k)
    BY <2>1, <1>1 DEF Evidence, SpiTraceIsResidue
  <2>3. SpiRecordResidue(s) = [s EXCEPT !.kept = k]
    BY <1>1 DEF SpiRecordResidue
  <2> QED BY <2>1, <2>2, <2>3
<1>2. CASE ~(s.kept = None /\ SpiTraceIsResidue(s.trace))
  <2>1. SpiRecordResidue(s) = s
    BY <1>2 DEF SpiRecordResidue
  <2>2. s = [s EXCEPT !.kept = s.kept] /\ s.kept \in KeptTraces \cup {None}
    BY DEF Masters
  <2> QED BY <2>1, <2>2
<1> QED BY <1>1, <1>2

(* A master that has returned from s with a failure on record. *)
FailedAs(s, r, code) ==
  /\ r \in Masters /\ r.phase = "done" /\ r.code = code
  /\ r.trace \in Traces /\ r.trace.code = code
  /\ r.kept # None /\ r.kept.failure /\ Evidence(r.kept)
  /\ r.cmd = s.cmd /\ r.txid = s.txid /\ r.context = s.context

(* failed: of endpoint_exchange leaves a failure on record. *)
LEMMA FailSound ==
  ASSUME NEW s \in Masters, s.trace \in Traces, Evidence(s.kept),
         NEW code \in Codes, code # "OK"
  PROVE  FailedAs(s, Fail(s, code), code)
<1> DEFINE u == [s EXCEPT !.trace.code = code]
<1>1. /\ u \in Masters /\ u.trace \in Traces /\ u.trace.code = code /\ u.kept = s.kept
      /\ u.cmd = s.cmd /\ u.txid = s.txid /\ u.context = s.context
  BY DEF Masters, Traces
<1>2. Fail(s, code) = [SpiLatchFirstFailure(u) EXCEPT !.phase = "done", !.code = code]
  BY DEF Fail, Return
<1> HIDE DEF u
<1>3. PICK k : Latched(u, k) /\ SpiLatchFirstFailure(u) = [u EXCEPT !.kept = k]
  BY <1>1, LatchSound
<1>4. k \in KeptTraces \cup {None} /\ Evidence(k) /\ k # None /\ k.failure
  BY <1>1, <1>3 DEF Latched
<1> DEFINE f == Fail(s, code)
<1>5. f = [[u EXCEPT !.kept = k] EXCEPT !.phase = "done", !.code = code]
  BY <1>2, <1>3
<1> HIDE DEF f
<1>6. /\ f \in Masters /\ f.phase = "done" /\ f.code = code /\ f.kept = k /\ f.trace = u.trace
      /\ f.cmd = u.cmd /\ f.txid = u.txid /\ f.context = u.context
  BY <1>1, <1>4, <1>5, ZenonT(60) DEF Masters, Phases
<1>7. FailedAs(s, f, code)
  BY <1>1, <1>4, <1>6 DEF FailedAs
<1> QED BY <1>7 DEF f

(* A master that sends its read once more. *)
RetriedAs(s, r) ==
  /\ r \in Masters /\ r.phase = "prepare" /\ r.drains = 0 /\ r.kept = s.kept
  /\ r.cmd = s.cmd /\ s.cmd \in Reads /\ r.txid = s.txid /\ r.context = s.context

(* retry_read_request: sends a read again, or leaves a failure on record. *)
LEMMA RetrySound ==
  ASSUME NEW s \in Masters, s.trace \in Traces, Evidence(s.kept),
         NEW code \in Codes, code # "OK"
  PROVE  \/ FailedAs(s, RetryReadRequest(s, code), code)
         \/ RetriedAs(s, RetryReadRequest(s, code))
<1> DEFINE may == /\ SpiCommandAllowsReadRetry(s.cmd) /\ SpiErrorAllowsReadRetry(code)
                  /\ s.reissues < READ_REISSUE
<1>1. CASE may
  <2> DEFINE r == RetryReadRequest(s, code)
  <2>1. r = [s EXCEPT !.trace.code = code, !.phase = "prepare", !.drains = 0, !.reissues = @ + 1]
    BY <1>1 DEF RetryReadRequest
  <2>2. s.cmd \in Reads
    BY <1>1 DEF SpiCommandAllowsReadRetry
  <2> DEFINE n == s.reissues + 1
             tr == [s.trace EXCEPT !.code = code]
  <2>3. n \in Nat /\ tr \in Traces
    BY DEF Masters, Traces
  <2>4. r = [s EXCEPT !.trace = tr, !.phase = "prepare", !.drains = 0, !.reissues = n]
    BY <2>1 DEF Masters
  <2> HIDE DEF r, n, tr
  <2>5. RetriedAs(s, r)
    BY <2>2, <2>3, <2>4 DEF RetriedAs, Masters, Phases
  <2> QED BY <2>5 DEF r
<1>2. CASE ~may
  <2>1. RetryReadRequest(s, code) = Fail(s, code)
    BY <1>2 DEF RetryReadRequest
  <2> QED BY <2>1, FailSound
<1> QED BY <1>1, <1>2

(* spi_trace_begin, for a request or for a drain. *)
LEMMA TraceBegun ==
  ASSUME NEW context \in Contexts, NEW q \in Requests \cup {None}
  PROVE  SpiTraceBegin(context, q) \in Traces /\ SpiTraceBegin(context, q).request = q
<1>1. (IF q = None THEN None ELSE q.cmd) \in Commands \cup {None}
  BY DEF Requests
<1>2. (q # None /\ Irq) \in BOOLEAN /\ FALSE \in BOOLEAN
  OBVIOUS
<1>3. "OK" \in Codes /\ None \in Responses \cup {None}
  BY DEF Codes
<1> QED BY <1>1, <1>2, <1>3 DEF SpiTraceBegin, Traces

(* A read completes the trace. *)
LEMMA TraceCaptured ==
  ASSUME NEW t \in Traces, NEW b \in Responses, NEW r, ReadSound(b, r)
  PROVE  /\ Captured(t, r) \in Traces /\ Captured(t, r).request = t.request
         /\ Captured(t, r).code = r.code /\ Captured(t, r).response = r.frame
         /\ Captured(t, r).context = t.context
         /\ Captured(t, r).irqAfterResponse = (r.left # None)
<1>1. r.code \in Codes /\ r.frame \in Responses \cup {None}
  BY DEF ReadSound, ReadResults, Codes
<1>2. (IF t.request = None /\ r.frame # None THEN r.frame.cmd ELSE t.cmd) \in Commands \cup {None}
  BY <1>1 DEF Traces, Responses
<1>3. TRUE \in BOOLEAN /\ (r.left # None) \in BOOLEAN
  OBVIOUS
<1> DEFINE b2 == (r.left # None)
<1> DEFINE c2 == (IF t.request = None /\ r.frame # None THEN r.frame.cmd ELSE t.cmd)
<1>4. Captured(t, r) =
        [t EXCEPT !.irqBeforeResponse = TRUE, !.irqAfterResponse = b2,
                  !.response = r.frame, !.code = r.code, !.cmd = c2]
  BY DEF Captured
<1>5. b2 \in BOOLEAN /\ c2 \in Commands \cup {None}
  BY <1>2
<1> DEFINE k == Captured(t, r)
<1> HIDE DEF b2, c2, k
<1>6. k = [t EXCEPT !.irqBeforeResponse = TRUE, !.irqAfterResponse = b2,
                    !.response = r.frame, !.code = r.code, !.cmd = c2]
  BY <1>4 DEF k
<1>7. k \in Traces
  BY <1>1, <1>3, <1>5, <1>6 DEF Traces
<1>8. k.request = t.request /\ k.code = r.code /\ k.response = r.frame /\ k.context = t.context
  BY <1>6 DEF Traces
<1>9. k.irqAfterResponse = b2
  BY <1>6 DEF Traces
<1> QED BY <1>7, <1>8, <1>9 DEF k, b2

(* What Verdict accepts is the answer to the request. *)
LEMMA VerdictSound ==
  ASSUME NEW q \in Requests, NEW p \in Responses
  PROVE  /\ Verdict(q, p) \in Codes
         /\ Verdict(q, p) = "OK" => p.cmd = q.cmd /\ p.code = "OK"
BY DEF Verdict, Responses, Codes

(* Transaction identifiers stay in their range. *)
LEMMA TxidRange == \A id \in 1..MaxTxid : NextSpiTxid(id) \in 1..MaxTxid
BY SpiAssumption DEF NextSpiTxid, SpiAssumption

-----------------------------------------------------------------------------
(* The steps.                                                               *)

(* The parts of the invariant that the present step does not touch. *)
LEMMA RecordStays ==
  ASSUME RecordInv, core'.ret = core.ret, sn'.txid = sn.txid,
         hist'.ids = hist.ids, hist'.boot = hist.boot
  PROVE  RecordInv'
BY DEF RecordInv

(* A call that fails ends as the invariant says. *)
LEMMA FailEnds ==
  ASSUME NEW s, NEW code \in Codes, code # "OK", FailedAs(s, sn', code)
  PROVE  WaitInv' /\ DoneInv' /\ Evidence(sn'.kept)
BY DEF FailedAs, WaitInv, DoneInv

(* spi_prepare_request_window. *)
LEMMA PrepareStep == SpiIInv /\ SpiPrepareRequestWindow => SpiIInv'
<1> SUFFICES ASSUME SpiIInv, SpiPrepareRequestWindow PROVE SpiIInv'
  OBVIOUS
<1>1. SpiTypeOK /\ CallInv /\ WaitInv /\ DoneInv /\ RecordInv /\ Evidence(sn.kept)
  BY DEF SpiIInv
<1>2. sn \in Masters /\ hist \in Histories
  BY <1>1 DEF SpiTypeOK
<1>3. sn.phase = "prepare" /\ UNCHANGED <<box, core, hist, noise>>
  BY DEF SpiPrepareRequestWindow
<1>4. CASE Irq
  <2>1. sn.drains < 3 /\ sn' = [sn EXCEPT !.phase = "drain", !.drains = @ + 1]
    BY <1>1, <1>3, <1>4 DEF CallInv, Irq, SpiPrepareRequestWindow
  <2>2. /\ sn' \in Masters /\ sn'.phase = "drain" /\ sn'.cmd = sn.cmd /\ sn'.txid = sn.txid
        /\ sn'.context = sn.context /\ sn'.kept = sn.kept
    <3> DEFINE n == sn.drains + 1
    <3>1. n \in Nat /\ sn' = [sn EXCEPT !.phase = "drain", !.drains = n]
      BY <1>2, <2>1 DEF Masters
    <3> HIDE DEF n
    <3> QED BY <1>2, <3>1 DEF Masters, Phases
  <2>3. CallInv'
    BY <1>1, <1>3, <2>2 DEF CallInv
  <2>4. WaitInv' /\ DoneInv'
    BY <2>2 DEF WaitInv, DoneInv
  <2>5. RecordInv'
    BY <1>1, <1>3, <2>2, RecordStays
  <2> QED BY <1>1, <1>3, <2>2, <2>3, <2>4, <2>5 DEF SpiIInv, SpiTypeOK
<1>5. CASE ~Irq /\ sn.cmd = "DRAIN"
  <2>1. sn' = [sn EXCEPT !.phase = "done", !.code = "OK"]
    BY <1>5 DEF SpiPrepareRequestWindow, Return
  <2>2. /\ sn' \in Masters /\ sn'.phase = "done" /\ sn'.cmd = "DRAIN" /\ sn'.txid = sn.txid
        /\ sn'.context = sn.context /\ sn'.kept = sn.kept /\ sn'.code = "OK"
    BY <1>2, <1>5, <2>1 DEF Masters, Phases, Codes
  <2>3. CallInv'
    BY <1>1, <1>3, <1>5, <2>2 DEF CallInv
  <2>4. sn'.context = "STARTUP"
    BY <1>1, <1>5, <2>2 DEF CallInv
  <2>5. WaitInv' /\ DoneInv'
    BY <2>2, <2>4 DEF WaitInv, DoneInv
  <2>6. RecordInv'
    BY <1>1, <1>3, <2>2, RecordStays
  <2> QED BY <1>1, <1>3, <2>2, <2>3, <2>5, <2>6 DEF SpiIInv, SpiTypeOK
<1>6. CASE ~Irq /\ sn.cmd # "DRAIN"
  <2>1. sn' = [sn EXCEPT !.phase = "send"]
    BY <1>6 DEF SpiPrepareRequestWindow
  <2>2. /\ sn' \in Masters /\ sn'.phase = "send" /\ sn'.cmd = sn.cmd /\ sn'.txid = sn.txid
        /\ sn'.context = sn.context /\ sn'.kept = sn.kept /\ sn.cmd \in Commands
    BY <1>2, <1>6, <2>1 DEF Masters, Phases
  <2>3. CallInv'
    BY <1>1, <1>3, <2>2 DEF CallInv
  <2>4. WaitInv' /\ DoneInv'
    BY <2>2 DEF WaitInv, DoneInv
  <2>5. RecordInv'
    BY <1>1, <1>3, <2>2, RecordStays
  <2> QED BY <1>1, <1>3, <2>2, <2>3, <2>4, <2>5 DEF SpiIInv, SpiTypeOK
<1> QED BY <1>4, <1>5, <1>6

(* The trace of a drain, and the master that holds it. *)
DrainTrace(r) ==
  LET t == Captured(SpiTraceBegin(sn.context, None), r)
  IN IF r.code # "OK" THEN t ELSE [t EXCEPT !.code = r.frame.code]

(* What a drain reads is put on record before the drain goes on. *)
LEMMA DrainRecorded ==
  ASSUME SpiTypeOK, Evidence(sn.kept), box \in Responses, NEW r, ReadSound(box, r)
  PROVE  LET s == [sn EXCEPT !.trace = DrainTrace(r)]
             kept == IF SpiTraceIsResidue(s.trace) THEN SpiRecordResidue(s) ELSE SpiLatchFirstFailure(s)
         IN /\ DrainTrace(r) \in Traces
            /\ r.code # "OK" => DrainTrace(r).code = r.code
            /\ \E k \in KeptTraces \cup {None} :
                 /\ Evidence(k) /\ kept = [s EXCEPT !.kept = k]
                 /\ r.code # "OK" => k # None /\ k.failure
<1> DEFINE t == Captured(SpiTraceBegin(sn.context, None), r)
           d == DrainTrace(r)
           s == [sn EXCEPT !.trace = d]
<1>0. sn \in Masters /\ sn.context \in Contexts
  BY DEF SpiTypeOK, Masters
<1>1. SpiTraceBegin(sn.context, None) \in Traces
  BY <1>0, TraceBegun
<1>2. t \in Traces /\ t.code = r.code /\ t.response = r.frame
  BY <1>1, TraceCaptured
<1> HIDE DEF t
<1>3. d = IF r.code # "OK" THEN t ELSE [t EXCEPT !.code = r.frame.code]
  BY DEF DrainTrace, t
<1>4. r.code = "OK" => r.frame.code \in Codes
  BY DEF ReadSound, Responses
<1>5. d \in Traces /\ (r.code # "OK" => d.code = r.code /\ d.response = r.frame)
  BY <1>2, <1>3, <1>4 DEF Traces
<1> HIDE DEF d
<1>6. s \in Masters /\ s.trace = d /\ s.kept = sn.kept
  BY <1>0, <1>5 DEF Masters
<1> HIDE DEF s
<1>7. r.code # "OK" => ~SpiTraceIsResidue(d)
  BY <1>5 DEF ReadSound, SpiTraceIsResidue
<1>8. CASE SpiTraceIsResidue(s.trace)
  <2>1. PICK k \in KeptTraces \cup {None} : Evidence(k) /\ SpiRecordResidue(s) = [s EXCEPT !.kept = k]
    BY <1>5, <1>6, ResidueSound
  <2> QED BY <1>5, <1>6, <1>7, <1>8, <2>1 DEF s, d
<1>9. CASE ~SpiTraceIsResidue(s.trace)
  <2>1. PICK k : Latched(s, k) /\ SpiLatchFirstFailure(s) = [s EXCEPT !.kept = k]
    BY <1>5, <1>6, LatchSound
  <2>2. k \in KeptTraces \cup {None} /\ Evidence(k) /\ (r.code # "OK" => k # None /\ k.failure)
    BY <1>5, <1>6, <2>1 DEF Latched
  <2> QED BY <1>5, <1>9, <2>1, <2>2 DEF s, d
<1> QED BY <1>8, <1>9

(* spi_drain_startup_mailbox. *)
LEMMA DrainStep == SpiIInv /\ Drain => SpiIInv'
<1> SUFFICES ASSUME SpiIInv, Drain PROVE SpiIInv'
  OBVIOUS
<1>1. SpiTypeOK /\ CallInv /\ WaitInv /\ DoneInv /\ RecordInv /\ Evidence(sn.kept)
  BY DEF SpiIInv
<1>2. sn \in Masters /\ hist \in Histories /\ noise \in Nat /\ core \in Cores
  BY <1>1 DEF SpiTypeOK
<1>3. sn.phase = "drain" /\ UNCHANGED <<core, hist>> /\ box \in Responses
  BY <1>1 DEF Drain, Irq, SpiTypeOK
<1> DEFINE s(r) == [sn EXCEPT !.trace = DrainTrace(r)]
           kept(r) == IF SpiTraceIsResidue(s(r).trace) THEN SpiRecordResidue(s(r))
                      ELSE SpiLatchFirstFailure(s(r))
<1>4. PICK r \in SpiCaptureResponse(box) :
        /\ noise' = noise + r.cost /\ box' = r.left
        /\ sn' = IF r.code # "OK" THEN Return(kept(r), r.code)
                 ELSE IF r.left = None THEN [kept(r) EXCEPT !.phase = "prepare", !.attempts = 0]
                 ELSE IF sn.attempts < 2 THEN [kept(r) EXCEPT !.attempts = @ + 1]
                 ELSE Fail(kept(r), "RESULT_PENDING")
  BY DEF Drain, DrainTrace
<1>5. ReadSound(box, r)
  BY ReadSoundness
<1>6. PICK k \in KeptTraces \cup {None} :
        /\ Evidence(k) /\ kept(r) = [s(r) EXCEPT !.kept = k]
        /\ r.code # "OK" => k # None /\ k.failure
  BY <1>1, <1>3, <1>5, DrainRecorded
<1>7. DrainTrace(r) \in Traces /\ (r.code # "OK" => DrainTrace(r).code = r.code)
  BY <1>1, <1>3, <1>5, DrainRecorded
<1> DEFINE m == kept(r)
<1>8. /\ m \in Masters /\ m.phase = "drain" /\ m.cmd = sn.cmd /\ m.txid = sn.txid /\ m.kept = k
      /\ m.context = sn.context /\ m.trace = DrainTrace(r) /\ m.attempts = sn.attempts
  <2> DEFINE d == DrainTrace(r)
  <2>1. m = [[sn EXCEPT !.trace = d] EXCEPT !.kept = k]
    BY <1>6
  <2>2. d \in Traces
    BY <1>7
  <2> HIDE DEF m, d
  <2>3. /\ m \in Masters /\ m.phase = "drain" /\ m.cmd = sn.cmd /\ m.txid = sn.txid /\ m.kept = k
        /\ m.context = sn.context /\ m.trace = d /\ m.attempts = sn.attempts
    BY <1>2, <1>3, <2>1, <2>2 DEF Masters
  <2> QED BY <2>3 DEF d
<1>9. /\ box' \in Responses \cup {None} /\ noise' \in Nat
      /\ r.code \in Codes
  BY <1>2, <1>3, <1>4, <1>5 DEF ReadSound, ReadResults, Codes
<1>10. sn' = IF r.code # "OK" THEN Return(m, r.code)
             ELSE IF r.left = None THEN [m EXCEPT !.phase = "prepare", !.attempts = 0]
             ELSE IF sn.attempts < 2 THEN [m EXCEPT !.attempts = @ + 1]
             ELSE Fail(m, "RESULT_PENDING")
  BY <1>4
<1> HIDE DEF m
<1>11. hist.runs = 0 /\ (sn.cmd = "DRAIN" => sn.context = "STARTUP") /\ hist.call <= hist.ids + 1
  BY <1>1, <1>3 DEF CallInv
<1>12. CASE r.code # "OK"
  <2>1. sn' = [m EXCEPT !.phase = "done", !.code = r.code]
    BY <1>10, <1>12 DEF Return
  <2>2. /\ sn' \in Masters /\ sn'.phase = "done" /\ sn'.cmd = sn.cmd /\ sn'.txid = sn.txid
        /\ sn'.context = sn.context /\ sn'.kept = k /\ sn'.code = r.code /\ sn'.trace = DrainTrace(r)
    BY <1>8, <1>9, <2>1 DEF Masters, Phases
  <2>3. CallInv'
    BY <1>3, <1>11, <2>2 DEF CallInv
  <2>4. WaitInv' /\ DoneInv' /\ Evidence(sn'.kept)
    BY <1>6, <1>7, <1>12, <2>2 DEF WaitInv, DoneInv
  <2>5. RecordInv'
    BY <1>1, <1>3, <2>2, RecordStays
  <2> QED BY <1>2, <1>3, <1>9, <2>2, <2>3, <2>4, <2>5 DEF SpiIInv, SpiTypeOK
<1>13. CASE r.code = "OK" /\ r.left = None
  <2>1. sn' = [m EXCEPT !.phase = "prepare", !.attempts = 0]
    BY <1>10, <1>13
  <2>2. /\ sn' \in Masters /\ sn'.phase = "prepare" /\ sn'.cmd = sn.cmd /\ sn'.txid = sn.txid
        /\ sn'.context = sn.context /\ sn'.kept = k
    BY <1>8, <2>1 DEF Masters, Phases
  <2>3. CallInv'
    BY <1>3, <1>4, <1>11, <1>13, <2>2 DEF CallInv
  <2>4. WaitInv' /\ DoneInv' /\ Evidence(sn'.kept)
    BY <1>6, <2>2 DEF WaitInv, DoneInv
  <2>5. RecordInv'
    BY <1>1, <1>3, <2>2, RecordStays
  <2> QED BY <1>2, <1>3, <1>9, <2>2, <2>3, <2>4, <2>5 DEF SpiIInv, SpiTypeOK
<1>14. CASE r.code = "OK" /\ r.left # None /\ sn.attempts < 2
  <2>1. sn' = [m EXCEPT !.attempts = @ + 1]
    BY <1>10, <1>14
  <2>2. /\ sn' \in Masters /\ sn'.phase = "drain" /\ sn'.cmd = sn.cmd /\ sn'.txid = sn.txid
        /\ sn'.context = sn.context /\ sn'.kept = k
    BY <1>8, <2>1 DEF Masters, Phases
  <2>3. CallInv'
    BY <1>3, <1>11, <2>2 DEF CallInv
  <2>4. WaitInv' /\ DoneInv' /\ Evidence(sn'.kept)
    BY <1>6, <2>2 DEF WaitInv, DoneInv
  <2>5. RecordInv'
    BY <1>1, <1>3, <2>2, RecordStays
  <2> QED BY <1>2, <1>3, <1>9, <2>2, <2>3, <2>4, <2>5 DEF SpiIInv, SpiTypeOK
<1>15. CASE r.code = "OK" /\ r.left # None /\ ~(sn.attempts < 2)
  <2>1. sn' = Fail(m, "RESULT_PENDING")
    BY <1>10, <1>15
  <2>2. "RESULT_PENDING" \in Codes /\ m.trace \in Traces /\ Evidence(m.kept)
    BY <1>6, <1>7, <1>8 DEF Codes
  <2>3. FailedAs(m, sn', "RESULT_PENDING")
    BY <1>8, <2>1, <2>2, FailSound
  <2>4. /\ sn' \in Masters /\ sn'.phase = "done" /\ sn'.cmd = sn.cmd /\ sn'.txid = sn.txid
        /\ sn'.context = sn.context
    BY <1>8, <2>3 DEF FailedAs
  <2>5. CallInv'
    BY <1>3, <1>11, <2>4 DEF CallInv
  <2>6. WaitInv' /\ DoneInv' /\ Evidence(sn'.kept)
    BY <2>2, <2>3, FailEnds
  <2>7. RecordInv'
    BY <1>1, <1>3, <2>4, RecordStays
  <2> QED BY <1>2, <1>3, <1>9, <2>4, <2>5, <2>6, <2>7 DEF SpiIInv, SpiTypeOK
<1> QED BY <1>12, <1>13, <1>14, <1>15

(* spi_drain_startup_mailbox with nothing to drain. *)
LEMMA DrainEmptyStep == SpiIInv /\ DrainEmpty => SpiIInv'
<1> SUFFICES ASSUME SpiIInv, DrainEmpty PROVE SpiIInv'
  OBVIOUS
<1>1. SpiTypeOK /\ CallInv /\ WaitInv /\ DoneInv /\ RecordInv /\ Evidence(sn.kept)
  BY DEF SpiIInv
<1>2. sn \in Masters /\ hist \in Histories
  BY <1>1 DEF SpiTypeOK
<1>3. sn.phase = "drain" /\ box = None /\ UNCHANGED <<box, core, hist, noise>>
  BY DEF DrainEmpty, Irq
<1>4. hist.runs = 0 /\ (sn.cmd = "DRAIN" => sn.context = "STARTUP") /\ hist.call <= hist.ids + 1
  BY <1>1, <1>3 DEF CallInv
<1>5. CASE sn' = [sn EXCEPT !.phase = "prepare"]
  <2>1. /\ sn' \in Masters /\ sn'.phase = "prepare" /\ sn'.cmd = sn.cmd /\ sn'.txid = sn.txid
        /\ sn'.context = sn.context /\ sn'.kept = sn.kept
    BY <1>2, <1>5 DEF Masters, Phases
  <2>2. CallInv' /\ WaitInv' /\ DoneInv'
    BY <1>3, <1>4, <2>1 DEF CallInv, WaitInv, DoneInv
  <2>3. RecordInv'
    BY <1>1, <1>3, <2>1, RecordStays
  <2> QED BY <1>1, <1>3, <2>1, <2>2, <2>3 DEF SpiIInv, SpiTypeOK
<1>6. CASE sn' = Fail([sn EXCEPT !.trace = SpiTraceBegin(sn.context, None)],
                      IF sn.fault THEN "FAULT_LOCKED" ELSE "BAD_CRC")
  <2> DEFINE t == SpiTraceBegin(sn.context, None)
             s == [sn EXCEPT !.trace = t]
             code == IF sn.fault THEN "FAULT_LOCKED" ELSE "BAD_CRC"
  <2>1. code \in Codes /\ code # "OK"
    BY DEF Codes
  <2>2. t \in Traces
    BY <1>2, TraceBegun DEF Masters
  <2> HIDE DEF t, code
  <2>3. /\ s \in Masters /\ s.trace = t /\ s.kept = sn.kept /\ s.cmd = sn.cmd
        /\ s.txid = sn.txid /\ s.context = sn.context
    BY <1>2, <2>2 DEF Masters
  <2>4. sn' = Fail(s, code)
    BY <1>6 DEF t, code
  <2> HIDE DEF s
  <2>5. FailedAs(s, sn', code)
    BY <1>1, <2>1, <2>2, <2>3, <2>4, FailSound
  <2>6. /\ sn' \in Masters /\ sn'.phase = "done" /\ sn'.cmd = sn.cmd /\ sn'.txid = sn.txid
        /\ sn'.context = sn.context
    BY <2>3, <2>5 DEF FailedAs
  <2>7. CallInv'
    BY <1>3, <1>4, <2>6 DEF CallInv
  <2>8. WaitInv' /\ DoneInv' /\ Evidence(sn'.kept)
    BY <2>1, <2>5, FailEnds
  <2>9. RecordInv'
    BY <1>1, <1>3, <2>6, RecordStays
  <2> QED BY <1>1, <1>3, <2>6, <2>7, <2>8, <2>9 DEF SpiIInv, SpiTypeOK
<1> QED BY <1>5, <1>6 DEF DrainEmpty

(* After an error the exchange sends its read again or fails. *)
LEMMA RetryStep ==
  ASSUME SpiIInv, sn.phase = "wait", UNCHANGED <<core, hist>>,
         box' \in Responses \cup {None}, noise' \in Nat,
         NEW m \in Masters, m.trace \in Traces, Evidence(m.kept),
         m.cmd = sn.cmd, m.txid = sn.txid, m.context = sn.context,
         NEW code \in Codes, code # "OK", sn' = RetryReadRequest(m, code)
  PROVE  SpiIInv'
<1>1. SpiTypeOK /\ CallInv /\ RecordInv
  BY DEF SpiIInv
<1>2. \/ FailedAs(m, sn', code)
      \/ RetriedAs(m, sn')
  BY RetrySound
<1>3. sn' \in Masters /\ sn'.cmd = sn.cmd /\ sn'.txid = sn.txid /\ sn'.context = sn.context
  BY <1>2 DEF FailedAs, RetriedAs
<1>4. RecordInv'
  BY <1>1, <1>3, RecordStays
<1>5. CASE FailedAs(m, sn', code)
  <2>1. sn'.phase = "done"
    BY <1>5 DEF FailedAs
  <2>2. CallInv'
    BY <1>1, <1>3, <2>1 DEF CallInv
  <2>3. WaitInv' /\ DoneInv' /\ Evidence(sn'.kept)
    BY <1>5, FailEnds
  <2> QED BY <1>1, <1>3, <1>4, <2>2, <2>3 DEF SpiIInv, SpiTypeOK
<1>6. CASE RetriedAs(m, sn')
  <2>1. /\ sn'.phase = "prepare" /\ sn'.drains = 0 /\ sn.cmd \in Reads /\ sn'.kept = m.kept
    BY <1>6 DEF RetriedAs
  <2>2. hist.runs = 0
    BY <1>1, <2>1 DEF CallInv, Reads, SideEffects
  <2>3. CallInv' /\ WaitInv' /\ DoneInv'
    BY <1>1, <1>3, <2>1, <2>2 DEF CallInv, WaitInv, DoneInv
  <2> QED BY <1>1, <1>3, <1>4, <2>1, <2>3 DEF SpiIInv, SpiTypeOK
<1> QED BY <1>2, <1>5, <1>6

(* No response in time. *)
LEMMA TimeoutStep == SpiIInv /\ ResponseTimeout => SpiIInv'
<1> SUFFICES ASSUME SpiIInv, ResponseTimeout PROVE SpiIInv'
  OBVIOUS
<1>1. SpiTypeOK /\ WaitInv /\ Evidence(sn.kept)
  BY DEF SpiIInv
<1>2. sn.phase = "wait" /\ UNCHANGED <<box, core, hist, noise>> /\ sn' = RetryReadRequest(sn, "FRAME_TIMEOUT")
  BY DEF ResponseTimeout
<1>3. sn \in Masters /\ sn.trace \in Traces /\ box' \in Responses \cup {None} /\ noise' \in Nat
  BY <1>1, <1>2 DEF SpiTypeOK, WaitInv
<1>4. "FRAME_TIMEOUT" \in Codes
  BY DEF Codes
<1> QED BY <1>1, <1>2, <1>3, <1>4, RetryStep

(* The response is read. *)
LEMMA ReceiveStep == SpiIInv /\ ReceiveResponse => SpiIInv'
<1> SUFFICES ASSUME SpiIInv, ReceiveResponse PROVE SpiIInv'
  OBVIOUS
<1>1. SpiTypeOK /\ CallInv /\ WaitInv /\ RecordInv /\ Evidence(sn.kept)
  BY DEF SpiIInv
<1>2. sn.phase = "wait" /\ UNCHANGED <<core, hist>> /\ box # None
  BY DEF ReceiveResponse, Irq
<1>3. sn \in Masters /\ box \in Responses /\ noise \in Nat
  BY <1>1, <1>2 DEF SpiTypeOK
<1>4. /\ sn.trace \in Traces /\ sn.trace.request \in Requests /\ sn.trace.request.cmd = sn.cmd
      /\ hist.call <= hist.ids /\ box.n = hist.ids
      /\ box.code = "OK" /\ sn.cmd \in SideEffects /\ hist.runs = 0 => Explained
  BY <1>1, <1>2 DEF WaitInv
<1> DEFINE s(r) == [sn EXCEPT !.trace = Captured(@, r)]
           verdict(r) == IF r.code # "OK" THEN r.code ELSE Verdict(sn.trace.request, r.frame)
<1>5. PICK r \in SpiCaptureResponse(box) :
        /\ noise' = noise + r.cost /\ box' = r.left
        /\ sn' = IF verdict(r) = "OK" THEN Return(s(r), "OK")
                 ELSE RetryReadRequest(SpiRecordResidue([s(r) EXCEPT !.trace.code = verdict(r)]), verdict(r))
  BY DEF ReceiveResponse
<1>6. ReadSound(box, r)
  BY ReadSoundness
<1>7. box' \in Responses \cup {None} /\ noise' \in Nat
  BY <1>3, <1>5, <1>6 DEF ReadSound, ReadResults
<1> DEFINE t == Captured(sn.trace, r)
           code == verdict(r)
<1>8. /\ t \in Traces /\ t.request = sn.trace.request /\ t.code = r.code /\ t.response = r.frame
      /\ t.irqAfterResponse = (r.left # None)
  BY <1>3, <1>4, <1>6, TraceCaptured
<1>9. code \in Codes /\ (code = "OK" => r.code = "OK" /\ r.frame = box /\ box.cmd = sn.cmd /\ box.code = "OK")
  BY <1>3, <1>4, <1>6, VerdictSound DEF ReadSound, ReadResults, Codes
<1>10. s(r) = [sn EXCEPT !.trace = t]
  BY <1>3 DEF Masters
<1>11. sn' = IF code = "OK" THEN Return([sn EXCEPT !.trace = t], "OK")
             ELSE RetryReadRequest(SpiRecordResidue([[sn EXCEPT !.trace = t] EXCEPT !.trace.code = code]), code)
  BY <1>5, <1>10
<1> HIDE DEF t, code
<1>12. CASE code = "OK"
  <2>1. sn' = [[sn EXCEPT !.trace = t] EXCEPT !.phase = "done", !.code = "OK"]
    BY <1>11, <1>12 DEF Return
  <2>2. /\ sn' \in Masters /\ sn'.phase = "done" /\ sn'.code = "OK" /\ sn'.trace = t
        /\ sn'.cmd = sn.cmd /\ sn'.txid = sn.txid /\ sn'.context = sn.context /\ sn'.kept = sn.kept
    BY <1>3, <1>8, <2>1 DEF Masters, Phases, Codes
  <2>3. CallInv'
    BY <1>1, <1>2, <2>2 DEF CallInv
  <2>4. sn'.trace.response.cmd = sn.cmd /\ sn'.trace.response.n = hist.ids
    BY <1>4, <1>8, <1>9, <1>12, <2>2
  <2>5. sn.cmd \in SideEffects /\ hist.runs = 0 => Explained'
    BY <1>2, <1>4, <1>9, <1>12, <2>2 DEF Explained
  <2>6. ~sn'.trace.irqAfterResponse => box' = None
    BY <1>5, <1>8, <2>2
  <2>7. DoneInv' /\ WaitInv'
    BY <1>2, <1>4, <2>2, <2>4, <2>5, <2>6 DEF DoneInv, WaitInv
  <2>8. RecordInv'
    BY <1>1, <1>2, <2>2, RecordStays
  <2> QED BY <1>1, <1>2, <1>7, <2>2, <2>3, <2>7, <2>8 DEF SpiIInv, SpiTypeOK
<1>13. CASE code # "OK"
  <2> DEFINE t2 == [t EXCEPT !.code = code]
             u == [sn EXCEPT !.trace = t2]
  <2>1. t2 \in Traces
    BY <1>8, <1>9 DEF Traces
  <2> HIDE DEF t2
  <2>2. /\ u \in Masters /\ u.trace = t2 /\ u.kept = sn.kept /\ u.cmd = sn.cmd
        /\ u.txid = sn.txid /\ u.context = sn.context
    BY <1>3, <2>1 DEF Masters
  <2>3. [[sn EXCEPT !.trace = t] EXCEPT !.trace.code = code] = u
    BY <1>3 DEF Masters, t2
  <2> HIDE DEF u
  <2>4. PICK k \in KeptTraces \cup {None} : Evidence(k) /\ SpiRecordResidue(u) = [u EXCEPT !.kept = k]
    BY <1>1, <2>1, <2>2, ResidueSound
  <2> DEFINE m == [u EXCEPT !.kept = k]
  <2>5. /\ m \in Masters /\ m.trace = t2 /\ m.kept = k /\ m.cmd = sn.cmd
        /\ m.txid = sn.txid /\ m.context = sn.context
    BY <2>2, <2>4 DEF Masters
  <2>6. sn' = RetryReadRequest(m, code)
    BY <1>11, <1>13, <2>3, <2>4
  <2> HIDE DEF m
  <2>7. m.trace \in Traces /\ Evidence(m.kept)
    BY <2>1, <2>4, <2>5
  <2> QED BY <1>2, <1>7, <1>9, <1>13, <2>5, <2>6, <2>7, RetryStep
<1> QED BY <1>12, <1>13

(* The history of a new call. *)
LEMMA NewCallSound ==
  ASSUME hist \in Histories
  PROVE  /\ NewCall \in Histories /\ NewCall.runs = 0 /\ NewCall.call = NewCall.ids + 1
         /\ NewCall.ids = hist.ids /\ NewCall.boot = hist.boot
<1> DEFINE n == hist.ids + 1
<1>1. n \in Nat /\ 0 \in 0..1 /\ None \in Records \cup {None}
  BY DEF Histories
<1>2. NewCall = [hist EXCEPT !.runs = 0, !.call = n, !.met = None]
  BY DEF NewCall
<1> HIDE DEF n
<1>3. /\ NewCall \in Histories /\ NewCall.runs = 0 /\ NewCall.call = n
      /\ NewCall.ids = hist.ids /\ NewCall.boot = hist.boot
  BY <1>1, <1>2 DEF Histories
<1> QED BY <1>3 DEF n

(* A call begins: nothing was executed for it yet. *)
LEMMA BeginStep ==
  ASSUME SpiTypeOK, RecordInv, NEW s \in Masters, Evidence(s.kept), s.txid = sn.txid,
         NEW cmd \in Commands \cup {"DRAIN"}, NEW context \in Contexts,
         cmd = "DRAIN" => context = "STARTUP",
         sn' = Begin(s, cmd, context), hist' = NewCall, UNCHANGED <<box, core, noise>>
  PROVE  SpiIInv'
<1>1. /\ sn' \in Masters /\ sn'.phase = "prepare" /\ sn'.drains = 0 /\ sn'.cmd = cmd
      /\ sn'.context = context /\ sn'.txid = sn.txid /\ sn'.kept = s.kept
  BY DEF Begin, Masters, Phases
<1>2. hist \in Histories
  BY DEF SpiTypeOK
<1>3. /\ hist' \in Histories /\ hist'.runs = 0 /\ hist'.call = hist'.ids + 1
      /\ hist'.ids = hist.ids /\ hist'.boot = hist.boot
  BY <1>2, NewCallSound
<1>4. CallInv'
  BY <1>1, <1>3 DEF CallInv, Histories
<1>5. WaitInv' /\ DoneInv'
  BY <1>1 DEF WaitInv, DoneInv
<1>6. RecordInv'
  BY <1>1, <1>3, RecordStays
<1> QED BY <1>1, <1>3, <1>4, <1>5, <1>6 DEF SpiIInv, SpiTypeOK

(* The probe of the main loop, the diagnostic or the controller calls. *)
LEMMA CallStep == SpiIInv /\ Call => SpiIInv'
<1> SUFFICES ASSUME SpiIInv, Call PROVE SpiIInv'
  OBVIOUS
<1>1. PICK context \in {"PERIODIC_PROBE", "HOST_DIAGNOSTIC", "NONE"}, cmd \in Commands :
        sn' = Begin(sn, cmd, context)
  BY DEF Call
<1>2. context \in Contexts /\ cmd \in Commands \cup {"DRAIN"} /\ cmd # "DRAIN"
  BY DEF Contexts, ResidueContexts, Commands, Reads, SideEffects
<1>3. SpiTypeOK /\ RecordInv /\ Evidence(sn.kept) /\ sn \in Masters
  BY DEF SpiIInv, SpiTypeOK
<1> QED BY <1>1, <1>2, <1>3, BeginStep DEF Call

(* The start-up probe goes on. *)
LEMMA StartupProbeStep == SpiIInv /\ StartupStep => SpiIInv'
<1> SUFFICES ASSUME SpiIInv, StartupStep PROVE SpiIInv'
  OBVIOUS
<1>1. SpiTypeOK /\ CallInv /\ DoneInv /\ RecordInv /\ Evidence(sn.kept)
  BY DEF SpiIInv
<1>2. sn \in Masters /\ sn.plan \in Plans /\ sn.phase = "done" /\ sn.plan # <<>>
  BY <1>1 DEF SpiTypeOK, Masters, StartupStep
<1>3. /\ UNCHANGED <<box, core, noise>>
      /\ hist' = IF sn'.plan = <<>> THEN hist ELSE NewCall
  BY DEF StartupStep
<1>4. "STARTUP" \in Contexts
  BY DEF Contexts, ResidueContexts
<1>5. <<>> \in Plans /\ StartupProbe \in Plans /\ StartupProbe # <<>>
  BY DEF Plans, StartupProbe
(* The probe ends, with or without clearing the evidence of a failed round. *)
<1>6. ASSUME NEW k \in KeptTraces \cup {None}, Evidence(k), sn' = [sn EXCEPT !.plan = <<>>, !.kept = k],
             sn.code = "OK" \/ k = sn.kept
      PROVE  SpiIInv'
  <2>1. /\ sn' \in Masters /\ sn'.phase = sn.phase /\ sn'.cmd = sn.cmd /\ sn'.txid = sn.txid
        /\ sn'.context = sn.context /\ sn'.kept = k /\ sn'.code = sn.code /\ sn'.trace = sn.trace
        /\ sn'.plan = <<>> /\ sn'.drains = sn.drains
    BY <1>2, <1>5, <1>6 DEF Masters
  <2>2. hist' = hist
    BY <1>3, <2>1
  <2>3. CallInv'
    BY <1>1, <1>3, <2>1, <2>2 DEF CallInv
  <2>4. Explained' <=> Explained
    BY <2>1, <2>2 DEF Explained
  <2>5. WaitInv' /\ DoneInv'
    BY <1>1, <1>2, <1>3, <1>6, <2>1, <2>2, <2>4 DEF WaitInv, DoneInv
  <2>6. RecordInv'
    BY <1>1, <1>3, <2>1, <2>2, RecordStays
  <2> QED BY <1>1, <1>3, <1>6, <2>1, <2>2, <2>3, <2>5, <2>6 DEF SpiIInv, SpiTypeOK
<1>7. CASE sn.code = "OK" /\ Len(sn.plan) > 1 /\ sn' = Begin([sn EXCEPT !.plan = Tail(@)], sn.plan[2], "STARTUP")
  <2> DEFINE s == [sn EXCEPT !.plan = Tail(sn.plan)]
  <2>1. Tail(sn.plan) \in Plans /\ Tail(sn.plan) # <<>> /\ sn.plan[2] \in Commands
    <3>1. CASE sn.plan = <<"DRAIN", "GET_INFO", "GET_STATUS">>
      <4>1. Tail(sn.plan) = <<"GET_INFO", "GET_STATUS">> /\ sn.plan[2] = "GET_INFO"
        BY <3>1
      <4> QED BY <4>1 DEF Plans, Commands, Reads
    <3>2. CASE sn.plan = <<"GET_INFO", "GET_STATUS">>
      <4>1. Tail(sn.plan) = <<"GET_STATUS">> /\ sn.plan[2] = "GET_STATUS"
        BY <3>2
      <4> QED BY <4>1 DEF Plans, Commands, Reads
    <3>3. sn.plan # <<"GET_STATUS">>
      BY <1>7
    <3> QED BY <1>2, <3>1, <3>2, <3>3 DEF Plans, StartupProbe
  <2>2. s \in Masters /\ s.kept = sn.kept /\ s.txid = sn.txid /\ s.plan = Tail(sn.plan)
    BY <1>2, <2>1 DEF Masters
  <2>3. sn' = Begin(s, sn.plan[2], "STARTUP")
    BY <1>2, <1>7 DEF Masters
  <2> HIDE DEF s
  <2>4. sn'.plan = Tail(sn.plan)
    BY <2>2, <2>3 DEF Begin, Masters
  <2>5. hist' = NewCall
    BY <1>3, <2>1, <2>4
  <2> QED BY <1>1, <1>3, <1>4, <2>1, <2>2, <2>3, <2>5, BeginStep
<1>8. CASE sn.code = "OK" /\ sn' = ClearRecovered([sn EXCEPT !.plan = <<>>])
  <2> DEFINE s == [sn EXCEPT !.plan = <<>>]
  <2>1. s \in Masters /\ s.kept = sn.kept
    BY <1>2, <1>5 DEF Masters
  <2>2. sn' = [s EXCEPT !.kept = None] \/ sn' = s
    BY <1>8 DEF ClearRecovered
  <2>3. sn' = [sn EXCEPT !.plan = <<>>, !.kept = None] \/ sn' = [sn EXCEPT !.plan = <<>>, !.kept = sn.kept]
    BY <1>2, <2>2 DEF Masters
  <2>4. Evidence(None) /\ sn.kept \in KeptTraces \cup {None}
    BY <1>2 DEF Evidence, Masters
  <2> QED BY <1>1, <1>6, <1>8, <2>3, <2>4
<1>9. CASE sn' = Begin([sn EXCEPT !.plan = StartupProbe, !.failed = TRUE], "DRAIN", "STARTUP")
  <2> DEFINE s == [sn EXCEPT !.plan = StartupProbe, !.failed = TRUE]
  <2>1. s \in Masters /\ s.kept = sn.kept /\ s.txid = sn.txid /\ s.plan = StartupProbe
    BY <1>2, <1>5 DEF Masters
  <2>2. sn' = Begin(s, "DRAIN", "STARTUP")
    BY <1>9
  <2> HIDE DEF s
  <2>3. sn'.plan = StartupProbe
    BY <2>1, <2>2 DEF Begin, Masters
  <2>4. hist' = NewCall
    BY <1>3, <1>5, <2>3
  <2> QED BY <1>1, <1>3, <1>4, <2>1, <2>2, <2>4, BeginStep
<1>10. CASE sn' = [sn EXCEPT !.plan = <<>>]
  <2>1. sn' = [sn EXCEPT !.plan = <<>>, !.kept = sn.kept] /\ sn.kept \in KeptTraces \cup {None}
    BY <1>2, <1>10 DEF Masters
  <2> QED BY <1>1, <1>6, <2>1
<1> QED BY <1>7, <1>8, <1>9, <1>10 DEF StartupStep

(* The engine of the Primer ends. *)
LEMMA EngineStep == SpiIInv /\ EngineDone => SpiIInv'
<1> SUFFICES ASSUME SpiIInv, EngineDone PROVE SpiIInv'
  OBVIOUS
<1>1. SpiTypeOK /\ CallInv /\ WaitInv /\ DoneInv /\ RecordInv /\ Evidence(sn.kept)
  BY DEF SpiIInv
<1>2. UNCHANGED <<sn, box, hist, noise>> /\ core' = [core EXCEPT !.busy = FALSE]
  BY DEF EngineDone
<1>3. core' \in Cores /\ core'.ret = core.ret
  BY <1>1, <1>2 DEF SpiTypeOK, Cores
<1>4. CallInv' /\ WaitInv' /\ DoneInv'
  BY <1>1, <1>2 DEF CallInv, WaitInv, DoneInv, Explained
<1>5. RecordInv'
  BY <1>1, <1>2, <1>3, RecordStays
<1> QED BY <1>1, <1>2, <1>3, <1>4, <1>5 DEF SpiIInv, SpiTypeOK

(* A fault closes the bus. *)
LEMMA FaultStep == SpiIInv /\ RaiseFault => SpiIInv'
<1> SUFFICES ASSUME SpiIInv, RaiseFault PROVE SpiIInv'
  OBVIOUS
<1>1. SpiTypeOK /\ CallInv /\ WaitInv /\ DoneInv /\ RecordInv /\ Evidence(sn.kept)
  BY DEF SpiIInv
<1>2. UNCHANGED <<box, core, hist>> /\ sn' = [sn EXCEPT !.fault = TRUE] /\ noise' = noise + 1
  BY DEF RaiseFault
<1>3. /\ sn' \in Masters /\ sn'.phase = sn.phase /\ sn'.cmd = sn.cmd /\ sn'.txid = sn.txid
      /\ sn'.context = sn.context /\ sn'.kept = sn.kept /\ sn'.code = sn.code /\ sn'.trace = sn.trace
      /\ sn'.drains = sn.drains
  BY <1>1, <1>2 DEF SpiTypeOK, Masters
<1>4. CallInv'
  BY <1>1, <1>2, <1>3 DEF CallInv
<1>5. Explained' <=> Explained
  BY <1>2, <1>3 DEF Explained
<1>6. WaitInv' /\ DoneInv'
  BY <1>1, <1>2, <1>3, <1>5 DEF WaitInv, DoneInv
<1>7. RecordInv'
  BY <1>1, <1>2, <1>3, RecordStays
<1>8. noise' \in Nat
  BY <1>1, <1>2 DEF SpiTypeOK
<1> QED BY <1>1, <1>2, <1>3, <1>4, <1>6, <1>7, <1>8 DEF SpiIInv, SpiTypeOK

(* The Primer starts again: mailbox and record are gone. *)
LEMMA ResetPrimerStep == SpiIInv /\ ResetPrimer => SpiIInv'
<1> SUFFICES ASSUME SpiIInv, ResetPrimer PROVE SpiIInv'
  OBVIOUS
<1>1. SpiTypeOK /\ CallInv /\ WaitInv /\ DoneInv /\ RecordInv /\ Evidence(sn.kept)
  BY DEF SpiIInv
<1>2. UNCHANGED <<sn, hist>> /\ box' = None /\ core' = [busy |-> FALSE, ret |-> None] /\ noise' = noise + 1
  BY DEF ResetPrimer
<1>3. core' \in Cores /\ core'.ret = None /\ noise' \in Nat
  BY <1>1, <1>2 DEF SpiTypeOK, Cores
<1>4. CallInv' /\ WaitInv' /\ DoneInv'
  BY <1>1, <1>2 DEF CallInv, WaitInv, DoneInv, Explained
<1>5. RecordInv'
  BY <1>3 DEF RecordInv
<1> QED BY <1>1, <1>2, <1>3, <1>4, <1>5 DEF SpiIInv, SpiTypeOK

(* The state of the SN32 after a reset. *)
LEMMA BootSound == Boot \in Masters /\ Boot.phase = "prepare" /\ Boot.drains = 0 /\ Boot.kept = None /\ Boot.cmd = "DRAIN" /\ Boot.context = "STARTUP"
<1>1. 1 \in 1..MaxTxid /\ StartupProbe \in Plans /\ FALSE \in BOOLEAN /\ "STARTUP" \in Contexts
  BY SpiAssumption DEF SpiAssumption, Plans, Contexts, ResidueContexts
<1> QED BY <1>1 DEF Boot, Masters, Phases

(* The SN32 starts again, perhaps within a request. *)
LEMMA ResetSn32Step == SpiIInv /\ ResetSn32 => SpiIInv'
<1> SUFFICES ASSUME SpiIInv, ResetSn32 PROVE SpiIInv'
  OBVIOUS
<1>1. SpiTypeOK /\ CallInv /\ RecordInv
  BY DEF SpiIInv
<1>2. sn \in Masters /\ hist \in Histories /\ core \in Cores /\ noise' \in Nat /\ core' = core
  BY <1>1 DEF SpiTypeOK, ResetSn32
<1>3. /\ sn' \in Masters /\ sn'.phase = "prepare" /\ sn'.drains = 0 /\ sn'.kept = None
      /\ sn'.cmd = "DRAIN" /\ sn'.context = "STARTUP"
  BY BootSound DEF ResetSn32
<1>4. /\ hist' \in Histories /\ hist'.runs = 0 /\ hist'.call = hist'.ids + 1
      /\ hist'.ids = hist.ids /\ hist'.boot = hist.boot + 1
  <2>1. hist' = [NewCall EXCEPT !.boot = @ + 1]
    BY DEF ResetSn32
  <2>2. /\ NewCall \in Histories /\ NewCall.runs = 0 /\ NewCall.call = NewCall.ids + 1
        /\ NewCall.ids = hist.ids /\ NewCall.boot = hist.boot
    BY <1>2, NewCallSound
  <2> QED BY <2>1, <2>2 DEF Histories
<1>5. box' \in Responses \cup {None}
  <2>1. CASE box' = box
    BY <1>1, <2>1 DEF SpiTypeOK
  <2>2. CASE sn.phase = "send" /\ box' = ShortCs(Request(sn.cmd, sn.txid, hist.ids))
    BY <1>2, <2>2, SpiAssumption DEF SpiAssumption, ShortCs, Request, Response, Responses, Codes, Histories
  <2> QED BY <2>1, <2>2 DEF ResetSn32
<1>6. CallInv'
  BY <1>3, <1>4 DEF CallInv, Histories
<1>7. WaitInv' /\ DoneInv' /\ Evidence(sn'.kept)
  BY <1>3 DEF WaitInv, DoneInv, Evidence
<1>8. RecordInv'
  <2> SUFFICES ASSUME core.ret # None
               PROVE  core.ret.n <= hist.ids /\ core.ret.boot <= hist.boot + 1 /\ core.ret.boot # hist.boot + 1
    BY <1>2, <1>4 DEF RecordInv
  <2>1. core.ret.boot \in Nat /\ hist.boot \in Nat
    BY <1>2 DEF Cores, Records, Histories
  <2> QED BY <1>1, <2>1 DEF RecordInv
<1> QED BY <1>2, <1>3, <1>4, <1>5, <1>6, <1>7, <1>8 DEF SpiIInv, SpiTypeOK

(* An identifier is issued: those issued in this boot run on from the       *)
(* retained one.                                                            *)
LEMMA RecordAdvances ==
  ASSUME NEW id \in 1..MaxTxid, NEW x \in 1..MaxTxid, NEW d \in Nat, d + 1 < MaxTxid,
         id = x + d \/ id + MaxTxid = x + d
  PROVE  NextSpiTxid(id) = x + (d + 1) \/ NextSpiTxid(id) + MaxTxid = x + (d + 1)
BY SpiAssumption DEF SpiAssumption, NextSpiTxid

(* A request that names the retained record, with fewer than MaxTxid        *)
(* identifiers issued since, comes from another boot.                       *)
LEMMA RetainedExplained ==
  ASSUME SpiTypeOK, RecordInv, core.ret # None, core.ret.txid = sn.txid
  PROVE  core.ret.boot < hist.boot \/ (hist.ids + 1) - core.ret.n >= MaxTxid
<1>1. /\ core.ret.txid \in 1..MaxTxid /\ core.ret.n \in Nat /\ core.ret.boot \in Nat
      /\ hist.ids \in Nat /\ hist.boot \in Nat /\ sn.txid \in 1..MaxTxid
  BY DEF SpiTypeOK, Cores, Records, Histories, Masters
<1>2. core.ret.n <= hist.ids /\ core.ret.boot <= hist.boot
  BY DEF RecordInv
<1>3. core.ret.boot = hist.boot /\ hist.ids + 1 - core.ret.n < MaxTxid =>
        \/ sn.txid = core.ret.txid + (hist.ids + 1 - core.ret.n)
        \/ sn.txid + MaxTxid = core.ret.txid + (hist.ids + 1 - core.ret.n)
  BY DEF RecordInv
<1> QED BY <1>1, <1>2, <1>3, SpiAssumption DEF SpiAssumption

(* An identifier is issued and the record stays, or goes. *)
LEMMA RecordIssued ==
  ASSUME SpiTypeOK, RecordInv, core'.ret \in {core.ret, None},
         sn'.txid = NextSpiTxid(sn.txid), hist'.ids = hist.ids + 1, hist'.boot = hist.boot
  PROVE  RecordInv'
<1> SUFFICES ASSUME core'.ret # None PROVE RecordInv'
  BY DEF RecordInv
<1> DEFINE d == hist.ids + 1 - core.ret.n
<1>1. core'.ret = core.ret /\ core.ret # None
  OBVIOUS
<1>2. /\ core.ret.txid \in 1..MaxTxid /\ core.ret.n \in Nat /\ core.ret.boot \in Nat
      /\ hist.ids \in Nat /\ hist.boot \in Nat /\ sn.txid \in 1..MaxTxid
  BY <1>1 DEF SpiTypeOK, Cores, Records, Histories, Masters
<1>3. core.ret.n <= hist.ids /\ core.ret.boot <= hist.boot
  BY <1>1 DEF RecordInv
<1>4. d \in Nat /\ hist'.ids + 1 - core'.ret.n = d + 1
  BY <1>1, <1>2, <1>3
<1>5. core.ret.boot = hist.boot /\ d < MaxTxid =>
        sn.txid = core.ret.txid + d \/ sn.txid + MaxTxid = core.ret.txid + d
  BY <1>1 DEF RecordInv
<1> HIDE DEF d
<1>6. MaxTxid \in Nat
  BY SpiAssumption DEF SpiAssumption
<1>7. core.ret.boot = hist.boot /\ d + 1 < MaxTxid =>
        sn'.txid = core.ret.txid + (d + 1) \/ sn'.txid + MaxTxid = core.ret.txid + (d + 1)
  <2> SUFFICES ASSUME core.ret.boot = hist.boot, d + 1 < MaxTxid
               PROVE  \/ sn'.txid = core.ret.txid + (d + 1)
                      \/ sn'.txid + MaxTxid = core.ret.txid + (d + 1)
    OBVIOUS
  <2>1. d < MaxTxid
    BY <1>4, <1>6
  <2>2. sn.txid = core.ret.txid + d \/ sn.txid + MaxTxid = core.ret.txid + d
    BY <1>5, <2>1
  <2>3. d \in Nat
    BY <1>4
  <2>4. \/ NextSpiTxid(sn.txid) = core.ret.txid + (d + 1)
        \/ NextSpiTxid(sn.txid) + MaxTxid = core.ret.txid + (d + 1)
    BY <1>2, <2>2, <2>3, RecordAdvances
  <2> QED BY <2>4
<1>8. core'.ret.n <= hist'.ids /\ core'.ret.boot <= hist'.boot
  BY <1>1, <1>2, <1>3
<1> QED BY <1>1, <1>4, <1>7, <1>8 DEF RecordInv

(* What a request does to the command core. *)
LEMMA AnswerSound ==
  ASSUME SpiTypeOK, NEW q \in Requests
  PROVE  /\ Response(q, Code(q)) \in Responses /\ Response(q, Code(q)).n = q.n
         /\ Response(q, Code(q)).code = Code(q)
         /\ CoreAfter(q) \in Cores
         /\ ~Executes(q) => CoreAfter(q).ret \in {core.ret, None}
         /\ Executes(q) => /\ q.cmd \in SideEffects
                           /\ CoreAfter(q).ret = [cmd |-> q.cmd, txid |-> q.txid, n |-> q.n, boot |-> hist.boot]
         /\ Code(q) = "OK" /\ q.cmd \in SideEffects /\ ~Executes(q) =>
              core.ret # None /\ core.ret.txid = q.txid /\ core.ret.cmd = q.cmd
<1>1. Code(q) \in Codes
  BY DEF Code, Codes
<1>2. Response(q, Code(q)) \in Responses /\ Response(q, Code(q)).n = q.n /\ Response(q, Code(q)).code = Code(q)
  BY <1>1, SpiAssumption DEF SpiAssumption, Response, Responses, Requests
<1>3. core \in Cores /\ hist.boot \in Nat
  BY DEF SpiTypeOK, Histories
<1>4. CASE Executes(q)
  <2> DEFINE w == [cmd |-> q.cmd, txid |-> q.txid, n |-> q.n, boot |-> hist.boot]
  <2>1. q.cmd \in SideEffects
    BY <1>4 DEF Executes
  <2>2. w \in Records
    BY <1>3, <2>1 DEF Records, Requests
  <2>3. CoreAfter(q) = [busy |-> TRUE, ret |-> w]
    BY <1>4 DEF CoreAfter
  <2> HIDE DEF w
  <2>4. CoreAfter(q) \in Cores /\ CoreAfter(q).ret = w
    BY <2>2, <2>3 DEF Cores
  <2> QED BY <1>2, <1>4, <2>1, <2>4 DEF w
<1>5. CASE ~Executes(q)
  <2>1. CoreAfter(q) = [core EXCEPT !.ret = None] \/ CoreAfter(q) = core
    BY <1>5 DEF CoreAfter
  <2>2. CoreAfter(q) \in Cores /\ CoreAfter(q).ret \in {core.ret, None}
    BY <1>3, <2>1 DEF Cores
  <2>3. Code(q) = "OK" /\ q.cmd \in SideEffects =>
          core.ret # None /\ core.ret.txid = q.txid /\ core.ret.cmd = q.cmd
    BY <1>5 DEF Executes, Code, Retains, SideEffects
  <2> QED BY <1>2, <1>5, <2>2, <2>3
<1> QED BY <1>4, <1>5

(* The request goes out. *)
LEMMA SendStep == SpiIInv /\ SendRequest => SpiIInv'
<1> SUFFICES ASSUME SpiIInv, SendRequest PROVE SpiIInv'
  OBVIOUS
<1>1. SpiTypeOK /\ CallInv /\ RecordInv /\ Evidence(sn.kept)
  BY DEF SpiIInv
<1>2. sn \in Masters /\ hist \in Histories /\ core \in Cores /\ noise \in Nat /\ sn.phase = "send"
  BY <1>1 DEF SpiTypeOK, SendRequest
<1>3. /\ hist.runs = 0 /\ sn.cmd \in Commands /\ (sn.cmd = "DRAIN" => sn.context = "STARTUP")
      /\ hist.call <= hist.ids + 1 /\ hist.ids \in Nat /\ hist.call \in Nat
  BY <1>1, <1>2 DEF CallInv, Histories
<1> DEFINE n == hist.ids + 1
           q == Request(sn.cmd, sn.txid, n)
           t == SpiTraceBegin(sn.context, q)
           id == NextSpiTxid(sn.txid)
           s == [sn EXCEPT !.txid = id, !.trace = t]
<1>4. n \in Nat
  BY <1>3
<1>5. q \in Requests /\ q.cmd = sn.cmd /\ q.txid = sn.txid /\ q.n = n
  BY <1>2, <1>3, <1>4 DEF Request, Requests, Masters
<1>6. id \in 1..MaxTxid
  BY <1>2, TxidRange DEF Masters
<1>7. t \in Traces /\ t.request = q
  BY <1>2, <1>5, TraceBegun DEF Masters
<1>8. [sn EXCEPT !.txid = NextSpiTxid(@), !.trace = SpiTraceBegin(sn.context, q)] = s
  BY <1>2 DEF Masters
<1>9. \/ /\ sn' = Fail(s, IF Irq THEN "RESULT_PENDING" ELSE "FAULT_LOCKED")
         /\ hist' = [hist EXCEPT !.ids = q.n]
         /\ UNCHANGED <<box, core, noise>>
      \/ /\ sn' = [s EXCEPT !.phase = "wait"] /\ noise' \in Nat /\ ~Irq
         /\ ReceiveIntact(q) \/ ReceiveDamaged(q)
  BY <1>2, <1>8 DEF SendRequest
<1> HIDE DEF n, q, t, id
<1>10. /\ s \in Masters /\ s.trace = t /\ s.kept = sn.kept /\ s.cmd = sn.cmd
       /\ s.txid = id /\ s.context = sn.context
  BY <1>2, <1>6, <1>7 DEF Masters
<1> HIDE DEF s
<1>11. CASE /\ sn' = Fail(s, IF Irq THEN "RESULT_PENDING" ELSE "FAULT_LOCKED")
            /\ hist' = [hist EXCEPT !.ids = q.n]
            /\ UNCHANGED <<box, core, noise>>
  <2> DEFINE code == IF Irq THEN "RESULT_PENDING" ELSE "FAULT_LOCKED"
  <2>1. code \in Codes /\ code # "OK"
    BY DEF Codes
  <2>2. sn' = Fail(s, code)
    BY <1>11
  <2> HIDE DEF code
  <2>3. FailedAs(s, sn', code)
    BY <1>1, <1>7, <1>10, <2>1, <2>2, FailSound
  <2>4. /\ sn' \in Masters /\ sn'.phase = "done" /\ sn'.cmd = sn.cmd /\ sn'.txid = id
        /\ sn'.context = sn.context
    BY <1>10, <2>3 DEF FailedAs
  <2>5. /\ hist' \in Histories /\ hist'.ids = n /\ hist'.runs = 0 /\ hist'.call = hist.call
        /\ hist'.boot = hist.boot
    BY <1>2, <1>3, <1>4, <1>5, <1>11 DEF Histories
  <2>6. CallInv'
    BY <1>3, <2>4, <2>5 DEF CallInv, n
  <2>7. WaitInv' /\ DoneInv' /\ Evidence(sn'.kept)
    BY <2>1, <2>3, FailEnds
  <2>8. core'.ret \in {core.ret, None} /\ sn'.txid = NextSpiTxid(sn.txid) /\ hist'.ids = hist.ids + 1
    BY <1>11, <2>4, <2>5 DEF id, n
  <2>9. RecordInv'
    BY <1>1, <2>5, <2>8, RecordIssued
  <2> QED BY <1>1, <1>11, <2>4, <2>5, <2>6, <2>7, <2>9 DEF SpiIInv, SpiTypeOK
<1>12. CASE sn' = [s EXCEPT !.phase = "wait"] /\ noise' \in Nat /\ ~Irq /\ (ReceiveIntact(q) \/ ReceiveDamaged(q))
  <2>1. /\ sn' \in Masters /\ sn'.phase = "wait" /\ sn'.cmd = sn.cmd /\ sn'.txid = id
        /\ sn'.context = sn.context /\ sn'.trace = t /\ sn'.kept = sn.kept
    BY <1>10, <1>12 DEF Masters, Phases
  <2>2. /\ CoreAfter(q) \in Cores /\ Response(q, Code(q)) \in Responses /\ Response(q, Code(q)).n = q.n
        /\ Response(q, Code(q)).code = Code(q)
        /\ ~Executes(q) => CoreAfter(q).ret \in {core.ret, None}
        /\ Executes(q) => /\ q.cmd \in SideEffects
                          /\ CoreAfter(q).ret = [cmd |-> q.cmd, txid |-> q.txid, n |-> q.n, boot |-> hist.boot]
        /\ Code(q) = "OK" /\ q.cmd \in SideEffects /\ ~Executes(q) =>
             core.ret # None /\ core.ret.txid = q.txid /\ core.ret.cmd = q.cmd
    BY <1>1, <1>5, AnswerSound
  (* The invariant, from what the request does to history, mailbox and core. *)
  <2>3. ASSUME hist' \in Histories, hist'.ids = n, hist'.boot = hist.boot, hist'.call = hist.call,
               sn.cmd \notin SideEffects => hist'.runs = 0, core' \in Cores,
               box' \in Responses \cup {None},
               box' # None => /\ box'.n = n
                              /\ box'.code = "OK" /\ sn.cmd \in SideEffects /\ hist'.runs = 0 => Explained',
               RecordInv'
        PROVE  SpiIInv'
    <3>1. CallInv'
      BY <1>3, <1>4, <2>1, <2>3 DEF CallInv, n
    <3>2. WaitInv'
      BY <1>3, <1>5, <1>7, <2>1, <2>3 DEF WaitInv, n
    <3>3. DoneInv'
      BY <2>1 DEF DoneInv
    <3> QED BY <1>1, <1>12, <2>1, <2>3, <3>1, <3>2, <3>3 DEF SpiIInv, SpiTypeOK
  <2>4. CASE ReceiveIntact(q) /\ ~Executes(q)
    <3>1. /\ box' = Response(q, Code(q)) /\ core' = CoreAfter(q)
          /\ hist' = [hist EXCEPT !.ids = n, !.met = core.ret, !.runs = 0]
      <4>1. /\ box' = Response(q, Code(q)) /\ core' = CoreAfter(q)
            /\ hist' = [hist EXCEPT !.ids = q.n, !.met = core.ret, !.runs = @ + 0]
        BY <2>4 DEF ReceiveIntact
      <4>2. hist.runs + 0 = 0
        BY <1>3
      <4> QED BY <1>2, <1>5, <4>1, <4>2 DEF Histories
    <3>2. core.ret \in Records \cup {None} /\ 0 \in 0..1 /\ 1 \in 0..1
      BY <1>2 DEF Cores
    <3>3. /\ hist' \in Histories /\ hist'.ids = n /\ hist'.boot = hist.boot /\ hist'.call = hist.call
          /\ hist'.runs = 0 /\ hist'.met = core.ret
      BY <1>2, <1>4, <3>1, <3>2 DEF Histories
    <3>4. core' \in Cores /\ core'.ret \in {core.ret, None} /\ sn'.txid = NextSpiTxid(sn.txid) /\ hist'.ids = hist.ids + 1
      BY <2>1, <2>2, <2>4, <3>1, <3>3 DEF id, n
    <3>5. RecordInv'
      BY <1>1, <3>3, <3>4, RecordIssued
    <3>6. Code(q) = "OK" /\ sn.cmd \in SideEffects => Explained'
      <4> SUFFICES ASSUME Code(q) = "OK", sn.cmd \in SideEffects PROVE Explained'
        OBVIOUS
      <4>1. core.ret # None /\ core.ret.txid = sn.txid /\ core.ret.cmd = sn.cmd
        BY <1>5, <2>2, <2>4
      <4>2. core.ret.boot < hist.boot \/ (hist.ids + 1) - core.ret.n >= MaxTxid
        BY <1>1, <4>1, RetainedExplained
      <4> QED BY <2>1, <3>3, <3>4, <4>1, <4>2 DEF Explained
    <3>7. /\ box' \in Responses \cup {None} /\ box'.n = n
          /\ box'.code = "OK" /\ sn.cmd \in SideEffects => Explained'
      BY <1>5, <2>2, <3>1, <3>6
    <3> QED BY <2>3, <3>3, <3>4, <3>5, <3>7
  <2>5. CASE ReceiveIntact(q) /\ Executes(q)
    <3>1. /\ box' = Response(q, Code(q)) /\ core' = CoreAfter(q)
          /\ hist' = [hist EXCEPT !.ids = n, !.met = core.ret, !.runs = 1]
      <4>1. /\ box' = Response(q, Code(q)) /\ core' = CoreAfter(q)
            /\ hist' = [hist EXCEPT !.ids = q.n, !.met = core.ret, !.runs = @ + 1]
        BY <2>5 DEF ReceiveIntact
      <4>2. hist.runs + 1 = 1
        BY <1>3
      <4> QED BY <1>2, <1>5, <4>1, <4>2 DEF Histories
    <3>2. core.ret \in Records \cup {None} /\ 0 \in 0..1 /\ 1 \in 0..1
      BY <1>2 DEF Cores
    <3>3. /\ hist' \in Histories /\ hist'.ids = n /\ hist'.boot = hist.boot /\ hist'.call = hist.call
          /\ hist'.runs = 1
      BY <1>2, <1>4, <3>1, <3>2 DEF Histories
    <3>4. sn.cmd \in SideEffects /\ core' \in Cores
      BY <1>5, <2>2, <2>5, <3>1
    <3>5. core'.ret.txid = sn.txid /\ core'.ret.n = n /\ core'.ret.boot = hist.boot
      BY <1>5, <2>2, <2>5, <3>1
    <3>6. RecordInv'
      <4>1. hist'.ids + 1 - core'.ret.n = 1 /\ n <= n /\ hist.boot <= hist.boot
        BY <1>2, <1>4, <3>3, <3>5 DEF Histories
      <4>2. id = sn.txid + 1 \/ id + MaxTxid = sn.txid + 1
        BY <1>2, SpiAssumption DEF SpiAssumption, Masters, id, NextSpiTxid
      <4> QED BY <2>1, <3>3, <3>5, <4>1, <4>2 DEF RecordInv
    <3>7. box' \in Responses \cup {None} /\ box'.n = n
      BY <1>5, <2>2, <3>1
    <3> QED BY <2>3, <3>3, <3>4, <3>6, <3>7
  <2>6. CASE ReceiveDamaged(q)
    <3>1. hist' = [hist EXCEPT !.ids = q.n] /\ core' = core
      BY <2>6 DEF ReceiveDamaged
    <3>2. /\ hist' \in Histories /\ hist'.ids = n /\ hist'.boot = hist.boot /\ hist'.call = hist.call
          /\ hist'.runs = 0
      BY <1>2, <1>3, <1>4, <1>5, <3>1 DEF Histories
    <3>3. core' \in Cores /\ core'.ret \in {core.ret, None} /\ sn'.txid = NextSpiTxid(sn.txid) /\ hist'.ids = hist.ids + 1
      BY <1>2, <2>1, <3>1, <3>2 DEF id, n
    <3>4. RecordInv'
      BY <1>1, <3>2, <3>3, RecordIssued
    <3>5. \/ box' = None
          \/ box' \in {Response(q, "BAD_CRC"), Response(q, "BAD_LENGTH"), ShortCs(q)}
      BY <1>12, <2>6 DEF ReceiveDamaged, Irq
    <3>6. box' # None => box' \in Responses /\ box'.n = n /\ box'.code # "OK"
      BY <1>5, <3>5, SpiAssumption DEF SpiAssumption, ShortCs, Response, Responses, Requests, Codes
    <3> QED BY <2>3, <3>2, <3>3, <3>4, <3>6
  <2> QED BY <1>12, <2>4, <2>5, <2>6
<1> QED BY <1>9, <1>11, <1>12

-----------------------------------------------------------------------------
(* The theorems.                                                            *)

(* Power-on. *)
LEMMA SpiInitSound == Init => SpiIInv
<1> SUFFICES ASSUME Init PROVE SpiIInv
  OBVIOUS
<1>1. sn = Boot /\ box = None /\ core = [busy |-> FALSE, ret |-> None] /\ hist = Hist /\ noise = 0
  BY DEF Init
<1>2. core \in Cores /\ hist \in Histories /\ hist.runs = 0 /\ hist.call = 1 /\ hist.ids = 0
  BY <1>1 DEF Cores, Hist, Histories
<1>3. SpiTypeOK
  BY <1>1, <1>2, BootSound DEF SpiTypeOK
<1>4. CallInv /\ WaitInv /\ DoneInv /\ RecordInv /\ Evidence(sn.kept)
  BY <1>1, <1>2, BootSound DEF CallInv, WaitInv, DoneInv, RecordInv, Evidence
<1> QED BY <1>3, <1>4 DEF SpiIInv

(* Every step preserves the invariant. *)
LEMMA SpiStep == SpiIInv /\ [Next]_vars => SpiIInv'
<1> SUFFICES ASSUME SpiIInv, [Next]_vars PROVE SpiIInv'
  OBVIOUS
<1>1. CASE UNCHANGED vars
  BY <1>1 DEF vars, SpiIInv, SpiTypeOK, CallInv, WaitInv, DoneInv, RecordInv, Explained
<1>2. CASE Next
  BY <1>2, DrainStep, DrainEmptyStep, PrepareStep, SendStep, ReceiveStep, TimeoutStep,
     StartupProbeStep, CallStep, EngineStep, ResetSn32Step, ResetPrimerStep, FaultStep DEF Next
<1> QED BY <1>1, <1>2

(* The exchange, its callers and the Primer keep the inductive invariant.   *)
THEOREM SpiInvariant == Spec => []SpiIInv
<1>1. Init => SpiIInv
  BY SpiInitSound
<1>2. SpiIInv /\ [Next]_vars => SpiIInv'
  BY SpiStep
<1> QED BY <1>1, <1>2, PTL DEF Spec

(* endpoint_exchange executes a side effect at most once per call, and what *)
(* it accepts answers its last request, however often the wire disturbs it. *)
THEOREM ExchangeTheorem == Spec => []ExchangeHonest
<1>1. SpiIInv => ExchangeHonest
  BY DEF SpiIInv, SpiTypeOK, Histories, DoneInv, Explained, ExchangeHonest
<1> QED BY <1>1, SpiInvariant, PTL

(* The live trace and the retained failure that the SN32 reports to the PC  *)
(* are true.                                                                *)
THEOREM EvidenceTheorem == Spec => []EvidenceHonest
<1>1. SpiIInv => LiveTraceHonest
  BY DEF SpiIInv, DoneInv, LiveTraceHonest, ValidateLiveSpiTrace
<1>2. SpiIInv => FailureRetained
  BY DEF SpiIInv, DoneInv, Evidence, FailureRetained, FirstSpiFailureReadable
<1>3. SpiIInv => EvidenceHonest
  BY <1>1, <1>2 DEF EvidenceHonest
<1> QED BY <1>3, SpiInvariant, PTL
=============================================================================
