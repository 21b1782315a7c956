# FPGA MCU Trinity: a TLA+ verification development

Trinity is a four-board secure telemetry demonstrator. An SN32F407
microcontroller establishes a session (ML-KEM on the MCU, key and nonce prefix
derived per session), installs it on two Tang Primer FPGAs over SPI, and then
sends telemetry: Primer #1 encrypts an image with Ascon-AEAD128 under a counter
nonce and transmits a 66-byte frame on a UART line, Primer #2 receives,
authenticates and decrypts it. A Tiny1P5 FPGA supervises the others through
heartbeats and fault inputs and drives `secure_enable`, `zeroize_n` and
`tiny_fault_n`. A PC drives the MCU through a COBS-framed serial protocol.

This directory models the control of that system: what each part may do when
requests, responses and frames are lost, boards are reset, faults arrive
in the middle of anything, and masters repeat what they have already asked.

## 1. Inventory

| Part | State it keeps | Operations | Talks to | What is hard | What makes it correct |
|---|---|---|---|---|---|
| Tiny1P5 supervisor (`tiny1p5/rtl`) | state register, state timer, uptime, latched fault with code and time, three watchdog ages | one step per clock: start-up, qualify, monitor, zeroize, locked, recovery, illegal state | drives three lines into both Primers and the MCU, reads their heartbeats and fault lines | long sequences of faults and recoveries, simultaneous faults, counter saturation and wrap, a corrupted state register | secure_enable excludes fault and zeroize; qualification and recovery are complete; first fault kept; silence ends secure_enable |
| Primer #1 command core (`primer1/rtl/core`) | session state, staged and active bank, sequence number, telemetry image, one retained result, latched fault | 17 SPI commands, self-test, encrypt, UART send, zeroize by command and by the lines | SPI slave of the MCU, UART to Primer #2, lines of the supervisor | zeroize in the middle of an engine; repeated requests; abort out of FAULT_LOCKED | nonce never reused in a session; keys leave with the session; no engine under a fault; every accepted side effect ends |
| Primer #2 command core (`primer2/rtl/core`) | the same without image, plus candidate frame, last sequence, pending result, bad-tag count, last ACK | 14 SPI commands, receive, validate, decrypt, self-test, zeroize | the same, and the UART receiver | a request is served in the very cycle in which the receive path progresses | only authentic frames, none twice; a result waits for its ACK; fault excludes ACTIVE |
| SPI packet endpoint (`primer*/rtl/io/spi_packet_endpoint.sv`) | request and response mailboxes | receive, check CRC, present, answer | MCU and core | stale response, truncated frame | at most one execution per request; an answer belongs to its request |
| SN32 SPI transport (`trinity_deploy_main_part_06` to `08`) | next transaction id, trace of the last exchange, retained first failure or start-up residue | exchange, drain, capture, reissue, start-up recovery | endpoint, controller, PC diagnostics | damaged and repeated transfers, a mailbox left by an abandoned exchange, identifier wrap, resets in a CS window | a side effect runs once; the evidence shown to the PC is true |
| Telemetry UART (`uart_*`) | byte and frame counters, time-out | transmit and assemble 66 bytes | Primer #1 to Primer #2 | resynchronisation after a damaged frame | a frame is delivered whole or not at all |
| SN32 full controller (`sn32/src/app/trinity_full_controller*`) | system state, installed session, sequence count, which targets are ready, last error | activate, close, zeroize, self-test, refresh, probe, send, diagnostics | both Primers by SPI, the supervisor's lines, the deploy bridge | two-party commit with losses at every step; retained operations with deadlines; stale flags | both Primers share the controller's session or none; failure leaves no key; every command ends |
| SN32 deploy bridge, main loop, transport (`trinity_deploy_*`) | commit line, contained fault, host transaction, SPI transaction id | PC handlers, fault containment, automatic probe, exchange with read reissue | controller, PC link, SysTick | at-most-once towards the PC; the safety timer fires during a transaction | a PC command is executed once; a contained fault can be left |
| PC link and client (`sn32/src/trinity_pc_protocol.c`, `pc_host`) | receive buffer, one queued frame, pending request | frame, retry, reconcile | MCU | lost answers, BUSY, reconnect | the client learns the outcome of what it asked |
| Cryptography (ML-KEM, Ascon, SHA-3, KDF) and codecs (COBS, CRC, SPI frames) | none across calls | pure functions | everyone | arithmetic | known-answer tests; round trips |
| PC programs (`cli.py`, `full_cli.py`, `demo_core.py`, qualification flows of the client) | the steps done, whether a clean-up is due | one flow per command: bring-up, qualification, secure telemetry, core demo, zeroize | the board through the client | failure at any step, clean-up that fails too, results left by a killed program | PASS is of this run and leaves nothing behind; FAIL cleans up |
| Demo window (`demo_gui_base.py`, `demo_gui.py`) | widgets, worker thread, message queue | start handlers, F5, queue polling, dialogs | one flow in a thread | outcome queued before the thread is dead, clicks in between | shows the last outcome; buttons come back |
| Bring-up firmware, qualification sketches, scripts | none of the protocol | | | | |

`PROJECT.json` lists the parts with their sources and status, and the hazards
at their lines.

Two build profiles exist. In the *architecture* profile, which is modelled,
`secure_enable` reaches a Primer only if the MCU commits **and** the supervisor
enables; the core-demo profile
(`sn32/docs/CORE_DEMO_V0_7_29_HARDWARE_GATE.md`) lets the MCU's line alone drive
it. The RTL of the Tiny has no input for the commit line, so the conjunction is
formed at the Primer's pin (`DriveSecure`).

## 2. Modules

| Module | Models | State | Actions |
|---|---|---|---|
| `TinyLines` | abstract specification of the supervisor: its three lines | `fatal`, `zeroizeN`, `enable` | `Fault`, `Disturbed`, `Cleared`, `Released`, `Enabled` |
| `Supervisor` | `fpst_supervisor_core`, `fpst_heartbeat_watchdog`, reset and pins of `supervisor_top` | one variable per register, plus the history `clean` | one per arm of the state machine inside `Clock(in)`, `PowerOnReset`, `Upset` (external) |
| `SupervisorProofs` | theorems about `Supervisor`, refinement of `TinyLines` | | |
| `Primer` | what both command cores share | the nets, the last reply | `Nets` |
| `Primer1` | `primer1_command_core` without the polynomial job | record `p1`; `air`; histories `used`, `again` | one per command and per engine completion |
| `Primer1Proofs` | theorems about `Primer1` | | |
| `Primer2` | `primer2_command_core` | record `p2`; history `twice` | `P2Request(f, q)`: a command in a cycle with the progress `Progress(f)` of the receive path; zeroize, release |
| `Primer2Proofs` | theorems about `Primer2` | | |
| `TrinitySystem` | controller, exchange, both Primers, UART, lines | `ctl` (registers and program counter), `enable`, `trouble` | one per SPI exchange or stretch of code between two |
| `TrinityPrimers`, `TrinityProofs` | what a step may do to a Primer's session; theorems about `TrinitySystem` | | |
| `HostLink` | PC client, serial line, the dispatcher and the retained host transaction of the firmware | `mcu`, `toMcu`, `toPc`, `pc`; histories `calm`, `current`, `alone` | `HandleRequest` (one handler per command), `StartOp`, `Receive`, `TimeOut`, open and close, damage, reset, containment, probes |
| `HostLinkProofs` | theorems about `HostLink` | | |
| `SpiLink` | `endpoint_exchange` with all it calls, the start-up probe, the endpoint's mailbox and the retained record behind it, the PC's test of a live trace | `sn`, `box`, `core`; `hist` (history), `noise` | one per CS window or decision between two: `Drain`, `SpiPrepareRequestWindow`, `SendRequest`, `ReceiveResponse`, `ResponseTimeout`, `StartupStep`, `Call`, resets, fault |
| `SpiLinkProofs` | theorems about `SpiLink` | | |
| `HostFlow` | the flows of the PC programs and the board as they see it | `board`, `run`; bounds `runs`, `trouble` | `RunStep` (one client call: read, retired, refused, succeeded, failed, lost), `StartCli`, `KillCli`, board events |
| `DemoGui` | the demo window on top of `HostFlow` | `gui`, `worker`, `queue` | `User` (four start handlers), `OpenClient`, `WorkerStep`, `ThreadExit`, `DrainQueue`, `CloseDialog`, `CloseWindow` |
| `DemoGuiProofs` | theorems about `HostFlow` and `DemoGui` | | |
| `MCPrimer2`, `MCTrinity`, `MCHostLink` | symmetry sets for TLC | | |

`TrinitySystem` EXTENDS `Primer1` and `Primer2` and uses their actions unchanged
(`Deliver`, `P1Step`, `P2Step`); it INSTANCEs `TinyLines` in place of the
supervisor, which `Supervisor` is shown to implement. `HostLink` stands beside
it: what a command does to the Primers is the one's subject, which answer the
PC gets is the other's, and `HostLink` lets a command succeed or fail freely.
`SpiLink` is below `TrinitySystem`: it shows what the one-step exchange of the
latter takes for granted. `HostFlow` is above `HostLink`: a client call is one
step there, with the outcomes `HostLink` gives it, and `DemoGui` EXTENDS it.

### How the models read the code

*Supervisor.* A step is a cycle of `clk_27m`; `Inputs` are the conditioned
pins. `Clock` is the `always_ff` of the core together with the three watchdogs,
which are read before they are updated, as in the RTL.

*Primers.* A request is decoded and answered in one cycle, so an action is the
whole arm of the command `case`, with the checks in the order of the code:
forced zeroize before everything, then the busy core, the retained record, the
length, the payload, the state. `None`, `Malformed` and `Unsupported` stand
for payloads; a request's fingerprint is its command and argument. Primer #2
serves a request in the same cycle in which a frame is captured, validated or
decrypted; its handlers read the old registers (`p2`) and overwrite the
progressed ones (`p`), as non-blocking assignments do. That is why
`P2Request` takes a frame. A tag verifies exactly under the key that made it.
Primer #1 completes its COMMIT one cycle after it began it
(`retained_commit_pending`); nothing can come between, so it is one step here.
The bytes of a telemetry image, the reserved-byte checks of its payload, the
diagnostic counters and the summary bits carry no control and are left out.
A sequence number has 64 bits; its wrap is out of reach and `MaxSeq` is a bound.

*System.* The controller is sequential code: `pc` names the place between two
exchanges, `op` the command, `sub` the phase of `controller_execute_retained`,
`late` that the deadline of the current loop has passed. An exchange is
delivered and answered, delivered with its answer lost, or lost; after a
contained fault the transport refuses it. `FRAME_TIMEOUT` stands for every
transport error, and `contained` for `g_tiny_fault_contained` and `g_fault`,
which are set and cleared together. ZEROIZE tolerates the code ZEROIZED as it
does OK, so both are OK here. Reads are reissued and side effects are not;
every attempt takes a fresh 16-bit transaction id, whose wrap is not modelled.
The handler for RUN_SELF_TEST passes only the Primer bits of the mask to the
controller; the MCU's own tests before it change no control state. `Quiet`
states the one timing fact the system model relies on: each exchange begins
with 5 ms of silence (`spi_prepare_request_window`), so by then a Primer has
reacted to its lines, wiped, encrypted or decrypted; a self-test and a
transmission take longer. The modules of the Primers do not use it. `trouble`
counts losses, damage, faults, resets and premature deadlines; without
trouble a deadline passes only in the wait for a frame, whose loop tests for a
pending result together with a ready receiver and so always runs into its
deadline (`controller_part_06:61`). The model starts after the firmware's 2 s
warm-up, with the supervisor qualified.

*Host link.* PC commands execute only from the main loop and synchronously, so
a handler is one step, with the checks in the order of the code: GENERATE and
CREATE test the state before the retained record, the others after. Slowness is
a client that times out before the step. The client is a process that runs
operations one after the other; `phase` names the request whose answer it
awaits, and every exception path is followed, the swallowed ones included.
Opening the port discards what has arrived (pyserial does), and identifiers
start at 1 again. `toMcu` is everything between the client and the handler:
line, UART FIFO and the one-frame queue, all in order. A fault contained by
the main loop discards the retained record. Result data are left out: CLOSE and
ZEROIZE have none, so the comparison of immediate and retained data separates
nothing in the hard case. So are progress events, which the client skips, and
the payload checks no client fails.

*SPI link.* A CS window and the Primer's answer to it are one step: the
endpoint parses and the core answers in microseconds, the master waits
`SPI_RESPONSE_SETTLE_MS`. A damaged request vanishes (no magic byte), is
answered with an error that carries its command and identifier, or, cut within
the header, with zeros in their place. A read is intact, damaged, or intact
while the Primer has counted too few clocks and keeps the response; `cost` is
what each takes from the noise budget. BAD_CRC stands for every error a damaged
response is recognised by, FAULT_LOCKED for what a closed bus answers. One
Primer is modelled: the master talks to one at a time and both have the same
endpoint; the core is Primer #1's, with two side effects and the two
transaction commands, without ZEROIZE, which overrules a retained record. The
second and third drain of a window, and the refusal after them, are written
down as in the code but cannot be reached: an endpoint never fills its mailbox
without a request.

*PC flows.* A flow is a sequence of named steps; `Accepts` holds the test its
caller makes of each answer, and the order of the steps is that of the calls.
The board keeps what those tests can see: state, health (ready mask, fault
flags, last error), key pair, session, sequence, last authenticated packet,
retained result, failure latch and whether the uptime restarted. What a command
does to it is taken from the handlers and the controller, with every state a
failure may leave. Where the model cannot tell how a test comes out
(`Doubtful`: build IDs while a Primer is absent, an uptime that passed its old
value) it takes both. `armed` is the point from which the code cleans up: a
reported key pair in the demo (`demo_core.py:144`), the confirmed session in the
qualification (`full_flow.py:416`). Payload lengths, seeds and build numbers are
not told apart: every program sends a payload of its own.

*Demo window.* Tk runs handlers one at a time, so a handler is one step; the
worker puts its outcome and is dead in two (`Report`, `ThreadExit`), since
`is_alive` may be asked in between. A pass of `_drain_queue` handles every
message there is; here it takes one per step, as if the next had arrived later.
The error dialog is modal and opened from inside the pass, so it stops queue and
buttons. The warning that refuses a click stops only the buttons, so leaving it
out allows more.

## 3. Runs

| Run | Question | Distinct states |
|---|---|---|
| `supervisor` | every input sequence, one corrupted state register, a wrapping uptime: type, secure_enable against fault and zeroize, qualification, recovery, first fault, refinement of `TinyLines`; with a running clock, a silent heartbeat ends secure_enable | 60,230 |
| `supervisor_wrap` | violation: a time-out is not fatal while the wrapped uptime disarms the watchdogs | |
| `primer1` | any master and any lines: nonces, keys, engine, orphans, at most one execution, sequence; an accepted side effect ends | 411,152 |
| `primer2` | any master, lines and frames: authenticity, no replay, bad tags in a row, fault, keys, at most one execution, the pending result | 32,384 |
| `primer2_orphan` | violation: an abort during the self-test leaves its record running | |
| `primer2_gap` | violation: a frame that skips a number is discarded | |
| `trinity` | controller and both Primers with two troubles: shared session, sequence chain, what success and failure erase, delivery | about 2.1 million |
| `trinity_live` | every command ends | about 230,000 |
| `host` | client processes and the retained host transaction with two troubles: success reports the last execution, an undisturbed process is understood, a leftover result refuses at most one operation and no emergency zeroize | 8.9 million |
| `demo_gui` | the window, its worker and the command line, two programs and one trouble: an honest PASS, the clean-up after a failure, an honest gate, a truthful display, buttons that come back | 978,334 |
| `spi_link` | up to six requests with two troubles and identifiers that wrap at 3: at most one execution per exchange, answers that belong to their requests, evidence that is true | 4.1 million |
| `trinity_escape` | violation: ZEROIZE does not end a containment | |

**Bounds.** Supervisor: times of one or two ticks and `UPTIME_MOD` 3 or 4, so that
saturation, the last tick of each phase, relapse and wrap all happen. Primers:
two identifiers and two keys (a collision, a replaced session, a forged tag),
two transaction ids (the retained one and another), two images (a nonce used
for different plaintexts), `MaxSeq` 2 (first, next, replayed and skipped
frame), `BadTagThreshold` 3 as in the RTL. System: `MaxTrouble` 2, so that a
trouble can hit the recovery from another one. Identifiers, keys and images are
only compared for equality, so they are symmetric; host link: two payloads,
two operations per process, any number of processes, `MaxTrouble` 2 (kill a
process and lose a frame of the next one), `MaxTxid` 11, above what two
operations can use (`NoWrap` of section 4), so that the wrap after 65535
requests is left out; transaction ids in the system are chosen with CHOOSE and
are not. SPI link: six requests pass the wrap
at `MaxTxid` 3 twice, so an identifier meets its own retained record; two
troubles damage both the first and the second read, or reset the SN32 and then
damage the drain of what it left; `READ_REISSUE` is the code's 2. Demo window:
two programs (the second meets what the first left), one trouble, one round of
the liveness loop, since its rounds are alike.

**Fairness.** Supervisor: the clock and its millisecond tick do not stop,
so the uptime moves again and again (`FairSpec`). Primer #1: its engines run on that clock (`P1FairSpec`). System:
the main loop goes on with a command it has begun, deadlines pass (SysTick),
engines finish, a transmitted frame ends. Nothing is assumed of the PC, of
faults, of losses or of the supervisor's recovery. Demo window: every client
call has a deadline, so the worker goes on; its thread ends; Tk runs the queue
poll every `POLL_MS`. Nothing is assumed of the user: `ButtonsComeBack` ends at
an open dialog. `demo_gui` and `spi_link` turn deadlock checking off because
they stop when their bounds on programs and requests are used up; no other run
does.

**Findings.** The violating runs show where the code disagrees with what its
documents or comments say; `PROJECT.json` quotes the lines.
* The 32-bit uptime of the supervisor wraps after 49.7 days and grants the
  watchdogs a second start-up grace (`SilenceIsFatal`). `SilenceEndsSecure`
  shows that the silence is noticed afterwards.
* ABORT_SESSION during Primer #2's self-test leaves a record that is RUNNING
  for ever (`P2NoOrphan`); on Primer #1, `P1NoOrphan` holds.
* Once a supervisor fault was contained, the flag that contains it also closes
  the SPI bus, so the ZEROIZE that would clear it is refused until the MCU is
  reset (`EscapeHatch`).
* Primer #2 accepts only the next sequence number
  (`primer2_command_core_part03.svh:105`), where the system requirements say
  "strictly greater than last accepted; gaps allowed" (`P2GapAllowed`). The RTL's
  comment and `primer2/docs/ARCHITECTURE.md:39` want it so; the price is that a
  frame lost on the UART ends the session. `P2NoReplay` states what code and
  requirements agree on.

Some smaller things are visible in the models but have no run:
* Primer #1 executes a repeated ZEROIZE again instead of returning its retained
  result (`P1Blocked` exempts it; Primer #2 does not), and Primer #2 does not
  look at the payload of a ZEROIZE that replaces a retained record (`P2Repeat`).
* A failed commit is reported with the code of the failing exchange where the
  requirements name SESSION_COMMIT_FAILED (`Committed`).
* The host link's answers are correlated by command and identifier, and every
  process numbers from 1: if a process is killed while its GENERATE runs, and
  the next one's GENERATE is damaged on the line, the late answer of the first
  is taken for the second's, whatever its seed. `ResultCurrent` states what does
  hold: the success is that of the last command executed.
* After an early time-out a process stays one answer behind until it is
  restarted; `UndisturbedUnderstood` is about processes that meet no trouble.
* The clean-up after an error retires whatever is active (`StatusKnown`), also a
  result that its own process never learned.
* SPI transaction ids restart at 1 with the SN32. A side effect that meets a
  record with its identifier and fingerprint, still retained by a Primer from
  before the reset or from before a wrap, is answered from it and not executed;
  `ExchangeHonest` allows exactly these two cases.
* The demo zeroizes only after a *reported* key pair (`demo_core.py:145`): when
  that answer is lost, the key pair stays, although the window says keys are
  erased after every demo (`demo_gui_base.py:424`). The secure-telemetry
  qualification leaves key and session when it fails before
  `full_flow.py:416`, and closing the window ends a demo wherever it is.
* When the clean-up's zeroize itself fails, `FailureCleansUp` is about the key
  pair and the session of the SN32, which that handler erases whatever the
  Primers answer (`Residue`); whether a Primer was erased is not represented in
  `HostFlow`. `TrinitySystem` has the Primers' side.
* `sn32-qualify` never compares the uptime of its first ping, and a reset clears
  the failure latch: a reset while it waits for the Primers, or between its last
  ping and the last reading of the latch, passes the gate, although
  `sn32/docs/SN32_DUAL_SPI_HARDWARE_QUALIFICATION_NEXT_GATE.md:144` lists a reset
  among the failures. `GateHonest` does not claim that a reset fails the gate; it
  states what holds of the SPI failures after the last one.
* `p1-bringup` and `dual-spi-bringup` do not look for an active transaction, so a
  self-test result left by a killed process can be reported as theirs;
  the qualifications do look (`GateHonest`).
* In the window a start handler redraws before `_start_worker` asks whether a
  worker is alive, and F5 is never disabled: a refused click leaves a finished
  demo's screen on waiting, and a success that is drained after a restart shows
  a match beside the later verdict. A stage that failed is shown as passed when
  the clean-up announces the next one. `DisplayTruthful` states what holds.

## 4. Proofs

The modules below are checked by TLAPS for every value of the constants. None of
the safety properties is inductive as it stands; each paragraph says what had to
be added. The invariants were checked by TLC on the instances of section 3
before they were proved.

**Supervisor** (`SupervisorProofs`). Assumption `SupervisorAssumption`: the times
are positive and the uptime counter can count past the grace. That MONITOR
excludes a fault needs to know which states hold one (`PhaseFault`); that a
qualification is complete needs to know that the timer never ran ahead of the
clean ticks (`PhaseTimer`); that MONITOR has seen every heartbeat needs
`PhaseSeen`. `IInv` is their conjunction with `TypeOK`. One lemma per arm of the
state machine shows that it is preserved (`SupervisorInvariant`); from it follow
`TypeTheorem`, `SecureTheorem`, `ZeroizeTheorem`, and the action properties
`QualifiedTheorem`, `RecoveryTheorem` and `FirstFaultTheorem`.
`RefinementTheorem` maps every step of the supervisor to a step of `TinyLines`
or a stutter.

**Primer #1** (`Primer1Proofs`). Assumptions `PrimerAssumption` (`MaxSeq` is
positive and `None` is no identifier or image) and `P1Assumption` (`None` is no
record). `P1IInv` adds to the invariants which session state goes with each
engine (`P1CoreSession`), which record it works for (`P1CoreRecord`), which
banks each session state holds (`P1Banks`), and that only sequence numbers below
the next one, or the one in the engine, are used (`P1Fresh`): the last is what
makes nonce uniqueness inductive, since the number moves only when the frame has
left while the nonce is used from the start of the encryption. The claim is
about one committed session: that two sessions differ in key or nonce prefix is
the business of the key derivation, which is not modelled (its deterministic
test mode repeats them). Theorems: `P1TypeTheorem`, `NonceTheorem`,
`KeysTheorem`, `EngineTheorem`, `OrphanTheorem`, `SeqTheorem`, `OnceTheorem`.

**Primer #2** (`Primer2Proofs`). Assumption `Primer2Assumption`: the bad-tag
threshold is positive. A cycle is the progress of the receive path from `p2` to
`p` followed by the request's assignments to `p`, so the invariant `P2Sound` is
stated of arbitrary registers: it is shown of `p` first, and then of what a
handler makes of `p` while it still reads `p2`. `P2Move` says what such a cycle
may do to the session, the last sequence number and the result. Theorems:
`P2TypeTheorem`, `P2AuthenticTheorem`, `P2FaultTheorem`, `P2KeysTheorem`,
`P2OnceTheorem` and the action properties `P2KeptTheorem` and
`P2NoReplayTheorem`.

**Controller and Primers** (`TrinityPrimers`, `TrinityProofs`). Assumption
`SystemAssumption`: there are two transaction ids, and `None` and `Malformed`
are no proper values. A step of the controller is first described as a *route*
(`StageRoute` to `WorldRoute`): which request was served, with which code, and
where the program goes; `TrinityPrimers` says what such a request, a cycle of
the lines or a frame may do to either Primer (`Moved`). On the routes rest, in
this order: `SharedInv` (at each label of an activation, which bank of which
Primer holds the session being installed; elsewhere nobody holds another one),
`EraseInv` (which Primer a closing or zeroizing command has already emptied, as
long as it has met no error), `CalmInv` (what cannot have happened without
trouble; a contained fault has emptied both Primers), `FailInv` (with at most
one trouble, the abort or the zeroize of the clean-up reached each Primer),
`FrameInv` (the frame on the line, in Primer #2 and in its pending result is one
Primer #1 sent in this session) and `CountInv` (the controller's count is not
ahead of it; the result it has compared is still there when it acknowledges).
Theorems: `SharedTheorem`, `SuccessTheorem`, `FailureTheorem`, `SequenceTheorem`
and the action property `SendTheorem`. Only `FailureTheorem` speaks of a number of
troubles, and that is part of the property: two losses in the clean-up of one
activation do leave a key.

**SPI link** (`SpiLinkProofs`). Assumptions `SpiAssumption` and `KeptAssumption`
(`None` is no trace). `SpiIInv`: only reads are reissued, so a side effect is
sent once per call (`CallInv`); what is in the mailbox while the master waits
answers its last request (`WaitInv`); the verdict of a finished exchange
describes it (`DoneInv`); the identifiers issued since a retained record was
made are in order, so that meeting it again under its own identifier means a
wrap or a reset (`RecordInv`); and the retained trace is evidence. Theorems:
`ExchangeTheorem`, `EvidenceTheorem`.

**Host link** (`HostLinkProofs`). Assumptions `HostAssumption` and
`NoneAssumption` (`None` is no identifier or transaction). For a process that meets no
trouble, `CalmInv` says that the line carries exactly one frame of the exchange
it waits for, and what the firmware retains at each phase of it. For a process
that is alone on the line but may lose frames, `AloneInv` says that its requests
are on the line in the order of their identifiers, and which execution an answer
with the awaited identifier can be of. Theorems: `HostTypeTheorem`,
`UndisturbedTheorem`, `RefusedTheorem` without further hypotheses;
`EmergencyTheorem` and `CurrentTheorem` under `NoWrap`: a process makes fewer
operations than use up its identifiers (an operation takes at most five, so the
code's 65535 are enough for 13106). `CurrentTheorem` is the whole of
`ResultCurrent`. For a process that is alone it follows from `AloneInv`; for one
that follows a killed process it needs `LineInv`, an invariant over `Line`, the
answers and frames on their way in the order in which they are read. Some
number `f` of its items are older than the process (`After(f)`): the rest are
its own and carry increasing identifiers (`Own`); each older item has cost a
trouble, and so has each request the process has sent while some remain
(`Older`, the count of `Pending` against `trouble`), which with two troubles
leaves only a few shapes of the line; an older answer that could be mistaken for
the process's own reports the last execution (`Mistakable`). After the process
has been told of a success (`ToldInv`), either nothing on the line executes
(`Clean`), or what would execute is refused because the result is still retained
and a first command is never a full zeroize (`Shielded`, `Harmless`), or the next
answer ends the operation (`Doomed`). The number of troubles is part of the
property: with three, the process may take an answer left over from the killed
one, with its own identifier, for its own.

**PC programs and demo window** (`DemoGuiProofs`). Assumptions `FlowAssumption`
(the liveness loop runs at least once; the bounds and `None`) and
`StageAssumption` (`None` is no stage). The judged flows all contain the
hardware qualification, whose length depends on `Iterations`, so a program's
*place* is counted from its first step: what is left of a program is an end of
its flow (`Remaining`), and `At` is computed from its length. `StepAtPlace` says
which steps stand at the places that matter, `RunStepKnown` what any call may do
whether it returns or raises. `FlowInv` is then a table by place: no result is
retained from the look at the initial status on (so the known-answer tests and
the sends are executed for this call, not answered from an older record), the
tests are done after their places, `auth` counts the sends passed, and the board
is blank after the zeroize; a failing program has only its clean-up left, and an
SPI failure charged to a program is still in the latch. For the window, `GuiInv`
says that the last worker's outcome is the last message in the queue or is on
the screen (`ResultShown`), and that every stage the running or passed demo has
announced is shown as passed or current, or its announcement is still in the
queue, with no failure message of an earlier worker behind it (`StagesShown`).
Theorems: `PassTheorem`, `CleanUpTheorem`, `GateTheorem`, `DisplayTheorem`.

**Only model-checked.** The four liveness properties: fairness and ENABLED are
out of this prover's reach. The runs that expect a violation. Every safety
invariant and every action property of the passing runs has a theorem.

## 5. Not modelled

The polynomial accelerator job of Primer #1 and all cryptographic arithmetic
(out of TLC's reach), diagnostic counters, the bit machines of SPI endpoint and
UART, the sample telemetry of the SPI transport, the benchmark, stress and demo
handlers of the PC link, the SysTick lease and the P010 guard (a fault of either
may come at any point), COBS, CRC and payload layouts, argument parsing,
window layout, log and report, and the bring-up programs. They keep no protocol
state that another part depends on, or are abstracted where they do.

## 6. Plan

1. *Done:* `TinyLines`, `Supervisor` with proofs; `Primer`, `Primer1` with
   proofs; `Primer2`; `TrinitySystem` as their composition; `HostLink`;
   `SpiLink`; `HostFlow` and `DemoGui`; proofs of the safety properties of all of them.
2. Larger pieces left: `SafetyTimer` (SysTick, progress lease, guard line);
   `UartLink` and `Debounce` against abstract specifications; `PolyJob`; the
   codecs as operators against a reference definition.
