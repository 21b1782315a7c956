------------------------------- MODULE Primer -------------------------------
(***************************************************************************)
(* What the two Primer command cores have in common: their session states,  *)
(* the SPI requests they decode, the codes they answer with, the one        *)
(* retained side-effect record each keeps, and the supervisor nets both     *)
(* read through their synchronisers.                                        *)
(*                                                                          *)
(* A request is decoded and answered in one clock cycle, so an action of a  *)
(* core handles it whole and leaves the response code in reply.  The data   *)
(* of a read command is a function of the state it was answered in.         *)
(***************************************************************************)
EXTENDS Naturals

CONSTANTS
  Ids,        \* non-zero session identifiers
  Keys,       \* session key and nonce prefix, as one value
  Txids,      \* SPI transaction identifiers
  Telemetry,  \* telemetry images
  MaxSeq,     \* bound: frames encrypted under one session
  None,       \* the absent value
  Malformed,  \* a payload of the wrong length
  Unsupported \* a mask or a scope that is not supported

ASSUME PrimerAssumption ==
  /\ MaxSeq \in Nat \ {0}
  /\ None \notin Ids \cup Telemetry

VARIABLES
  secure,     \* secure_sync: secure_enable after the synchroniser
  fatal,      \* fatal_sync: the supervisor's latched fault
  zeroizeN,   \* zeroize_sync, active low
  reply       \* code of the last SPI response

nets == <<secure, fatal, zeroizeN>>

SessionStates == {"SELF_TEST_REQUIRED", "SELF_TEST_RUNNING", "READY_NO_SESSION",
                  "STAGED", "COMMITTED_BLOCKED", "ACTIVE", "ZEROIZE_BUSY",
                  "FAULT_LOCKED"}

Codes == {"OK", "BAD_LENGTH", "BAD_STATE", "BAD_SESSION", "NOT_SUPPORTED", "BUSY",
          "BAD_COMMAND", "RESULT_NOT_READY", "RESULT_PENDING", "COMMIT_REJECTED",
          "TRANSACTION_CONFLICT", "SESSION_ID_COLLISION", "BAD_CRC"}

(* A session as STAGE_SESSION carries it. *)
Material == [id: Ids, key: Keys]

Frames == [id: Ids, key: Keys, seq: 1..MaxSeq, tel: Telemetry]

(* The argument None is an empty payload, the supported mask or scope, or   *)
(* the session id 0 of ABORT_SESSION.                                       *)
Request(cmd, args) == [cmd: {cmd}, txid: Txids, arg: args \cup {Malformed}]

CommonRequests ==
  UNION {Request("GET_INFO", {None}), Request("GET_STATUS", {None}),
         Request("RUN_SELF_TEST", {None, Unsupported}), Request("GET_TXN_RESULT", Txids),
         Request("RETIRE_TXN_RESULT", Txids), Request("ZEROIZE", {None, Unsupported}),
         Request("STAGE_SESSION", Material), Request("COMMIT_SESSION", Ids),
         Request("ABORT_SESSION", Ids \cup {None}),
         [cmd: {"UNKNOWN"}, txid: Txids, arg: {None}]}

(* The retained record; None stands for retained_valid = 0. *)
Retained(cmds, data) ==
  [txid: Txids, cmd: cmds, arg: Ids \cup {None, Malformed, Unsupported},
   data: data,
   state: {"RUNNING", "SUCCEEDED", "FAILED", "ZEROIZED"}]

Begin(q) == [txid |-> q.txid, cmd |-> q.cmd, arg |-> q.arg, data |-> None,
             state |-> "RUNNING"]

Complete(ret, state, data) == [ret EXCEPT !.state = state, !.data = data]

Terminal(ret) == ret.state # "RUNNING"

SameTransaction(ret, q) == ret.txid = q.txid /\ ret.cmd = q.cmd /\ ret.arg = q.arg

(* A repeated or a second side effect while a result is retained. *)
RetainedCode(ret, q) ==
  CASE SameTransaction(ret, q) -> "OK"
    [] ret.txid = q.txid /\ ~SameTransaction(ret, q) -> "TRANSACTION_CONFLICT"
    [] OTHER -> "RESULT_PENDING"

Answer(code) == reply' = code

(* The supervisor may move its nets at any time. *)
Nets == /\ secure' \in BOOLEAN /\ fatal' \in BOOLEAN /\ zeroizeN' \in BOOLEAN
        /\ nets' # nets
=============================================================================
