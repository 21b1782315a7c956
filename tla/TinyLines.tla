----------------------------- MODULE TinyLines -----------------------------
(***************************************************************************)
(* What the supervisor promises the rest of the system, as its three output *)
(* lines only: a fault takes secure_enable away and requests zeroize in one *)
(* step, and the way back leads through the cleared fault, the released     *)
(* zeroize and a new enable, one after the other.  Supervisor implements    *)
(* it; TrinitySystem is built on it.                                        *)
(***************************************************************************)
VARIABLES
  fatal,      \* the latched fault
  zeroizeN,   \* zeroize_n, active low
  enable      \* secure_enable_o

lines == <<fatal, zeroizeN, enable>>

TinyInit == fatal = FALSE /\ zeroizeN = FALSE /\ enable = FALSE

(* A fatal request is latched. *)
Fault == fatal' = TRUE /\ zeroizeN' = FALSE /\ enable' = FALSE

(* The state register is corrupted: fail-safe outputs before the fault is   *)
(* latched.                                                                 *)
Disturbed == fatal' = fatal /\ zeroizeN' = FALSE /\ enable' = FALSE

(* Recovery clears the fault and starts over. *)
Cleared == fatal /\ ~zeroizeN /\ fatal' = FALSE /\ UNCHANGED <<zeroizeN, enable>>

(* The start-up zeroize ends. *)
Released == ~fatal /\ ~zeroizeN /\ zeroizeN' = TRUE /\ UNCHANGED <<fatal, enable>>

(* Every heartbeat has qualified. *)
Enabled == ~fatal /\ zeroizeN /\ ~enable /\ enable' = TRUE /\ UNCHANGED <<fatal, zeroizeN>>

TinyNext == Fault \/ Disturbed \/ Cleared \/ Released \/ Enabled

TinySpec == TinyInit /\ [][TinyNext]_lines
=============================================================================
