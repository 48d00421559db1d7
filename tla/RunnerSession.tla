--------------------------- MODULE RunnerSession ----------------------------
(***************************************************************************)
(* What the runner of a ClusterSynchro promises about its handler          *)
(* sessions (spec section 4.6), with health, the lock and the synchros     *)
(* abstracted away:                                                        *)
(*                                                                         *)
(*   phase    Idle (waiting for startRunnerCh), Starting (the locked       *)
(*            section that starts discovery and the synchros), Serving     *)
(*            (waiting on handlerStopCh)                                   *)
(*   handler  the number of handlerStopCh channels made so far             *)
(*   open     the current handlerStopCh exists and is not closed           *)
(*                                                                         *)
(* A session opens a fresh handlerStopCh only when no earlier one is still *)
(* open, the channel is closed at most once and only during its session,  *)
(* and the runner leaves a session only after the channel is closed.      *)
(***************************************************************************)
EXTENDS Naturals, TLAPS

VARIABLES phase, handler, open

sessionVars == <<phase, handler, open>>

Init ==
    /\ phase = "Idle"
    /\ handler = 0
    /\ open = FALSE

(* Lock; handlerStopCh = make(...); go the goroutine that closes it. *)
Begin ==
    /\ phase = "Idle" /\ ~open
    /\ phase' = "Starting"
    /\ handler' = handler + 1
    /\ open' = TRUE

(* Discovery and every synchro are started; Unlock. *)
Started ==
    /\ phase = "Starting"
    /\ phase' = "Serving"
    /\ UNCHANGED <<handler, open>>

(* close(handlerStopCh), once, while its session lasts. *)
Close ==
    /\ phase \in {"Starting", "Serving"} /\ open
    /\ open' = FALSE
    /\ UNCHANGED <<phase, handler>>

(* <-handlerStopCh has returned. *)
Stopped ==
    /\ phase = "Serving" /\ ~open
    /\ phase' = "Idle"
    /\ UNCHANGED <<handler, open>>

Next == Begin \/ Started \/ Close \/ Stopped

Spec == Init /\ [][Next]_sessionVars

(* What the sessions guarantee: outside a session no handlerStopCh is     *)
(* open, and an open one has been made.                                    *)
SessionSafety ==
    /\ handler \in Nat
    /\ phase = "Idle" => ~open
    /\ open => handler >= 1

(* Every behaviour of the sessions keeps SessionSafety; it is inductive.   *)
THEOREM SessionSafe == Spec => []SessionSafety
<1>1. Init => SessionSafety
    BY DEF Init, SessionSafety
<1>2. SessionSafety /\ [Next]_sessionVars => SessionSafety'
    BY DEF SessionSafety, Next, Begin, Started, Close, Stopped, sessionVars
<1>3. QED
    BY <1>1, <1>2, PTL DEF Spec

=============================================================================
