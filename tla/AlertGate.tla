----------------------------- MODULE AlertGate -----------------------------
(***************************************************************************)
(* What one watch rule promises its owner, with no word of prices:         *)
(*                                                                         *)
(*   - a gate must be open for an alert to pass, and an alert shuts it, so *)
(*     two alerts never come without the gate having been opened between;  *)
(*   - two alerts are at least Cooldown apart;                             *)
(*   - the gate may also be shut without an alert (a crossing swallowed by *)
(*     the cooldown, a first observation nobody asked to hear of).         *)
(*                                                                         *)
(* README.md calls this "duplicate-notification protection with a state    *)
(* machine, 2% hysteresis, and cooldown".  AlertRule implements it, and so *)
(* does every rule of Monitor, where several tasks apply snapshots to it.  *)
(* The time of an alert is that of the snapshot it was decided on, which   *)
(* may have waited for a place in the database.                            *)
(***************************************************************************)
EXTENDS Integers

CONSTANT Cooldown

VARIABLES
    open,     \* an alert may pass
    alerts,   \* how many have passed
    last,     \* the time of the latest of them
    clock

vars == <<open, alerts, last, clock>>

Init ==
    /\ open = TRUE
    /\ alerts = 0
    /\ last = 0
    /\ clock = 0

Open ==
    /\ ~open
    /\ open' = TRUE
    /\ UNCHANGED <<alerts, last, clock>>

Shut ==
    /\ open
    /\ open' = FALSE
    /\ UNCHANGED <<alerts, last, clock>>

Spaced(at) == alerts = 0 \/ at >= last + Cooldown

Alert(at) ==
    /\ open
    /\ Spaced(at)
    /\ open' = FALSE
    /\ alerts' = alerts + 1
    /\ last' = at
    /\ UNCHANGED clock

Tick ==
    /\ clock' = clock + 1
    /\ UNCHANGED <<open, alerts, last>>

Next == Open \/ Shut \/ Tick \/ \E at \in 0..clock : Alert(at)

Spec == Init /\ [][Next]_vars

=============================================================================
