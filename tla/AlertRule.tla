----------------------------- MODULE AlertRule -----------------------------
(***************************************************************************)
(* One row of watch_rules over its life, with the snapshots applied to it  *)
(* in order, one at a time: /watch add creates it, the first snapshot of   *)
(* /watch add and every poll run RuleProcessor.process on it, and the      *)
(* owner pauses and resumes it.  What happens when two of these overlap is *)
(* the subject of Monitor; here is what the state machine itself does.     *)
(***************************************************************************)
EXTENDS Evaluator, Sequences

CONSTANTS
    Threshold, Hysteresis, Cooldown,
    Prices,     \* the listed prices an auction may show
    MaxTime     \* bound on the clock, for model checking

ASSUME ParametersAssumption ==
    /\ Threshold \in Nat
    /\ Hysteresis \in Nat
    /\ Cooldown \in Nat
    /\ Prices \subseteq Int

VARIABLES
    rule,           \* the row: the columns the evaluation reads and writes
    notifications,  \* its rows of notifications, reduced to their times
    initial,        \* /watch add has yet to apply its own first snapshot
    clock,
    since,          \* history: what happened since the last alert
    shown           \* history: the last listed price, and what came after it

vars == <<rule, notifications, initial, clock, since, shown>>

(***************************************************************************)
(* History.  A reader of the alerts sees the prices the rule was shown; a  *)
(* listed price is a "match", past the rearming "margin", or in the "band" *)
(* between.  `since` collects, from one alert to the next, these kinds,    *)
(* "gap" (no listing at all) and "resume".  `shown` is the kind of the     *)
(* last listed price and whether a gap followed it; a rule just created or *)
(* resumed has been shown nothing.                                         *)
(***************************************************************************)
Kind(price) ==
    IF price = None THEN "gap"
    ELSE IF Matches(rule.condition, Threshold, price) THEN "match"
    ELSE IF PastMargin(rule.condition, Threshold, Hysteresis, price) THEN "margin"
    ELSE "band"

Kinds == {"match", "band", "margin", "gap", "resume"}

ShownKinds == [kind : {"nothing", "match", "band", "margin"}, gap : BOOLEAN]

ShownNothing == [kind |-> "nothing", gap |-> FALSE]

ShownAfter(price) ==
    IF price = None THEN [shown EXCEPT !.gap = TRUE]
    ELSE [kind |-> Kind(price), gap |-> FALSE]

-----------------------------------------------------------------------------
\* Mistakes the properties are meant to notice.

\* process forgets to store the time of the alert.
EvaluatedUntimed(r, evaluation, now) ==
    [r EXCEPT !.current_state = evaluation.state]

\* process keeps the old state of a rule that has just alerted.
EvaluatedUnspent(r, evaluation, now) ==
    [r EXCEPT !.current_state = IF evaluation.triggered THEN @ ELSE evaluation.state,
              !.last_triggered_at = IF evaluation.triggered THEN now ELSE @]

\* process stores what it found only when it alerts.
EvaluatedAlertsOnly(r, evaluation, now) ==
    IF evaluation.triggered
    THEN [r EXCEPT !.current_state = evaluation.state, !.last_triggered_at = now]
    ELSE r

\* The column current_state has no default.
NewRuleStateless(condition) ==
    [condition          |-> condition,
     threshold          |-> Threshold,
     hysteresis_percent |-> Hysteresis,
     cooldown_seconds   |-> Cooldown,
     enabled            |-> TRUE,
     current_state      |-> None,
     last_triggered_at  |-> None]

-----------------------------------------------------------------------------
\* WatchRuleRepository.create, with the column defaults of WatchRule.
NewRule(condition) ==
    [condition          |-> condition,
     threshold          |-> Threshold,
     hysteresis_percent |-> Hysteresis,
     cooldown_seconds   |-> Cooldown,
     enabled            |-> TRUE,
     current_state      |-> "unknown",
     last_triggered_at  |-> None]

\* The columns process writes back to the row after evaluating it.
Evaluated(r, evaluation, now) ==
    [r EXCEPT !.current_state = evaluation.state,
              !.last_triggered_at = IF evaluation.triggered THEN now ELSE @]

\* WatchRuleRepository.set_enabled(..., True): the state is forgotten, the
\* time of the last alert is not.
Resumed(r) == [r EXCEPT !.enabled = TRUE, !.current_state = "unknown"]

Init ==
    /\ \E condition \in Conditions : rule = NewRule(condition)
    /\ notifications = << >>
    /\ initial = TRUE
    /\ clock = 0
    /\ since = {}
    /\ shown = ShownNothing

(***************************************************************************)
(* RuleProcessor.process for this rule and one snapshot taken now.  The    *)
(* snapshot of /watch add, the only one that carries notify_initial_rule_id*)
(* for this rule, is applied once.  A paused rule is skipped.              *)
(***************************************************************************)
Process(price, notifyInitial) ==
    LET evaluation == Evaluate(rule, price, clock, notifyInitial)
    IN  /\ notifyInitial => initial
        /\ initial' = (initial /\ ~notifyInitial)
        /\ IF rule.enabled
           THEN /\ rule' = Evaluated(rule, evaluation, clock)
                /\ notifications' = IF evaluation.triggered
                                    THEN Append(notifications, clock)
                                    ELSE notifications
                /\ since' = IF evaluation.triggered THEN {}
                            ELSE since \cup {Kind(price)}
                /\ shown' = ShownAfter(price)
           ELSE UNCHANGED <<rule, notifications, since, shown>>
        /\ UNCHANGED clock

Pause ==
    /\ rule' = [rule EXCEPT !.enabled = FALSE]
    /\ UNCHANGED <<notifications, initial, clock, since, shown>>

Resume ==
    /\ rule' = Resumed(rule)
    /\ since' = since \cup {"resume"}
    /\ shown' = ShownNothing
    /\ UNCHANGED <<notifications, initial, clock>>

Tick ==
    /\ clock < MaxTime
    /\ clock' = clock + 1
    /\ UNCHANGED <<rule, notifications, initial, since, shown>>

Next ==
    \/ \E price \in Prices \cup {None}, notifyInitial \in BOOLEAN :
            Process(price, notifyInitial)
    \/ Pause
    \/ Resume
    \/ Tick

Spec == Init /\ [][Next]_vars

-----------------------------------------------------------------------------
RuleType ==
    [condition : Conditions, threshold : {Threshold},
     hysteresis_percent : {Hysteresis}, cooldown_seconds : {Cooldown},
     enabled : BOOLEAN, current_state : RuleStates,
     last_triggered_at : Nat \cup {None}]

\* Types of the row, its notifications and the history (models.py, WatchRule).
TypeOK ==
    /\ rule \in RuleType
    /\ notifications \in Seq(Nat)
    /\ initial \in BOOLEAN
    /\ clock \in Nat
    /\ since \subseteq Kinds
    /\ shown \in ShownKinds

Alerted == Len(notifications) # Len(notifications')

\* A reason to tell the owner again: the price left by more than the margin,
\* or the owner resumed the rule, or listings disappeared and the price was
\* then seen off the watched side.
Earned == {"margin", "resume"} \cap since # {} \/ {"gap", "band"} \subseteq since

(***************************************************************************)
(* An alert that is not the rule's first was earned since the one before:  *)
(* nothing process does with a price that merely wobbles around the        *)
(* threshold makes a second alert.                                         *)
(***************************************************************************)
RepeatIsEarned == [][Alerted /\ notifications # << >> => Earned]_vars

(***************************************************************************)
(* A crossing nobody can dispute is told: the last thing an enabled rule   *)
(* was shown is a price past the margin, the next is a match, and the      *)
(* cooldown of the last alert is over, so process makes an alert.          *)
(***************************************************************************)
CooldownOver ==
    notifications = << >> \/ clock >= notifications[Len(notifications)] + Cooldown

ShownMatch == shown' = [kind |-> "match", gap |-> FALSE]

PlainCrossingAlerts ==
    [][/\ shown = [kind |-> "margin", gap |-> FALSE]
       /\ ShownMatch
       /\ CooldownOver
       => Alerted]_vars

(***************************************************************************)
(* The promise of AlertGate: the gate is open while the state of the rule  *)
(* is one from which evaluate_threshold may trigger.                       *)
(***************************************************************************)
Gate == INSTANCE AlertGate WITH
            open   <- rule.current_state \in {"unknown", Miss(rule.condition)},
            alerts <- Len(notifications),
            last   <- IF notifications = << >> THEN 0
                      ELSE notifications[Len(notifications)]

GateSpec == Gate!Spec

=============================================================================
