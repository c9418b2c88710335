----------------------------- MODULE Evaluator -----------------------------
(***************************************************************************)
(* The threshold state machine of domain/evaluator.py, as operators.       *)
(*                                                                         *)
(* A rule watches one item for a price at or below ("price_down") or at or *)
(* above ("price_up") its threshold.  The source spells the two conditions *)
(* out as two branches; they differ only in which side of the threshold is *)
(* the one watched for, so a side is computed from the condition here:     *)
(* Hit(c) is the state of a rule whose condition holds, Miss(c) the state  *)
(* of a rule whose condition does not.                                     *)
(*                                                                         *)
(* Prices are integers (Decimal in the source, compared exactly there too) *)
(* and the hysteresis is a percentage, so the comparisons with             *)
(* threshold * (1 +- hysteresis / 100) are multiplied out by 100.          *)
(***************************************************************************)
EXTENDS Integers

CONSTANT None   \* Python's None: no listing was found, or never triggered

ASSUME NoneAssumption == None \notin Int

Conditions == {"price_down", "price_up"}

RuleStates == {"unknown", "above_threshold", "below_threshold", "no_listings"}

Hit(condition) ==
    IF condition = "price_down" THEN "below_threshold" ELSE "above_threshold"

Miss(condition) ==
    IF condition = "price_down" THEN "above_threshold" ELSE "below_threshold"

\* The price is on the side the rule watches for, the threshold included.
Matches(condition, threshold, price) ==
    \/ condition = "price_down" /\ price <= threshold
    \/ condition = "price_up" /\ price >= threshold

\* The price is past rearm_price, hysteresis percent beyond the threshold.
PastMargin(condition, threshold, hysteresis, price) ==
    \/ condition = "price_down" /\ price * 100 > threshold * (100 + hysteresis)
    \/ condition = "price_up" /\ price * 100 < threshold * (100 - hysteresis)

CooldownReady(last, now, cooldown) == last = None \/ now >= last + cooldown

Evaluation(state, triggered) == [state |-> state, triggered |-> triggered]

(***************************************************************************)
(* evaluate_threshold.  `rule` carries the columns the source passes one   *)
(* by one.  The order of the tests is the order of the early returns.      *)
(***************************************************************************)
Evaluate(rule, price, now, notifyInitial) ==
    IF price = None THEN Evaluation("no_listings", FALSE)
    ELSE LET c       == rule.condition
             matched == Matches(c, rule.threshold, price)
             ready   == CooldownReady(rule.last_triggered_at, now,
                                      rule.cooldown_seconds)
             side    == IF matched THEN Hit(c) ELSE Miss(c)
         IN CASE rule.current_state = "unknown" ->
                     Evaluation(side, matched /\ notifyInitial /\ ready)
              [] rule.current_state = "no_listings" ->
                     Evaluation(side, FALSE)
              [] rule.current_state = Miss(c) /\ matched ->
                     Evaluation(Hit(c), ready)
              [] rule.current_state = Hit(c)
                 /\ PastMargin(c, rule.threshold, rule.hysteresis_percent, price) ->
                     Evaluation(Miss(c), FALSE)
              [] OTHER -> Evaluation(rule.current_state, FALSE)

=============================================================================
