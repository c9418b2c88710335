-------------------------- MODULE AlertRuleProofs --------------------------
(***************************************************************************)
(* What AlertRule promises, for every threshold, margin, cooldown and set  *)
(* of prices.  The inductive invariant says how the state of the rule, the *)
(* alerts already made and what the rule was shown since belong together.  *)
(***************************************************************************)
EXTENDS AlertRule, TLAPS

Inputs == Prices \cup {None}

\* The row remembers the time of the last alert it made.
TimeRemembered ==
    IF notifications = << >>
    THEN rule.last_triggered_at = None
    ELSE rule.last_triggered_at = notifications[Len(notifications)]

\* Once a rule has alerted, every state that can lead to another alert was
\* reached by something that earns it.
StateEarned ==
    notifications # << >> =>
        /\ rule.current_state = "unknown" => "resume" \in since
        /\ rule.current_state = "no_listings" => "gap" \in since
        /\ rule.current_state = Miss(rule.condition) => Earned

\* A price past the margin, shown last, leaves the rule armed.
MarginArms ==
    shown = [kind |-> "margin", gap |-> FALSE]
        => rule.current_state = Miss(rule.condition)

Inv == TypeOK /\ TimeRemembered /\ StateEarned /\ MarginArms

-----------------------------------------------------------------------------
\* evaluate_threshold returns a state and whether it triggered.
LEMMA EvaluateType ==
    ASSUME NEW r \in RuleType, NEW price \in Inputs, NEW now \in Nat,
           NEW notifyInitial \in BOOLEAN
    PROVE  Evaluate(r, price, now, notifyInitial) \in
               [state : RuleStates \ {"unknown"}, triggered : BOOLEAN]
<1> DEFINE e == Evaluate(r, price, now, notifyInitial)
<1> r.condition \in Conditions /\ r.current_state \in RuleStates
  BY DEF RuleType
<1>1. CASE price = None
  BY <1>1 DEF Evaluate, Evaluation, RuleStates
<1>2. CASE price # None
  <2> DEFINE c == r.condition
             matched == Matches(c, r.threshold, price)
             ready == CooldownReady(r.last_triggered_at, now, r.cooldown_seconds)
  <2>1. matched \in BOOLEAN /\ ready \in BOOLEAN
    BY DEF Matches, CooldownReady
  <2>2. Hit(c) \in RuleStates \ {"unknown"} /\ Miss(c) \in RuleStates \ {"unknown"}
    BY DEF Hit, Miss, RuleStates
  <2> HIDE DEF matched, ready
  <2>3. CASE r.current_state = "unknown"
    BY <1>2, <2>1, <2>2, <2>3 DEF Evaluate, Evaluation, matched, ready, Hit, Miss, Conditions
  <2>4. CASE r.current_state # "unknown"
    BY <1>2, <2>1, <2>2, <2>4 DEF Evaluate, Evaluation, matched, ready, Hit, Miss, Conditions
  <2> QED BY <2>3, <2>4
<1> QED BY <1>1, <1>2

\* An alert comes from a price on the watched side, to a rule that was armed
\* (or new, and asked to tell), after the cooldown, and spends the rule.
LEMMA EvaluateTriggers ==
    ASSUME NEW r \in RuleType, NEW price \in Inputs, NEW now \in Nat,
           NEW notifyInitial \in BOOLEAN,
           Evaluate(r, price, now, notifyInitial).triggered
    PROVE  /\ price # None
           /\ CooldownReady(r.last_triggered_at, now, r.cooldown_seconds)
           /\ r.current_state \in {"unknown", Miss(r.condition)}
           /\ Evaluate(r, price, now, notifyInitial).state = Hit(r.condition)
<1> r.condition \in Conditions /\ r.current_state \in RuleStates
  BY DEF RuleType
<1>1. price # None
  BY DEF Evaluate, Evaluation
<1> QED BY <1>1 DEF Evaluate, Evaluation, Hit, Miss, Conditions, RuleStates

\* The margin lies beyond the threshold: a price past it is no match.
LEMMA MarginIsOff ==
    ASSUME NEW r \in RuleType, NEW price \in Int,
           PastMargin(r.condition, Threshold, Hysteresis, price)
    PROVE  ~Matches(r.condition, Threshold, price)
<1> Threshold \in Nat /\ Hysteresis \in Nat
  BY ParametersAssumption
<1>1. Threshold * Hysteresis >= 0
  OBVIOUS
<1>2. /\ Threshold * (100 + Hysteresis) = 100 * Threshold + Threshold * Hysteresis
      /\ Threshold * (100 - Hysteresis) = 100 * Threshold - Threshold * Hysteresis
  OBVIOUS
<1> DEFINE th == Threshold * Hysteresis
<1>3. th \in Int
  OBVIOUS
<1> HIDE DEF th
<1>4. CASE r.condition = "price_down"
  BY <1>1, <1>2, <1>3, <1>4 DEF PastMargin, Matches, th
<1>5. CASE r.condition = "price_up"
  BY <1>1, <1>2, <1>3, <1>5 DEF PastMargin, Matches, th
<1> QED BY <1>4, <1>5 DEF RuleType, Conditions

\* A rule is armed by staying armed, by a price off the watched side when it
\* knew of none, or by a price past the margin; never by a match.
LEMMA EvaluateArms ==
    ASSUME NEW r \in RuleType, NEW price \in Inputs, NEW now \in Nat,
           NEW notifyInitial \in BOOLEAN,
           Evaluate(r, price, now, notifyInitial).state = Miss(r.condition)
    PROVE  /\ price \in Prices
           /\ ~Matches(r.condition, Threshold, price)
           /\ \/ r.current_state \in {"unknown", "no_listings", Miss(r.condition)}
              \/ PastMargin(r.condition, Threshold, Hysteresis, price)
<1> /\ r.condition \in Conditions /\ r.current_state \in RuleStates
    /\ r.threshold = Threshold /\ r.hysteresis_percent = Hysteresis
  BY DEF RuleType
<1>1. price # None
  BY DEF Evaluate, Evaluation, Miss, Conditions
<1>2. price \in Prices /\ price \in Int
  BY <1>1, ParametersAssumption DEF Inputs
<1>3. CASE r.current_state = Hit(r.condition)
  <2>1. PastMargin(r.condition, Threshold, Hysteresis, price)
    BY <1>1, <1>3 DEF Evaluate, Evaluation, Hit, Miss, Conditions
  <2> QED BY <1>2, <2>1, MarginIsOff
<1>4. CASE r.current_state # Hit(r.condition)
  <2>1. ~Matches(r.condition, Threshold, price)
    BY <1>1, <1>4 DEF Evaluate, Evaluation, Hit, Miss, Conditions, RuleStates
  <2> QED BY <1>2, <1>4, <2>1 DEF Hit, Miss, Conditions, RuleStates
<1> QED BY <1>3, <1>4

\* A listing that is there is never recorded as missing, and the other way.
LEMMA EvaluateGap ==
    ASSUME NEW r \in RuleType, NEW price \in Inputs, NEW now \in Nat,
           NEW notifyInitial \in BOOLEAN
    PROVE  Evaluate(r, price, now, notifyInitial).state = "no_listings" <=> price = None
<1> r.condition \in Conditions /\ r.current_state \in RuleStates
  BY DEF RuleType
<1>1. CASE price = None
  BY <1>1 DEF Evaluate, Evaluation
<1>2. CASE price # None
  BY <1>2 DEF Evaluate, Evaluation, Hit, Miss, Conditions, RuleStates
<1> QED BY <1>1, <1>2

\* A price past the margin arms every rule.
LEMMA EvaluateMargin ==
    ASSUME NEW r \in RuleType, NEW price \in Prices, NEW now \in Nat,
           NEW notifyInitial \in BOOLEAN,
           PastMargin(r.condition, Threshold, Hysteresis, price)
    PROVE  Evaluate(r, price, now, notifyInitial).state = Miss(r.condition)
<1> /\ r.condition \in Conditions /\ r.current_state \in RuleStates
    /\ r.threshold = Threshold /\ r.hysteresis_percent = Hysteresis
  BY DEF RuleType
<1>1. price \in Int /\ price # None
  BY ParametersAssumption, NoneAssumption
<1>2. ~Matches(r.condition, Threshold, price)
  BY <1>1, MarginIsOff
<1> QED BY <1>1, <1>2 DEF Evaluate, Evaluation, Hit, Miss, Conditions, RuleStates

-----------------------------------------------------------------------------
\* The columns process leaves alone, and the two it sets.
LEMMA EvaluatedType ==
    ASSUME NEW r \in RuleType, NEW price \in Inputs, NEW now \in Nat,
           NEW notifyInitial \in BOOLEAN
    PROVE  LET e == Evaluate(r, price, now, notifyInitial)
           IN  /\ Evaluated(r, e, now) \in RuleType
               /\ Evaluated(r, e, now).condition = r.condition
               /\ Evaluated(r, e, now).current_state = e.state
               /\ Evaluated(r, e, now).last_triggered_at =
                      IF e.triggered THEN now ELSE r.last_triggered_at
<1> DEFINE e == Evaluate(r, price, now, notifyInitial)
<1>1. e \in [state : RuleStates \ {"unknown"}, triggered : BOOLEAN]
  BY EvaluateType
<1> HIDE DEF e
<1> QED BY <1>1 DEF Evaluated, RuleType, e

\* The inductive invariant holds initially ...
LEMMA InitInv == Init => Inv
<1> SUFFICES ASSUME Init PROVE Inv
  OBVIOUS
<1>1. PICK condition \in Conditions : rule = NewRule(condition)
  BY DEF Init
<1>2. rule \in RuleType
  BY <1>1 DEF NewRule, RuleType, RuleStates
<1>3. TypeOK
  BY <1>2 DEF Init, TypeOK, ShownNothing, ShownKinds, Kinds
<1> QED BY <1>1, <1>3 DEF Init, Inv, TimeRemembered, StateEarned, MarginArms, NewRule,
                          ShownNothing

\* ... is kept by a snapshot ...
LEMMA ProcessInv ==
    ASSUME Inv, NEW price \in Inputs, NEW notifyInitial \in BOOLEAN,
           Process(price, notifyInitial)
    PROVE  Inv'
<1> DEFINE e == Evaluate(rule, price, clock, notifyInitial)
<1> /\ rule \in RuleType /\ clock \in Nat /\ notifications \in Seq(Nat)
    /\ since \subseteq Kinds /\ shown \in ShownKinds /\ initial \in BOOLEAN
  BY DEF Inv, TypeOK
<1>1. CASE ~rule.enabled
  <2> UNCHANGED <<rule, notifications, since, shown, clock>> /\ initial' \in BOOLEAN
    BY <1>1 DEF Process
  <2> QED BY DEF Inv, TypeOK, TimeRemembered, StateEarned, MarginArms, Earned
<1>2. CASE rule.enabled
  <2>1. /\ rule' = Evaluated(rule, e, clock)
        /\ notifications' = IF e.triggered THEN Append(notifications, clock)
                            ELSE notifications
        /\ since' = IF e.triggered THEN {} ELSE since \cup {Kind(price)}
        /\ shown' = ShownAfter(price)
        /\ clock' = clock
        /\ initial' \in BOOLEAN
    BY <1>2 DEF Process
  <2>2. e \in [state : RuleStates \ {"unknown"}, triggered : BOOLEAN]
    BY EvaluateType
  <2>3. /\ rule' \in RuleType
        /\ rule'.condition = rule.condition
        /\ rule'.current_state = e.state
        /\ rule'.last_triggered_at = IF e.triggered THEN clock
                                     ELSE rule.last_triggered_at
    BY <2>1, EvaluatedType
  <2>4. Kind(price) \in {"gap", "match", "margin", "band"}
    BY DEF Kind
  <2>5. TypeOK'
    <3>1. notifications' \in Seq(Nat)
      BY <2>1
    <3>2. since' \subseteq Kinds
      BY <2>1, <2>4 DEF Kinds
    <3>3. price # None => Kind(price) # "gap"
      BY DEF Kind
    <3>4. shown' \in ShownKinds
      BY <2>1, <2>4, <3>3 DEF ShownAfter, ShownKinds
    <3> QED BY <2>1, <2>3, <3>1, <3>2, <3>4 DEF TypeOK
  <2>6. TimeRemembered'
    BY <2>1, <2>2, <2>3 DEF Inv, TimeRemembered
  <2>7. StateEarned'
    <3>1. CASE e.triggered
      <4>1. e.state = Hit(rule.condition)
        BY <3>1, EvaluateTriggers
      <4> QED BY <2>3, <4>1 DEF StateEarned, Hit, Miss
    <3>2. CASE ~e.triggered
      <4> SUFFICES ASSUME notifications # << >>
                   PROVE  /\ e.state # "unknown"
                          /\ e.state = "no_listings" => "gap" \in since'
                          /\ e.state = Miss(rule.condition) => Earned'
        BY <2>1, <2>3, <3>2 DEF StateEarned
      <4>1. e.state = "no_listings" => Kind(price) = "gap"
        BY EvaluateGap DEF Kind
      <4>2. ASSUME e.state = Miss(rule.condition)
            PROVE  Earned'
        <5>1. /\ price \in Prices
              /\ ~Matches(rule.condition, Threshold, price)
              /\ \/ rule.current_state \in {"unknown", "no_listings", Miss(rule.condition)}
                 \/ PastMargin(rule.condition, Threshold, Hysteresis, price)
          BY <4>2, EvaluateArms
        <5>2. price # None
          BY <5>1, ParametersAssumption, NoneAssumption
        <5>3. Kind(price) \in {"margin", "band"}
          BY <5>1, <5>2 DEF Kind
        <5>4. CASE PastMargin(rule.condition, Threshold, Hysteresis, price)
          BY <2>1, <3>2, <5>1, <5>2, <5>4 DEF Kind, Earned
        <5>5. CASE rule.current_state \in {"unknown", "no_listings", Miss(rule.condition)}
          BY <2>1, <3>2, <5>3, <5>5 DEF Inv, StateEarned, Earned
        <5> QED BY <5>1, <5>4, <5>5
      <4> QED BY <2>1, <2>2, <3>2, <4>1, <4>2
    <3> QED BY <2>2, <3>1, <3>2
  <2>8. MarginArms'
    <3> SUFFICES ASSUME shown' = [kind |-> "margin", gap |-> FALSE]
                 PROVE  e.state = Miss(rule.condition)
      BY <2>3 DEF MarginArms
    <3>1. price # None /\ Kind(price) = "margin"
      BY <2>1 DEF ShownAfter, ShownKinds
    <3>2. PastMargin(rule.condition, Threshold, Hysteresis, price)
      BY <3>1 DEF Kind
    <3> QED BY <3>1, <3>2, EvaluateMargin DEF Inputs
  <2> QED BY <2>5, <2>6, <2>7, <2>8 DEF Inv
<1> QED BY <1>1, <1>2 DEF RuleType

\* ... and by every other step.
LEMMA NextInv == Inv /\ [Next]_vars => Inv'
<1> SUFFICES ASSUME Inv, [Next]_vars PROVE Inv'
  OBVIOUS
<1> USE DEF Inv, TypeOK, TimeRemembered, StateEarned, MarginArms, Earned
<1>1. ASSUME NEW price \in Inputs, NEW notifyInitial \in BOOLEAN,
             Process(price, notifyInitial)
      PROVE  Inv'
  BY <1>1, ProcessInv
<1>2. CASE Pause
  BY <1>2 DEF Pause, RuleType
<1>3. CASE Resume
  <2>1. rule' \in RuleType /\ rule'.current_state = "unknown"
    BY <1>3 DEF Resume, Resumed, RuleType, RuleStates
  <2>2. rule'.last_triggered_at = rule.last_triggered_at /\ rule'.condition = rule.condition
    BY <1>3 DEF Resume, Resumed, RuleType
  <2> QED BY <1>3, <2>1, <2>2 DEF Resume, ShownNothing, ShownKinds, Kinds, Miss
<1>4. CASE Tick
  BY <1>4 DEF Tick
<1>5. CASE UNCHANGED vars
  BY <1>5 DEF vars
<1> QED BY <1>1, <1>2, <1>3, <1>4, <1>5 DEF Next, Inputs

\* Types, the memory of the last alert and the reasons to alert again are
\* kept by every behaviour.
THEOREM Invariance == Spec => []Inv
BY InitInv, NextInv, PTL DEF Spec

\* models.py: every column of the rule keeps its type.
THEOREM TypeCorrect == Spec => []TypeOK
<1>1. Inv => TypeOK
  BY DEF Inv
<1> QED BY <1>1, Invariance, PTL

-----------------------------------------------------------------------------
\* Only a snapshot makes an alert, and then what it met is what AlertGate asks.
LEMMA AlertedStep ==
    ASSUME Inv, [Next]_vars, notifications' # notifications
    PROVE  /\ notifications' = Append(notifications, clock)
           /\ rule.current_state \in {"unknown", Miss(rule.condition)}
           /\ rule'.current_state = Hit(rule.condition)
           /\ rule'.condition = rule.condition
           /\ CooldownReady(rule.last_triggered_at, clock, Cooldown)
           /\ clock' = clock
<1>1. PICK price \in Inputs, notifyInitial \in BOOLEAN : Process(price, notifyInitial)
  BY DEF Next, Inputs, Pause, Resume, Tick, vars
<1> DEFINE e == Evaluate(rule, price, clock, notifyInitial)
<1>2. rule \in RuleType /\ clock \in Nat
  BY DEF Inv, TypeOK
<1>3. /\ rule' = Evaluated(rule, e, clock)
      /\ notifications' = Append(notifications, clock)
      /\ e.triggered
      /\ clock' = clock
  BY <1>1 DEF Process
<1> HIDE DEF e
<1>4. /\ CooldownReady(rule.last_triggered_at, clock, rule.cooldown_seconds)
      /\ rule.current_state \in {"unknown", Miss(rule.condition)}
      /\ e.state = Hit(rule.condition)
  BY <1>2, <1>3, EvaluateTriggers DEF e
<1>5. rule'.current_state = e.state /\ rule'.condition = rule.condition
  BY <1>2, <1>3, EvaluatedType DEF e
<1>6. rule.cooldown_seconds = Cooldown
  BY <1>2 DEF RuleType
<1> QED BY <1>3, <1>4, <1>5, <1>6

\* A second alert is always earned: whatever prices the auction shows, and
\* whenever the rule is paused and resumed.
THEOREM RepeatsAreEarned == Spec => RepeatIsEarned
<1>1. ASSUME Inv, [Next]_vars
      PROVE  [Alerted /\ notifications # << >> => Earned]_vars
  <2> SUFFICES ASSUME Alerted, notifications # << >>, ~(UNCHANGED vars)
               PROVE  Earned
    OBVIOUS
  <2>1. rule.current_state \in {"unknown", Miss(rule.condition)}
    BY <1>1, AlertedStep DEF Alerted
  <2> QED BY <1>1, <2>1 DEF Inv, StateEarned, Earned
<1> QED BY <1>1, Invariance, PTL DEF Spec, RepeatIsEarned

\* A price past the margin followed by a match makes an alert, for every
\* margin, once the cooldown is over.
THEOREM PlainCrossingsAlert == Spec => PlainCrossingAlerts
<1> DEFINE Plain == /\ shown = [kind |-> "margin", gap |-> FALSE]
                    /\ ShownMatch
                    /\ CooldownOver
                    => Alerted
<1>1. ASSUME Inv, [Next]_vars
      PROVE  [Plain]_vars
  <2> SUFFICES ASSUME shown = [kind |-> "margin", gap |-> FALSE],
                      shown' = [kind |-> "match", gap |-> FALSE],
                      CooldownOver
               PROVE  Alerted
    BY DEF ShownMatch
  <2>1. PICK price \in Inputs, notifyInitial \in BOOLEAN : Process(price, notifyInitial)
    BY <1>1 DEF Next, Inputs, Pause, Resume, Tick, vars, ShownNothing
  <2> DEFINE e == Evaluate(rule, price, clock, notifyInitial)
  <2>2. rule \in RuleType /\ clock \in Nat /\ notifications \in Seq(Nat)
    BY <1>1 DEF Inv, TypeOK
  <2>3. /\ notifications' = IF e.triggered THEN Append(notifications, clock)
                            ELSE notifications
        /\ shown' = ShownAfter(price)
    BY <2>1 DEF Process
  <2>4. price # None /\ Kind(price) = "match"
    BY <2>3 DEF ShownAfter
  <2>5. Matches(rule.condition, Threshold, price)
    BY <2>4 DEF Kind
  <2>6. rule.current_state = Miss(rule.condition)
    BY <1>1 DEF Inv, MarginArms
  <2>7. CooldownReady(rule.last_triggered_at, clock, Cooldown)
    BY <1>1 DEF Inv, TimeRemembered, CooldownReady, CooldownOver
  <2>8. e.triggered
    <3> DEFINE ready == CooldownReady(rule.last_triggered_at, clock, Cooldown)
    <3>1. /\ rule.condition \in Conditions
          /\ rule.threshold = Threshold /\ rule.cooldown_seconds = Cooldown
      BY <2>2 DEF RuleType
    <3>2. rule.current_state \notin {"unknown", "no_listings"}
      BY <2>6 DEF Miss
    <3>3. e = [state |-> Hit(rule.condition), triggered |-> ready]
      BY <2>4, <2>5, <2>6, <3>1, <3>2 DEF Evaluate, Evaluation, Hit, Miss
    <3> HIDE DEF e, ready
    <3>4. e.triggered = ready
      BY <3>3
    <3> QED BY <2>7, <3>4 DEF ready
  <2> QED BY <2>2, <2>3, <2>8 DEF Alerted
<1> QED BY <1>1, Invariance, PTL DEF Spec, PlainCrossingAlerts

\* The rule implements the gate: at most one alert for each time it is armed,
\* and alerts at least a cooldown apart.
THEOREM RuleImplementsGate == Spec => GateSpec
<1>1. Init => Gate!Init
  BY DEF Init, Gate!Init, NewRule
<1>2. ASSUME Inv, [Next]_vars
      PROVE  [Gate!Next]_(Gate!vars)
  <2>1. CASE notifications' # notifications
    <3>1. /\ notifications' = Append(notifications, clock)
          /\ rule.current_state \in {"unknown", Miss(rule.condition)}
          /\ rule'.current_state = Hit(rule.condition)
          /\ rule'.condition = rule.condition
          /\ CooldownReady(rule.last_triggered_at, clock, Cooldown)
          /\ clock' = clock
      BY <1>2, <2>1, AlertedStep
    <3>2. ~(rule'.current_state \in {"unknown", Miss(rule'.condition)})
      BY <3>1 DEF Hit, Miss
    <3>3. notifications \in Seq(Nat) /\ clock \in 0..clock
      BY <1>2 DEF Inv, TypeOK
    <3>4. /\ Len(notifications') = Len(notifications) + 1
          /\ notifications' # << >>
          /\ notifications'[Len(notifications')] = clock
      BY <3>1, <3>3
    <3>5. Gate!Spaced(clock)
      <4>1. CASE notifications = << >>
        BY <4>1 DEF Gate!Spaced
      <4>2. CASE notifications # << >>
        BY <1>2, <3>1, <4>2, NoneAssumption
           DEF Gate!Spaced, Inv, TypeOK, TimeRemembered, CooldownReady
      <4> QED BY <4>1, <4>2
    <3>6. Gate!Alert(clock)
      BY <3>1, <3>2, <3>4, <3>5 DEF Gate!Alert
    <3> QED BY <3>3, <3>6 DEF Gate!Next
  <2>2. CASE notifications' = notifications
    <3>1. CASE Tick
      BY <3>1 DEF Tick, Gate!Next, Gate!Tick
    <3>2. CASE ~Tick
      <4>1. clock' = clock
        BY <1>2, <3>2 DEF Next, Process, Pause, Resume, vars
      <4> QED BY <2>2, <4>1 DEF Gate!Next, Gate!Open, Gate!Shut, Gate!vars
    <3> QED BY <3>1, <3>2
  <2> QED BY <2>1, <2>2
<1> QED BY <1>1, <1>2, Invariance, PTL DEF Spec, GateSpec, Gate!Spec

=============================================================================
