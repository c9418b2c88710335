# A verification project for the DonutSMP Discord Monitor

TLA+ models of the bot in `src/`, the TLC runs that check them on small
instances, and proofs that TLAPS checks for every value of the constants.
Paths below are relative to the repository; `services.py` and its like are
under `src/donutsmp_bot/`.

The bot is one process with one event loop. Its users store an API token
(`/auth`), create rules ("tell me when a diamond costs at most 100"), and get a
direct message when a polled price crosses a threshold. A poll and a command
meet in three places: the limiter of their token, the rows of their user, and
the notifications of a rule. Nothing there is protected by more than the event
loop (between two awaits) and PostgreSQL at its default READ COMMITTED (between
two statements).

## 1. Inventory

| Part | State | Operations | What is hard | What makes it correct |
|---|---|---|---|---|
| Threshold state machine, `domain/evaluator.py` | none; the rule's `current_state`, `last_triggered_at` | `evaluate_threshold` | long sequences of prices, gaps, pauses; the edges of threshold and margin | no alert repeats without a reason; an undisputed crossing is told |
| Rate limiter, `infrastructure/rate_limiter.py` | per token: deque of times, `blocked_until`, `consecutive_errors` | `try_acquire`, `acquire`, `retry_after`, `block`, `record_*` | mixture of polls, commands and retries; edges of the window | window never overrun; reserve kept |
| HTTP client, `infrastructure/donut_api.py` | metrics; per call the attempt | `_request_page` (retry loop), `get_price` (page scan) | answers of concurrent calls on a token in any order; the auction moves between pages | the server's limit; Retry-After; the snapshot is the lowest price |
| Monitoring, `application/monitoring.py` | `_next_poll_at`, `_last_prune_at`, `_stopping` | `start`, `stop`, `run_forever`, `run_once`, `_poll_user`, `_invalidate_user` | user rows read at the start of a cycle and used seconds later; polls that sleep inside gather; failures of the prune, the selection, one poll | everyone polled again and again, within the budget; dead tokens found, told once, their rules paused; groups isolated; `stop` returns |
| Rule processing, `application/services.py` | tables | `RuleProcessor.process`, `_deliver` | crash between commit, DM and record; rules gone meanwhile | alerts a cooldown apart, delivered at most once, table truthful |
| Watch and auth services, `application/services.py` | tables | `add`, `delete`, `set_enabled`, `authenticate`, `logout` | check and write are separate statements; `add` has three transactions with an HTTP scan between | a failed add leaves nothing; nothing outlives its owner; a number means the rule it was read for |
| Repositories and models, `persistence/` | `users`, `watch_rules`, `price_observations`, `notifications` | one statement or a few each | lost updates by the ORM's net changes; cascades; row locks taken in different orders | see above; who can be in a deadlock |
| Discord UI, `presentation/discord_ui.py` | views: the ids behind the buttons of alerts | `/watch add`, `list`, `pause`, `resume`, `delete`, the buttons, `/auth`, `/logout` | numbers and buttons that are old when used | a command or button acts on its own rule or on none; what is said is what was done |
| Lifecycle, `presentation/bot.py`, `main.py` | the monitoring task | `setup_hook`, `close` | closing while polls run | `close` returns, after the last poll |
| Configuration, encryption, logging, icons, migrations, health check | none | constants, pictures, DDL | — | not modelled, section 8 |

## 2. Modules

```
Evaluator <---- AlertRule  --implements-->  AlertGate
    ^               ^-- AlertRuleProofs         ^
    |                                           |
    +---------- Monitor  --each rule implements-+
                    ^-- MonitorProofs <-- MonitorSafetyProofs

RateLimiter <-- DonutClient <-- DonutClientProofs

Scheduler <-- SchedulerProofs      RowLocks <-- RowLocksProofs
RuleNumbers <-- RuleNumbersProofs  PriceSearch <-- PriceSearchProofs
```

The modules without a line between them divide the code by question. `Monitor`
is the tables and who writes them, `RowLocks` the same transactions as nothing
but locks, `Scheduler` the same polls as nothing but time, `RuleNumbers` the
same commands as nothing but the choice of a row.

* **Evaluator** — `evaluate_threshold` as an operator `Evaluate`. The source
  writes the two conditions as two mirrored branches; `Hit`, `Miss`, `Matches`
  and `PastMargin` are the four things in which the branches differ. Prices are
  integers and `threshold * (1 +- hysteresis/100)` is multiplied out, which is
  exact as `Decimal` is there.
* **AlertRule** — one row of `watch_rules` over its life, snapshots applied one
  at a time. `Process` is `RuleProcessor.process`, `Pause` and `Resume` are
  `set_enabled`. The histories `since` (kinds of what was seen since the last
  alert) and `shown` (the last listed price) let properties speak of the past.
* **AlertGate** — what a rule promises, with no word of prices. `AlertRule`
  implements it with `open` mapped to "the state is one `evaluate_threshold`
  may trigger from". In `Monitor`, where the poll, the first check, commands and
  faults meet at the row, each rule implements it on its own (`Gate(id)`): the
  alerts of the rule among all notifications are counted, and the latest of them
  is the gate's `last`.
* **RateLimiter** — `PerTokenRateLimiter` for one token: keys share nothing.
  No method awaits while it holds the state, so each call is one action:
  `Admit`/`Refuse` (`try_acquire` and, when it fails, `retry_after`), `Query`
  (`remaining`, `budget_reset_at`), `RateLimited` (`block`), `TransientError`,
  `Success`. The clock ticks between calls. `Restart` is the process started
  anew: the limiter remembers nothing, and the history says of each request in
  which `life` of the process it was made.
* **DonutClient** — `_request_page` for several tasks on that token; extends
  `RateLimiter` and uses its actions. A task is acquiring, sent or backing off;
  the answers are `Succeed`, `Reject` (401, 403, other 4xx, bad bodies),
  `TooManyRequests`, and `Fail`/`GiveUp` (5xx, timeout, connection error before
  and on the last attempt). `ClientRestart` ends every call with the process.
  `asked`, `lifted`, `barred` and `eased` are histories: what the last 429s
  asked for, whether a 200 has come since, whom a block (and no full window)
  refused last, and which of these slept in `acquire` when a 200 came.
* **PriceSearch** — `get_price`: the auction is a set of listings ordered by
  price and cut into pages; `ReadPage` is one turn of the loop; `Offer` and
  `Sell` happen between turns.
* **Scheduler** — when the coordinator polls whom. `pc` walks through
  `run_forever` and `run_once`; a poll of a user is listed, asks for its groups,
  may be made to sleep (`Delay`: the wait of `acquire`, a Retry-After, a
  backoff), and ends in one of its ways. Every moment the code stores
  (`_next_poll_at`, `_last_prune_at` + a day, the end of the pause) is kept as
  the time left to it, so that nothing grows; the unit is 1/`safe_requests_per_minute`
  of a second, in which a request's share of the budget is 60 units and
  `calculate_poll_interval` is exact in whole numbers.
* **RowLocks** — each transaction as the set of row locks its statements take,
  and `Place`, the order in which they come to them. A statement that finds a
  row free for it takes it (`Take`); else it sleeps (`Wait`), and all is released
  at the end (`Finish`). The modes, their conflicts and the queue of a row are
  PostgreSQL's (external): the first to wait for a row holds its tuple lock
  (`first`) and waits for those that hold the row (`Grant`); who comes later waits
  for that first one (`Lead`), even after the row itself has become free, so a
  task that holds nothing can stand between two others. In the queue for the
  tuple lock PostgreSQL's deadlock detector changes the order instead of ending
  anyone, so those behind do not block each other; one that is overtaken is one
  that asked later.
* **RuleNumbers** — the interactions of one user with his rules. A number is
  the count of rules up to an id; a task remembers which id its number was read
  for (`meant`) and whether a rule at or below came or went since (`moved`).
  `name` is a history: the n-th rule ever added has the name n, whatever id it
  got.
* **Monitor** — the tables and the tasks. `job` holds, for each user, its poll
  and its `/watch add`, with what that task has read; `auth` and `cmd` the
  commands in between their read and their write. The table below maps actions
  to code.

| Action of Monitor | Code |
|---|---|
| `StartCycle` | `run_forever`, `run_once` 80–89 and the start of `_poll_user`: users are read once; no cycle starts while a poll of the last one runs (`gather`) |
| `FetchOk`, `FetchFails`, `FetchRejected` | the outcomes of `get_price` in `_poll_user` 120–139 and in `add` 263–274 |
| `Process` | the transaction of `process`; one step, see below |
| `Deliver`, `Record` | `send_alert` and the transaction after it in `_deliver`, alert by alert. Discord takes the DM, refuses it, or takes it and the answer is lost; the last two raise, and the code marks the row failed for both |
| `Invalidate`, `ReauthDm` | `_invalidate_user` |
| `AddBegin`, `AddInsert`, `Discard` | `WatchService.add`: the check of the user; the INSERT; the DELETE after a failed check |
| `AuthRead`, `AuthWrite` | `save_valid_token`: `get`, then the flush |
| `Logout` | DELETE of the user with its cascades |
| `CmdBegin`, `CmdCommit` | `_require_valid_user`, then the UPDATE or DELETE |
| `TaskError`, `Crash` | a transaction that raises; the process ending at any point |
| `Revoke`, `Tick` | DonutSMP and time |

| Action of Scheduler | Code |
|---|---|
| `Start`, `Close`, `Closed` | `setup_hook` and `start`; `close` calling `stop`; `stop` returning and the client and database being closed |
| `BeginCycle`, `EndLoop`, `Resume` | `while not _stopping.is_set()`, the clock read at 74, `wait_for(_stopping.wait(), 1)` |
| `Prune`, `CycleFails`, `Select` | `run_once` 75–89; an exception of the prune or the query, caught at 66. Only a prune that succeeded sets `_last_prune_at` |
| `StartPoll`, `Delay`, `Answer`, `Refused`, `PollFails`, `PollEnds` | `_poll_user` 100–152, the sleep of `acquire`, the exceptions gather keeps |
| `GatherEnds` | `gather(..., return_exceptions=True)` 86–98 |
| `Watch`, `Kill`, `Tick` | commands that change the user's groups, the death of the process, time |

| Action of RuleNumbers | Code |
|---|---|
| `Flush`, `Number`, `Commit` | `WatchService.add` 244–261: INSERT, `_find_displayed_rule`, COMMIT |
| `Created`, `Discard` | the reply of `/watch add`; the DELETE after a failed check |
| `Issue` | `/watch list` and `rule_autocomplete` |
| `Resolve`, `Write` | `delete` and `set_enabled` of `WatchService`: the translation of the number, then the UPDATE or DELETE and the reply |
| `Alert`, `Press` | `send_alert` with its `AlertActionsView`; its buttons |
| `Fail`, `Restart` | an exception before the commit; the views are not registered again |
| `Authenticate`, `Invalidate`, `Logout` | the status of the user, and the rows that go with him |

Of each user there is at most one poll (as in the code), one `/watch add`, one
`/auth` and one rule command under way at a time; the code lets a user start the
same command twice at once, which Monitor leaves out and RuleNumbers and
RowLocks have. A `/auth` whose token
the API refuses and a command that finds the user not valid change nothing and
are no action.

Where a transaction is one action although it has several statements, nothing
can come between them that matters: in `process` the INSERT of the observation
fails if the owner is gone and otherwise holds the owner's row (foreign key)
until the commit, and each rule is read by a `SELECT ... FOR UPDATE` of its
own, fresh since the objects of `list_for_user` are not kept. Where it is two
actions, another transaction can commit between the statements: `add` and
`set_enabled` read the user without a lock, and `save_valid_token` reads a row
and flushes only the columns that differ from what was read (`SavedToken`).

## 3. Properties and runs

Runs that must pass; each property has a mutant of the model that breaks it.

| Run | Properties | Instance and bounds |
|---|---|---|
| `MCAlertRule` | `RepeatIsEarned`, `PlainCrossingAlerts`, `GateSpec`, `TypeOK` | threshold 100, margin 2 %, prices 97–103 (on, beside and past threshold and both margins), cooldown 2, clock to 6 |
| `MCDonutClient` | `ServerSeesLimit`, `ReserveKept`, `NobodyOversleeps`, `BackoffHolds`, `ClientTypeOK` | a poll and a command, one retry, window 2 with 2 places, one for polling, delays 1 and 3, clock to 3, one restart: the window fills, slides and fills again, or is forgotten; the third consecutive error overflows |
| `MCPriceSearch` | `TotalIsLowest`, `PerItemWithinTotal`, `TypeOK` | three listings of the item and four cheaper ones in their way, pages of two, at most two of four pages searched |
| `MCMonitorAccounts` | `InvalidIffNotified`, `InvalidMeansPausedUncrossed`, `InvalidMeansRejectedUncrossed`, `FailedAddLeavesNothing`, `DeadTokenFound` | one user, two tokens, two `/auth`, two rules, resumes, deletions and logouts, one crash or database error at any point, no prices, with fairness |
| `MCMonitorAlerts` | `EveryGate`, `CooldownHolds`, `DeliveryTruth`, `NothingOutlivesOwner`, `TypeOK` | one user and rule, two `/auth`, prices 90 and 110, cooldown 1, clock to 2 (alert, rearm, alert), one crash or database error at any point |
| `MCMonitorLive` | `AlertsSettle`, `PendingIsHeld` | two rules of one item, pauses and resumes, no faults, with fairness |
| `MCScheduler` | `EveryUserPolled`, `StopReturns`, `BudgetKept`, `PollsLiveInTheirCycle`, `TypeOK` | two users with one group of up to two pages, sleeps longer than interval and pause, prune every second cycle, one death; with fairness |
| `MCRowLocks` | `TanglesNeedDelivery`, `TanglesNeedDeletion`, `TypeOK` | the coordinator and three commands, two rules, a notification, two observations |
| `MCRuleNumbers` | `NumbersMeanWhatWasRead`, `WritesHitTheirRule`, `DeletionsAreSaidOnce`, `TypeOK` | two interactions, three rules |

What they say:

* `RepeatIsEarned` — after an alert the next one needs the price to have been
  past the margin, a resume, or a gap in the listings followed by a price off
  the watched side.
* `PlainCrossingAlerts` — from a price past the margin straight to a match,
  cooldown over: an alert.
* `GateSpec` — the rule implements `AlertGate`. `EveryGate` — so does each rule
  of Monitor: an alert comes from an armed state only and spends it in the same
  step, though the poll and the first check read the rule at different times and
  apply their snapshots in either order. (`CooldownHolds` does not say that: two
  alerts for one crossing may be a cooldown apart.)
* `ServerSeesLimit` — a request and the one `HardLimit` places later are a
  window apart as the server sees them, and each restart in between may add
  `HardLimit` requests, no more; `WindowBound`, which is proved, says it of the
  limiter.
* `ReserveKept` — a poll is admitted only with fewer than `MonitoringLimit`
  requests of any kind, of this process, in the window.
* `NobodyOversleeps` — a task asleep in `acquire` could not get a place if it
  were awake: the delay `retry_after` worked out stays right while others take,
  prune and block. Excepted are those that a block refused and that sleep when a
  200 lifts it (`eased`); who sleeps for a full window is excepted from nothing.
* `BackoffHolds` — only a 200 arriving meanwhile, or a restart, cuts a
  Retry-After short.
* `TotalIsLowest` — with no sale during the scan, no listing of the item that
  was there throughout is cheaper by the whole, and "no listings" means none
  within the pages. `PerItemWithinTotal` — a unit price is at most the whole
  price of any such listing.
* `InvalidIffNotified` — the status "invalid" and the mark of the one
  reauthorization DM always agree.
* `InvalidMeans...Uncrossed` — an invalid user's rules are paused and its
  token was refused, unless a `/auth`, resume or add crossed the invalidation.
* `DeliveryTruth` — a row marked sent was delivered, exactly once, and no alert
  goes out twice. Of a row that is failed or pending nothing follows: the answer
  may be lost, or the process die, after Discord has taken the DM.
* `FailedAddLeavesNothing`, `NothingOutlivesOwner`, `PendingIsHeld`,
  `CooldownHolds` — as their comments say.
* `BudgetKept` — when a poll of a user is about to begin, the time since his
  last one began pays for every request that one sent, a 220th of a minute
  each: polls alone never need the limiter to slow them down. Retries are not
  paid for, and two users with one token pay each for himself.
* `PollsLiveInTheirCycle` — no poll is under way when the coordinator prunes,
  selects, pauses, or has ended and its HTTP client is closed.
* `EveryUserPolled` — a user with a valid token and a running rule is polled
  again, through failing cycles and a restart, unless the bot is told to stop.
  `StopReturns` — then `close` returns, at whatever point the task was.
* `TanglesNeedDelivery` — tasks that wait for each other in a circle include a
  delivery, or a prune and a `/logout`. Every other transaction goes down
  the foreign keys, from the user to rules to notifications; `_deliver` goes up.
  The run finds three-way circles too: an invalidation holds the user and waits
  for a rule, a deletion holds the rule and waits for its notification, a
  delivery holds that and waits for the user.
* `TanglesNeedDeletion` — every circle includes a deletion or a `/logout`: as
  long as the user takes nothing away, polls, first checks, deliveries, an
  invalidation, new rules, pauses, resumes and `/auth` never deadlock.
* `NumbersMeanWhatWasRead` — a command acts on the rule its number was read
  for, unless between reading and look-up a rule at or before it was deleted,
  or one with a smaller id was committed. The second happens when two
  `/watch add` overlap: ids are drawn at the INSERT, and both replies may say
  "#1".
* `WritesHitTheirRule` — no button of an old alert, command or clean-up of a
  failed add writes a rule that was added after the one it is about was
  deleted. It rests on ids never being reused: PostgreSQL's sequence. (SQLite,
  the default URL of a developer's machine, reuses the largest id unless the
  table is declared AUTOINCREMENT; the mutant `NewIdAfterLast` is that.)
* `DeletionsAreSaidOnce` — of two that delete one rule, one is told so.
* `AlertsSettle` — a pending alert does not stay pending while the process
  lives. `DeadTokenFound` — a user with a dead token and a running rule does
  not stay valid with it for ever, though the token may be replaced by one that
  dies too, rules come and go, and polls be ended by a crash.

Bounds. Each counter in a guard is a constant named in its module: `MaxTime`,
`MaxErrors`, `MaxRestarts`, `MaxAuths`, `MaxRules`, `MaxFaults`. `MCRetryAfter`
has no restart, so that it is the 200 that refutes its property. Two rules are enough for a
poll whose alerts are two and for a poll against an add; two tokens for the old
and the new; two `/auth` for the second to cross an invalidation; one fault
because it may come at any point. The runs with prices keep one token, since an
alert does not depend on which token found it. One user is enough for safety:
users share only the sequence of ids and the barrier of `StartCycle`, and the
theorems of section 6 hold for any number. The `MCMonitor*` runs do not check
deadlock: with all `/auth` spent, no rule left to add and all tokens dead the
bounded model stops where the bot would go on waiting. The other runs do check
it.

In `MCScheduler` only order and proportion of the durations matter: a sleep of
2 against an interval of at most 2, a pause of 1 and a prune every 2 has polls
that outlast the others' intervals, cycles with and without a prune and users
who are due together and apart. One group for each user there; two were checked
for safety alone, and the proofs hold for any number. In `MCRowLocks` a circle
of three needs a delivery, a deletion and the coordinator's invalidation, and
the third command is there to hang on to it. `MCRuleNumbers` has an add, two
numbers read around it and a deletion at once, with three ids to move.

`MaxFloatExponent` is 1023 in the code (the largest power of two of a double)
and 1 in `MCDonutClient`, so that the overflow happens.

## 4. Where the code and its documentation part

Runs whose property TLC refutes; each states what a doc, a message or a test
says. PROJECT.json quotes the lines.

| Run | What happens |
|---|---|
| `MCRetryAfter` | the 200 of one task lifts the block of another's 429 |
| `MCInvalidRejected` | a 401 for the old token invalidates the new one |
| `MCIsolation` | one user's poll sleeps for its Retry-After inside `gather`; another, long due, waits for it |

The models hold more, which follow from what is checked and have no run of
their own:

* From NO_LISTINGS `evaluate_threshold` never triggers: a crossing that is
  first seen after one empty search is never told, where `README.md:3-5` speaks
  of a message "when a user-defined threshold is crossed". A test
  (`test_no_listings_never_trigger`) shows it is meant. `PlainCrossingAlerts`
  says which crossings are told.
* `set_enabled` and `add` check the user in one statement and write the rule in
  the next. An invalidation that commits between the two pauses every rule
  before the new or resumed one is there: it stays enabled under an invalid
  token, although the user was told "All rules were paused", and starts again
  unasked after `/auth`. `InvalidMeansPausedUncrossed` says that only such a
  crossing does this.
* `save_valid_token` assigns what the row should hold and the ORM writes the
  columns that differ from what it read. An invalidation between the read and
  the flush leaves the new token under `token_status` invalid while `/auth`
  says "Authorization succeeded" (`SavedToken` in Monitor).
* The scan stops at the first page that shows the item. For a per-item rule a
  stack on a later page may be cheaper by the unit, although `README.md:3,13`
  promise the lowest price, "whole-listing or per-item"; `PerItemWithinTotal`
  says what the snapshot is good for.
* The limiter lives in memory: after a restart a full new window may be sent
  inside the old one, 500 requests in a minute where the API allows 250, and a
  Retry-After is forgotten. `ServerSeesLimit` and `BackoffHolds` say how far that
  goes.
* A task that sleeps in `acquire` for a block sleeps on when a 200 has lifted it,
  for a whole Retry-After if need be; later callers pass it
  (`NobodyOversleeps`).
* A Retry-After has no upper bound, so that `close` may take as long as any
  poll sleeps; `StopReturns` knows only that the sleep is finite.
* `README.md:14` speaks of "request deduplication by token, item, and price
  type". `_poll_user` groups the rules of one user: two users with the same
  token each send theirs.
* Old alerts' buttons do nothing after a restart (`Restart` of RuleNumbers).
* A notification marked failed may have been delivered: `_deliver` takes any
  exception of `send_alert` for a refusal, a lost answer too (`Outcomes`).
* A `/logout` or a deletion may deadlock with a delivery (`_deliver` locks the
  notification before the user), and the circle may run through whoever is
  first in the queue of a row between them: an `/auth`, a pause or resume, the
  transaction of `process`. PostgreSQL ends any one of them, and nothing in the
  code tries again: an ended `process` loses its snapshot until the next poll, an
  ended `_deliver` leaves its row pending.
* A search without listings and then a price *inside* the margin rearm a rule:
  the third reason of `RepeatIsEarned`, although `README.md:131` speaks of a
  "rule rearming margin".
* `/watch add` commits its rule before the first check is sent. A poll may apply
  a matching snapshot to it first, without `notify_initial`, and the alert the
  first check would have made is never sent.
* `float(2 ** (consecutive_errors - 1))` raises OverflowError from the 1025th
  consecutive transient error on: nothing is blocked, and since it is no
  `DonutApiError` it ends the poll of the user (`TaskError` in Monitor).
* A 401 or 403 that answers a command invalidates nothing: a user without an
  enabled rule stays valid with a token the API has refused.

## 5. Fairness

Both fair specifications assume of the code and its surroundings, and nothing
of the users. `FairSpec` of Monitor:

* weak fairness of every task's steps: the event loop runs what is ready, every
  request ends (the client has a timeout), every DM attempt ends;
* strong fairness of `StartCycle` for each user: what `EveryUserPolled` shows of
  the loop in detail;
* strong fairness of `FetchRejected`: a dead token is not for ever hidden
  behind 5xx answers.

Two assumptions of the Scheduler's runs are the surroundings' and not the
code's: a sleep in `acquire` is one finite `Delay` for each group, where the code
loops, page by page and attempt by attempt, until it gets a place; and requests
end.

`FairSpec` of Scheduler:

* weak fairness of the loop's own steps, of each poll as a whole (not of any of
  its outcomes) and of time;
* weak fairness of `Start`: `compose.yaml` has `restart: unless-stopped`;
* strong fairness of `Prune` and `Select`: the database may fail for any number
  of cycles but not for ever. `CycleFails` competes with both and is not fair.

`AlertsSettle` is checked without faults only (`DeadTokenFound` with one): alerts are delivered at most
once, and a crash between the commit and the record leaves a row pending for
good. Nothing in the code looks for such rows at the start.

## 6. Proofs

Everything is proved for every value of the constants allowed by the named
assumptions: limits as `PerTokenRateLimiter.__init__` checks them, durations
and thresholds as natural numbers, `None` outside the types.

* **AlertRuleProofs**: `TypeCorrect`; `RepeatsAreEarned`, from an invariant
  that ties the state of the rule to `since` (a rule that has alerted and is
  again in its missing state was rearmed by one of the reasons);
  `PlainCrossingsAlert`, from one that ties the state to `shown` (a rule last
  shown a price past the margin is in its missing state) and the time of the
  last notification to `last_triggered_at`; `RuleImplementsGate`, step by step.
* **DonutClientProofs**, of the limiter: the deque is not what the window
  property speaks of — the log of all requests is. The invariant says the deque
  is the end of the log, and that what it has forgotten is at least a window old
  or of an earlier life of the process; then an admission with fewer than the
  limit in the deque means that the request so many places back has left the
  window. With restarts the argument goes on backwards (`AdmittedWindow`): a
  request still in the window has at most the deque's after it in this life, and
  those of the lives before were within their limit when the last of them was
  let through. `WindowNeverOverrun` and `ReserveAlwaysKept` follow.
  `TypeCorrect` bounds the deque by the hard limit. Of the client:
  the limiter's theorems carry over, since each action of the client is one of the
  limiter or leaves it alone (`ClientUsesLimiter`), and `ServerLimitHolds` follows
  with the fact that a request is sent exactly when one is admitted.
  `ClientTypeCorrect` bounds attempts and sleeps; that a back-off of `2 ^ n`
  seconds is a natural number, which would take an induction, is had by counting
  the subsets of an interval (`PowerType`). `SleepersWakeInTime`: a sleeper whom a
  block refused waits for it as long as no 200 comes, every other one for the
  first entry of a full deque (`SleepInv`), and while that entry is in the window nothing is pruned, so the
  deque stays full (`NothingToPrune`). `BackoffAlwaysHolds` needs that
  the block reaches at least to the longest Retry-After not yet lifted
  (`BlockCovers`): later errors, with their shorter back-off, never pull
  `blocked_until` back, and nothing is admitted before it.
* **PriceSearchProofs**: `Before` is a total order on the offers, so a finite
  auction falls into pages and no page is empty before one that is not
  (`PagesAreFull`, by the least element among the listings past a page). The
  invariant is `Ahead`: while nothing was sold, no listing sought since the scan
  began lies on a page already read; added listings only push it further on
  (`PageKept`). `TotalIsAlwaysLowest` follows, as listings come cheapest first,
  and `PerItemIsWithinTotal`, as a unit costs at most its listing. That the
  offers are finite is assumed.
* **MonitorProofs**: `TypeCorrect`.
* **MonitorSafetyProofs**: `InvalidUsersAreTold` needs that a poll that will
  notify is never undercut: what a task remembers of the row (a poll's
  `notify`, an `/auth`'s `seen`) is consistent with it. `NothingIsOrphaned`
  needs that tasks only name rules and rows that exist or are marked deleted.
  `UncrossedArePaused` and `UncrossedWereRejected` rest on one invariant,
  `NothingCrosses`, for the tasks that could enable a rule or change a token.
  `CooldownAlwaysHolds` needs that `last_triggered_at` is the time of the
  latest alert of the rule and that ids are never used again.
  `EveryRuleKeepsItsGate` maps each rule to an `AlertGate`: a step of a task
  that applies a snapshot adds exactly one alert for each rule it triggers
  (`ProcessNotes`), and that alert is the latest of its rule and in time
  (`LatestIsLast`, with the greatest element of a finite set of places, from the
  well-foundedness of the naturals); every other step leaves the alerts of the
  rule alone and at most opens or shuts its gate.
  `FailedAddsLeaveNothing` (`FailInv`) needs that the rule in the hands of an
  add is its user's own, so that a discard is not stopped by the owner check.
  `DeliveryIsTrue` and `PendingIsAlwaysHeld` (`HandInv`) need that of
  the alerts a task holds at most the first, which it has just tried to send, may
  be out, that it is out if the task was told so, and that no two places in the lists of all tasks name the same alert.
* **RowLocksProofs**: the inductive invariant says that what is held and asked
  for is needed, that what is held comes before what is still open in the order
  of `Place`, that no two tasks hold conflicting locks, and that who sleeps asks
  for one lock. In a circle the row a member waits for is held by another member,
  either the one that blocks it or, if that is only first in the queue, the one
  that blocks that (`HolderInKnot`); so it is enough to follow the holders.
  `OnlyDeletionsTangle` takes the tables from below: without a deletion only
  prunes lock observations; a rule in the way is held by the poll, which would
  wait for another rule held by the poll; so nobody holds the user row and still
  waits; and who holds a notification waits for the user row. For
  `OnlyDeliveriesTangle` only the members that hold something matter: they have
  the user row behind them, two at one notification would both hold its rule, and
  a rule is held by the poll or a logout, of which neither can be waited for in a
  circle; what is left are observations, which only a prune and a logout lock.
* **SchedulerProofs**: the invariant adds `Paid` to the types: what a running
  poll has still to send, and what a waiting user has left of his interval,
  balance the history `credit`. When a poll is listed nothing is left of the
  interval, so the credit alone is not negative. `PollsArePaid` states it by
  itself.
* **RuleNumbersProofs**: `NumbersGrow` (a smaller id has a smaller number)
  makes a number stand for one rule, `Unmoved` says that rows above an id do
  not matter to its number. The invariant ties each task to the rows: an
  unmoved number is the place of its rule with its own uncommitted row counted
  (`NumbersStayPlaces` says so of the numbers that have been told or typed), ids of adds under way are apart from each other and from all rows, and ids
  and histories agree because ids are drawn once. Every step is a case of
  `TaskStep` (one task acts, others are told) or `RowStep` (rows go).

Every safety property of the passing runs is proved. Only model-checked is
liveness (`AlertsSettle`, `DeadTokenFound`, `EveryUserPolled`, `StopReturns`), as
fairness and ENABLED are out of the prover's reach, and what the runs of section
4 refute.

## 7. Plan

Done: the evaluator, a rule and its gate; the limiter and the client; the price
search; the tables and their tasks; then the scheduler, the row locks and the
numbers of rules; proofs of all of them. What is left, in order of what it would
tell:

1. Monitor with several adds of one user under way, to join `RuleNumbers` to
   the tables rather than stand beside them.
2. The rate at which commands arrive as a parameter of `DonutClient`:
   `NobodyOversleeps` says that a sleeper is awake when a place is free, not how
   often another may take it first.

## 8. Not modelled

* Of the Discord UI: embeds, formatting, `/start`, `/price` and `/status`, the
  autocompletion of items, the checks that a button belongs to who presses it.
  `/watch list` is cut at 2000 characters and the autocompletion at 25 rules;
  a number that is not shown can be typed all the same, as in `Issue`.
* Lifecycle beyond the monitoring task, health check: wiring.
* Token encryption: Fernet is a library; the branch for a token that cannot be
  decrypted needs the deployment's key to change, and does in Scheduler what a
  refused token does.
* Configuration, logging, item ids, icons, migrations, database set-up: no
  state that changes.
* The contents of `price_observations`, `dm_error_count`,
  `last_successful_request_at` and the metrics: written, shown by `/status`,
  read by no decision. Of the observations their foreign key is in Monitor and
  their locks are in RowLocks.
* What SQLite does in place of PostgreSQL: it has one writer at a time and no
  row locks; the standard deployment is PostgreSQL (`README.md:3-5`).
