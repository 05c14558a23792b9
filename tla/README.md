# SmartTips: verification project

SmartTips is a multi-tenant back office for restaurants that pools and distributes tips. A
NestJS API (`apps/api`, PostgreSQL through Prisma) holds all the state; a Python service
(`apps/ml-service`) predicts tips and shares and is trained online; a BullMQ queue on Redis
carries training jobs from the one to the other; a Next.js front end (`apps/web`) calls the API.
This directory models what decides who is paid what, who may come in, and what the screens
promise while requests are in flight; TLC checks it and TLAPS proves the main results.

1. [Inventory](#1-inventory)
2. [Plan](#2-plan)
3. [Modules and code](#3-modules-and-code)
4. [Runs](#4-runs)
5. [Proofs](#5-proofs)
6. [What is not modelled](#6-what-is-not-modelled)

## 1. Inventory

Paths are under `apps/api/src` unless they start with `apps/`.

| Component | State | Operations | Hard behaviour | Correct when |
|---|---|---|---|---|
| Shifts (`shifts/`) | `shifts`, `shift_assignments` | create, add / update / remove assignment, close | checks and writes are separate statements of READ COMMITTED transactions; writes by row id | one active assignment per employee; a removed row stays removed; closed once |
| Orders (`orders/`) | `orders`, `order_items` | create, update (guests), pay | the server's assignment or the shift changes between the check and the insert; payment after close is allowed | an order belongs to someone who worked the shift; paid once |
| Employees (`employees/`) | `employees` | create, update, soft delete | deletion while the employee is assigned, invited or being paid | a distribution pays no one it refused |
| Tip pools (`tip-pools/`) | `tip_pools` (one per shift) | declare, amend, distribute | two writers of one row; amend against distribute | frozen once DISTRIBUTED |
| Distribution (`distribution/`) | `tip_distributions` | distribute, read, adjust | three phases with a remote call in the middle; re-check at the end; overlapping corrections; work after the commit | amounts sum to the pool to the cent; created once; corrections auditable |
| Allocation engine (`distribution/distribution-calculator/`) | none | scores, blend, `allocateBounded` | bonus relative to the team; an answer of the service that may be anything; caps and minimums in cents, leftover cents over several turns | sum exact, bounds kept, order of weights kept, terminates; the rules stand in for an answer that cannot be used |
| Tenant configuration (`tenant-config/`) | `distribution_configs` | upsert, reset | partial updates overlap; mode read by a distribution in flight | a save changes what its owner changed |
| Training queue (`queue/`) | Redis jobs, failed set | enqueue (job id = hash of content), process, retry, fail | at-least-once delivery, retries on top of the client's retries | a job ends; a repetition costs a fault |
| ML client (`ml-client/`) | the circuit breaker of a library | predict, distribute, train | retry of a call that did succeed; answers checked before use | a prediction used is a valid one |
| ML service (`apps/ml-service/app`) | model versions, feedback index, cache | distribute, train, load, prune | save and record are two steps; several processes on one store; cached models mutated in place | feedback that was accepted is in the model; versions grow |
| Disputes (`disputes/`) | `tip_disputes` | create, withdraw, review, resolve | check-then-create; reviewers overlap | two live disputes of a share only by a race; terminal states are final; the audit agrees |
| Action inbox (`action-inbox/`) | `action_items` | refresh with five detectors, manual status | refreshes race with each other and with a manual decision | an undisturbed refresh leaves the inbox true; an answer gives way to nothing but a refresh that had found the item open |
| Invitations (`invitations/`) | `employee_invitations`, `users` | create, validate, accept, revoke | expiry, revocation and removal during acceptance; e-mail that left although it failed | one account per employee; an invitation ends once |
| Authentication (`auth/`) | `refresh_tokens` | signup, login, refresh, logout | one cookie for all tabs, each of which refreshes on its own | no refresh ends a session; a logout does |
| Menu (`menu-categories/`, `menu-items/`) | `menu_categories`, `menu_items` | create, update, remove | checks on names, counts and margins without an index behind them | a check fails only by an overlap |
| Session of a tab (`apps/web/src`: `lib/api-client.ts`, auth context, middleware) | token in memory, queue of waiting calls | call, refresh, hydrate, log in and out | a call refused during a refresh waits for it | no waiting call is forgotten |
| Shift page (`apps/web`: `shifts/[id]/page.tsx`, close dialog) | cached shift, drafts, dialog | optimistic edits, close, declare | roll-backs and refreshes overlap; close and declaration are two requests | shows what the server holds once it is quiet |
| Team page (`apps/web`: `employees/page.tsx`) | cached list, selection, undo and bulk timers | archive, undo, bulk archive | two kinds of timers; a hook that calls back for the last delete only | deletes only what was asked; a bulk archive loses no archive that waits |
| Invitation dialog and page (`apps/web`: `invite-modal.tsx`, `app/invite`) | phase of the dialog | create, invite, resend, accept | an employee created whose invitation fails | see Invitations |
| Settings form (`apps/web/src/features/tenant-config`) | cached settings, original, draft | edit, save, discard | other tabs save meanwhile | shows as saved only what is |
| Integrations (`integrations/`) | accounts, sync jobs | create job, record health | idempotency keys raced | has no caller |
| Reports, dashboard, employee wallet | none | reads | none | |
| Audit log, e-mail | `audit_logs` | append; send | fails in silence; fails after the message left | see Disputes, Invitations |
| Other screens, data generator | none of their own | show what they fetch | none that reaches the above | |

How they interact:

- A distribution reads the shift (assignments, hours), its paid orders and the tenant's
  configuration, calls the ML service in the ML modes and falls back to the rules when that
  fails, and writes `tip_distributions` and the pool's status in one transaction.
- Shifts, orders and pools share rows only: nothing locks the shift while its pool is
  distributed. An order is payable, and an assignment request that was checked before the close
  is written, after the close.
- A correction of an ML distribution is handed to training after its transaction commits.
- The detectors of the inbox read shifts, pools and disputes, which move on between two of its
  statements.
- A browser holds copies of rows and a session of its own. Nothing is pushed to it: it learns of
  a change by the answer to a request it sent.

Two statuses of the schema are never written by the source (`IN_PROGRESS` and `CANCELLED` of a
shift, `FINALIZED` and `VOIDED` of a pool), nor are the `SENT` and `VOIDED` of an order; the
models leave them out.

The hazards, each at its line and with the properties that would catch it, are in
`PROJECT.json` under `hazards`.

## 2. Plan

Done, in this order:

1. `ShiftFloor`: shifts, assignments, orders, removal of an employee. It is the context all the
   money is computed from.
2. `TipLedger`: the abstract promise of a pool. `TipDistribution` (which EXTENDS `ShiftFloor`):
   tip pools, the three phases of distribute, corrections, hand-over to training. It implements
   `TipLedger`.
3. `BoundedAllocation`: which split the engine picks, the choice that `TipDistribution` leaves
   open. `Computation`: which weights it is given, by rules or from a prediction.
4. `MlTraining`: what becomes of a correction once it is in the queue.
5. `Disputes`, `ActionInbox`: what managers and employees do about a distribution.
6. `Membership`, `Session`: how an employee becomes a user, and how a user stays one.
7. `ShiftScreen`, `TeamPage`, `TenantConfig`, `MenuCard`: the screens that keep state of their
   own, with the requests they send, and the services behind them.
8. Proofs beside each: `TipDistributionProofs` (with `ShiftFloor`), `EngineProofs` (both stages),
   `MlTrainingProofs`, `DisputesProofs`, `ActionInboxProofs`, `MembershipProofs`, `SessionProofs`,
   `BackOfficeProofs`.

Left, most valuable first:

- `LocalStore` of the ML service, which differs from `R2Store` in writing files by rename;
- screens with little state of their own (disputes, distributions, inbox), should they get some.

## 3. Modules and code

`PROJECT.json` maps every definition to its lines under `map`.

### ShiftFloor

One shift, from `POST /shifts` on. A mutation of the API is an interactive transaction at
PostgreSQL's READ COMMITTED. It is split where another transaction can commit: `Begin...` is its
reads and the checks on them, `Commit...` its write together with the conditions the write itself
carries.

| State | Code |
|---|---|
| `shift` | the row of `shifts`; `closedBy` names the request that closed it |
| `hired` | employees with no `deletedAt` (only `EmployeesService.remove` changes it; nothing in the API writes `active`, which is true by default) |
| `assignment` | rows of `shift_assignments`, by id; `removed` is `deletedAt` set |
| `order` | rows of `orders`, with the server |
| `task` | the locals of a transaction in flight |

`UniqueIndexAdmits` is the partial unique index of the migrations; `CloseGuard` the `WHERE` of the
close. `RollBack` is any error or crash between the reads and the write.

### TipDistribution

The pool of that shift. `work[m]` is what a request holds between its steps.

| State | Code |
|---|---|
| `mode` | `DistributionConfig.mode`, written at any moment by `SetMode` |
| `pool` | the row of `tip_pools` (`NONE`: no row), cash and card in cents |
| `row` | the row of `tip_distributions` of an employee |
| `jobs` | job ids in the queue; the id is a hash of the content, so a set |

`distribute` is `ReadShift`, `ReadInputs` (phase 1), `ComputeByRules` or `ComputeByMl` (phase 2)
and `Persist` (phase 3). Phase 1 has no transaction, so a step of somebody else may come between
its two reads. `Persist` is one step: its transaction is Serializable and it starts with a
conditional update of the pool row, so two of them conflict on that row and one fails, and a
correction of the total that commits in between makes the conditional update fail. Floor
transactions may commit during it, but each such overlap has the effect of committing before or
after it, as a snapshot read does. `adjustDistribution` is Serializable too and is one step,
`Adjust`; `Enqueue` follows its commit, and `Abandon` may come first.

The amounts in `Compute` are any split of the total into whole cents. This is more than the engine
returns; `BoundedAllocation` is about which split it is.

Phase 2 appears here only by its outcome, the split and its method; `Computation` is the rest of it.

`TipLedger` has the three variables a reader of the API sees: the pool's status, its total and the
amounts. `Ledger` in `TipDistribution` maps the rows onto it.

### BoundedAllocation

`allocateBounded` as a state machine: `Validate` is the checks up front, `ProportionalTurn` and
`CentTurn` the two branches of the loop in `distributeRemainder`, `Finish` its exit. The engine
computes with `Prisma.Decimal` at 20 digits and more; only ratios of weights matter, so a weight is
an integer and a fraction is exact. Percentages have two decimals, as in the DTO, and are counted in
hundredths. `AllocateCents` is the split of the ML service
(`distribution_allocation.py`), with exact fractions where the code has floats.

### MlTraining

One tenant, from the queue to the files of the ML service. A job is its idempotency key; `Size` is
how many employees it teaches (0 for a pool of zero, which teaches nothing).

| State | Code |
|---|---|
| `queue` | the job in Redis: status, attempts made, whether it has stalled once |
| `worker` | the processor (BullMQ's concurrency of 1): its job, the tries of `trainOnFeedback`, the call it awaits |
| `call` | requests inside the ML service; `pc` is the await it is at, `model` and `seen` its locals |
| `cache` | `_distribution_cache`, per process, of this tenant |
| `lock` | `_tenant_locks`, per process |
| `latest`, `artifacts` | the manifest and the artifacts of `R2Store` |
| `records` | the idempotency file |

A model is its version and how often it learned each job: a digest and a signature are of the
content, and two contents are told apart by what they learned. `Learn` changes the model in
memory, as River does. The steps of a call are those of `train_distribution` between its awaits
on the store; `save` is `CheckVersion`, `PutArtifact`, `PutManifest`, and `record_processed_once` is
`ReadRecords`, `WriteRecords`. A call that the client has given up runs on, so that a retry runs
beside it. `StoreFails` raises at any of them, a put with or without its effect; `Restart` is a
process of the service that stops, `WorkerStops` one of the API.

The steps are those of `R2Store`; `LocalStore` differs in writing files by rename. The image runs
one process; a second instance is a deployment that overlaps with the next, or a second replica on
the same bucket (nothing in `R2Store` spans processes: two of them can overwrite each other's
artifact of one version, and each other's records; `two_instances` is about progress only).
Backoff delays are the gaps between steps. The queue's removal of old finished jobs (after 1 000
and 5 000) is left out: a job id is never added twice.

### Computation

Phase 2 of `distribute`, before `BoundedAllocation` splits the pool: `computeDistribution`, the
prediction it asks the ML client for, and the calculator. Its inputs are what phase 1 read.

| State | Code |
|---|---|
| `mode`, `declared`, `times`, `team`, `bonus` | the inputs: mode, whether the pool has cents, the UTC hours of the shift, role, base and sales of each employee, `salesBonusWeight` |
| `step` | where the call is; `rejected` is an input error (400), `failed` any other (500) |
| `answer` | the allocation rows of the service, as the client has let them through |
| `method`, `weights` | the `ComputationMethod`, and the weights given to `allocateBounded` |

`Rules` is `computeFromRules` in the rules mode or for a pool of zero; `Ask` the schema of the
client's input; `Unavailable` whatever ends in `MlServiceUnavailableException` (an open breaker, a
timeout, a refusal); `Receive` an answer, in full or malformed (rows missing, repeated, of a
stranger, shares that do not sum), with `assertPredictionInvariants`; `UseAnswer` is
`computeFromMl` with its own checks, `FallBack` the rules instead. Hours, the role's coefficient
and the employee's are one `base`: the code multiplies them before anything else. Scores are
scaled to integers, since only their ratios count. A predicted weight may be 0, as the client's schema
(`ml-client.service.ts:166`) and the calculator (`distribution-calculator.service.ts:291`) allow;
`Weighted` is the check of `allocateBounded` that refuses weights that are all 0. The client adds the shares as
floats and the calculator as decimals: near the `Tolerance` of both the client's check may go either
way (`MayPass`, `MustPass`, apart by `Rounding`), and the calculator's (`Indexed`) does not.

### Disputes

| State | Code |
|---|---|
| `payout`, `linked` | the amount of a row, which a correction changes; whether its employee can sign in |
| `dispute` | rows of `tip_disputes` with status, evidence, reviewer, outcome; `seen` is history: the disputes that existed when this one was checked |
| `audit` | entries of `audit_logs` |
| `request` | the operation in flight and what it read |

No operation has a transaction, so each is three steps: `Begin...` reads and checks (`CheckActive`
is the second read of an opening), `InsertDispute` or `Commit...` writes, `WriteEntry` logs. An
update repeats the status in its `WHERE`; the insertion repeats nothing. `Drop` ends a request
between any two of them, and is also `AuditService.log` swallowing an error.

### ActionInbox

| State | Code |
|---|---|
| `shift`, `when`, `pool`, `dispute` | what the detectors read, moved by `WorldNext` as `ShiftFloor`, `TipDistribution` and `Disputes` allow |
| `item` | rows of `action_items` by `dedupeKey`, with their status and who set it |
| `sweep`, `desk` | refreshes and manual answers in flight |
| `undisturbed` | history: nobody else took a step since the refresh began |

A refresh is `BeginSweep`, one `Detect` per table it reads (the three detectors on shifts are one),
`ReadItems`, then `CreateItem` and `AutoResolve` one item at a time, and `EndSweep`. Only the unique
index on (tenant, `dedupeKey`) stands between two refreshes; a violation ends the one that comes
second. `CommitAnswer` repeats `status = 'OPEN'`, `AutoResolve` does not.

### Membership

Rows of `employees` (there or removed: nothing in the API suspends one), `users` (per address, whom it
was created for) and `employee_invitations`;
per manager a dialog (`modal`) in the phases of `invite-modal.tsx`: form, create, invite, insert,
mail, unsent, partial, success; per browser an acceptance (`page`). `BeginInvite` is the checks,
`InsertInvitation` the insert, which repeats none; `late` is an `expiresAt` in the past, `seen`
history: the invitations that existed when the request looked for one. `SendEmail` may fail with
or without the message having left; `RevokeUnsent` then revokes. `BeginAccept` is the reads and
`CommitAccept` the transaction that claims the invitation (a conditional update), inserts the user
(unique index) and links the employee (a conditional update), or does nothing. `Retry` after a
partial success sends the invitation again for the employee that was created.

### Session

Access tokens and refresh tokens are numbered in pairs. `jar` is the cookie all tabs share, `tab`
a tab's page, token, `refreshing` flag and user; `wire` its request to each endpoint of auth,
`call` the other calls: sent, refused, `first` (the one that started the refresh), `queued`,
resent. `Intercept` is the response interceptor of `api-client.ts`, `Refreshed` its outcome for
all the calls that wait. `Lose` is a lost request or answer. `calm` and `gone` are history
variables of the properties.

### ShiftScreen

| State | Code |
|---|---|
| `server`, `pool` | the shift and its assignments; whether its tips are declared |
| `view`, `fetch` | the cached query and its refresh in flight |
| `typed`, `edit`, `latest` | hours being typed; the requests of the rows; which of them the mutation's state is of |
| `dialog` | the close dialog and its request |
| `outdated`, `overlap`, `owes` | history |

`SaveHours`, `RemoveRow`, `AddRow` are a mutation with its optimistic update; `CheckEdit` and
`WriteEdit` the API's two steps; `SettleEdit` its answer, with the roll-back to the view from
before and the refresh. `Seal`, `CountAssignments`, `CommitClose`, `CloseAnswered`, `Declare` and
`DeclareAnswered` are the dialog's two requests in a row. `Other` is another manager.

### TenantConfig, TeamPage, MenuCard

`TenantConfig`: `config` is the row, `cache`, `original` and `draft` those of a form, `save` a
request. `BeginUpsert` reads the row, `CommitUpsert` writes it merged, with neither a version nor
a lock in between. `touched`, `behind`, `missed` and `since` are history.

`TeamPage`: `list`, `selected`, `pending` (whom the toast is about), `timer` and `bulk` (the two
kinds of timers), `deletes` in flight. The mutation hook calls back only for the last delete it
sent, `heard`. `wish` is history: what the manager last asked. An archive that comes within the
cooldown of another, or whose timer another takes over, counts as given up. `previous` is `onMutate`'s
copy of the list, which a failed delete puts back, however old, until the next refresh.

`MenuCard`: `category`, `item`, and per manager a `request` that has passed its checks. `Begin...`
checks, `Commit...` writes; `since` is history, the rows written in between.

## 4. Runs

All cfgs say `CHECK_DEADLOCK FALSE`: row ids are finite and get used up, users may stop calling,
a computation that has returned does nothing more, and neither does a queue whose jobs have ended.

Runs that pass. A property named `...Safe` is the conjunction of the module's type invariant and
the invariants named beside it in the module; the parts are listed in the second column.

| Run | Shows | Bounds and why they are enough |
|---|---|---|
| `shift_floor` | Whatever two requests overlap, an employee has one active assignment, a removed row stays removed, orders come from staff. | Two requests in flight (each hazard is a race of two), two employees, three rows (the same employee removed and added again), one order, hours 4 and 8. Symmetric in employees, row ids and clerks: nothing singles one out. |
| `tip_distribution` | Amounts sum to the total, corrections keep the audit trail and cover all rows, only ML distributions are trained on, and the whole implements `TipLedger`, where a distributed pool is frozen. | Two manager requests and one floor request in flight, two employees, totals of 1 and 2 cents (1 cent cannot be shared, 2 can in three ways). No orders: none of these properties reads the sales, and `stale_inputs` has them. |
| `engine` | Weights are fair, what is computed has weight, and the rules stand in for the ML service but for weights of ML_FULL that are all 0 and shares at the edge of the tolerance, which answer 400 (`EveryoneWeighs`, `RulesStandIn`, `SalesPay`, `OthersSalesIgnored`, `BonusIsRelative`, `BlendBetween`). The split is exact, in bounds, monotone in the weights and within a cent of proportional, never gets stuck, agrees with the ML service, and returns. | A behaviour is about one of the two stages. Weights: a team of two, bases 1 and 2, sales 0, 1 and 3, bonus ½ and 1, every answer of up to two rows over the team and a stranger with weights 0 and 1 and shares of thirds, a tolerance of one third and a rounding of one (so that an answer can be on either side of both checks); a shift within a day, one too long for the service, one over midnight. Cents: three employees, pools of 1 to 8 cents, weights 0 to 3, minimums 0 to 2, caps of 30 % (rejects), 37.5 %, 60 % and 100 %: leftovers of 0, 1 and 2 cents, caps reached in the first and in a later turn, zero weights. |
| `ml_training` | With one process of the service, a job that completed or has a record is in the saved model; a repetition costs a fault; distributions are computed with a saved model and the manifest loads (`StoreSafe`); no record is lost. | Two jobs of one and two employees (so that two orders give different versions), two calls at a time (one that was given up and its retry), two attempts of two tries, two crashes or store failures. Two million states. |
| `two_instances` | Every job ends and the tenant's lock is always given back, with two processes on one store. | One job, two calls, two attempts of one try, one fault. |
| `disputes` | A share has two live disputes only by a race of their openings, and the audit log agrees with the rows (`DisputesSafe`); a dispute that ended never changes. | One share, two amounts, two disputes, two managers, two requests: the opening races with an opening, and any answer with any other. |
| `action_inbox` | A refresh that nobody disturbed leaves the inbox true (`InboxSafe`); nothing but a refresh that had found the item open replaces an answer, each such refresh once (`AnsweredOnce`). | One shift with its pool, one dispute, two managers, two refreshes: each kind of item, created and resolved, with a race of two on each. |
| `session` | A call that waits for a refresh waits for one in flight (`SessionSafe`); refreshes side by side end no session and lose no call; a logout lasts. | Two tabs, two calls (one that starts the refresh and one that waits), one login, one fault, two pairs of tokens that expire. |
| `shift_screen` | A page at rest shows what the server holds; a page that closed the shift declares its tips; a closed shift has staff (`ScreenSafe`) and stays as it was, save for requests checked before the close. | Two rows, hours 0 and 8, two requests of rows in flight besides the dialog's and a refresh, one change by another manager: an optimistic value of one request inside the roll-back of the other. |
| `back_office` | Settings: a save takes from others and sends no more than the overlap explains, and a form shows as saved what is stored. Team: an archive that was announced and not dropped goes through and its toast is true (`TeamSafe`), a delete was asked for. Invitations: users, linked employees and accepted invitations correspond, and an employee has two pending invitations only by a race (`MembershipSafe`); an invitation ends once and links nobody removed or linked. Menu: each check fails only by an overlap. | The four share no state and a behaviour is about one (`topic`). One form and one other device over two settings of two values (one to keep, one to change); a team of two (one behind the toast, one in the bulk); one employee, two addresses, two invitations, two dialogs, two pages (each of the acceptances, sendings and revocations races with another); two managers over two categories and an item, prices 1 and 2, costs 0 and 2 (allowed together and not). |

The runs that find a disagreement between the code and what the repository says of it:

| Run | Disagreement |
|---|---|
| `stale_inputs` | `persistDistribution` compares the roster's size and the total, so paid orders, edited hours or a replaced employee go unnoticed ("so reject if anything that fed the amounts changed underneath us", `distribution.service.ts:285`). |
| `zero_weights` | `allocateBounded` "Assumes totalWeight > 0; callers route the all-zero-weight case to their own fallback" (`allocation.ts:153-154`). `computeFromMl` has none: an ML_FULL answer whose weights are all 0 passes the client's schema and the checks of client and calculator, and the call answers 400 instead of using the rules. The repository's own service never answers so (`MIN_WEIGHT`, `distribution_model.py:113`); the client does not check that it does not. |

Disagreements met while modelling, which no run is spent on:

- `POST /tip-pools/:id/distribute` (`tip-pools.service.ts:252`) marks the pool DISTRIBUTED and pays
  no one; `distribute` then refuses it. ADR-006:358: "La somme finale doit être exactement égale au pool."
- A request that ends between the commit of a correction and its enqueue
  (`distribution.service.ts:536`) loses the training signal for good, since the rows are then
  MANUAL_OVERRIDE. ADR-005:58 has corrections "loggés et réinjectés comme signal d'entraînement au prochain cycle."
- For the same reason a second correction never reaches training (`distribution.service.ts:467`);
  ADR-005:57 trains on the "distribution finale validée par le manager."
- Minimums are paid first and only the rest is shared by weight (`allocation.ts:214`), so a minimum
  that nobody needs still changes amounts; ADR-006:69 applies it as a guard rail on
  "tip_employé = (score_employé / somme_des_scores) × pool_total".
- A crash between the save of the model and the record of its key trains the job twice
  (`model_service.py:422`); `storage/base.py:23`: "A duplicated /train call must never train the
  same tenant/shift twice." `RepeatsNeedFaults` bounds it by one per fault.
- A zero pool sent to an untrained model is recorded with version 0 (`model_service.py:392`), which the
  reader of records refuses, so the second call gets a 503; `storage/base.py:31`: "Return the existing
  idempotency record when the key was already processed."
- In the ML modes a shift whose end hour in UTC is 0 or not greater than its start hour makes
  `validatePredictInput` throw a TypeError (`ml-client.service.ts:535-538`), which `computeDistribution`
  rethrows: a 500 instead of the rules. `schemas/predict.py:36` says "Overnight shifts are allowed.", and ADR-004
  "la répartition tombe en mode règles (heures × coefficient de rôle) sans erreur visible pour
  l'utilisateur." `RulesStandIn` therefore speaks of shifts within one day (`ClientTakesHours`).
- The form that creates a shift means to "Allow overnight shifts" (`create-shift-dialog.tsx:28`), but the page
  sends both times on one date (`shifts/page.tsx:351`), which `shifts.service.ts:95` answers with a 400.
- A refresh leaves the used token valid (`auth.service.ts:136-166`); ADR-002:49: "à chaque utilisation,
  l'ancien token est révoqué et un nouveau est émis." `SessionSurvives` relies on the former.
- The JWT that an accepted invitation returns carries `id` but no `sub`, and `jwt.strategy.ts:37`
  refuses it; `invitations.controller.ts:148`: "Invitation acceptée, compte créé et JWT retourné."
- The client compares a sum of floats with the tolerance of 0.0001 (`ml-client.service.ts:530`) and the
  calculator the exact sum of the same shares (`distribution-calculator.service.ts:303`). Shares at the edge,
  such as 0.9941092226908244 and 0.005990777309175632, pass the first and are refused by the second: a 400 where the comment at
  `ml-client.service.ts:495` has "a violation means "unusable ML" -> bad_response -> rules fallback." `RulesStandIn`
  exempts them (`Off`).
- A second archive within six seconds clears the timer of the first and takes its toast
  (`employees/page.tsx:183`): the first employee, announced as archived, is not deleted and comes back to the
  list. `TeamSafe` counts that archive as dropped; a bulk archive sends the waiting delete first (`ROB-C2`).

Where the code lets a race happen that no index, lock or condition excludes, the property about it
exempts that race by name and says that nothing else has the same effect: `seen` (two disputes of a share, two
invitations of an employee), `overlap` (an edit or a removal checked before the close of a shift), `since`
(two saves of the settings, two requests for the menu), `missed` and `behind` (a form whose settings others changed),
`undisturbed` (a refresh of the inbox beside others), `gone` and `calm` (a refresh beside a logout or a login), `owes` (a
close whose declaration is lost), `bulk` and the wish `dropped` (archives). These properties do not
catch the race itself; each hazard in `PROJECT.json` says so in its note.

Fairness is assumed in two runs. In `engine`, that a synchronous function that was called runs on.
In `two_instances` (`FairSpec` of `MlTraining`), that BullMQ's worker takes the jobs that wait and
goes on (its client has a deadline), and that a coroutine of the service that can run does; crashes,
store failures and evictions have no fairness. Nobody has to send a request.

## 5. Proofs

TLAPS proves, for any values of the constants that meet their assumptions:

| Theorem | Says | Needs |
|---|---|---|
| `TipDistributionProofs!FloorTyped` | types | no assumption: hours are only copied |
| `TipDistributionProofs!OneActive` | one active assignment per employee | types |
| `TipDistributionProofs!ShiftClosesOnce` | a closed shift never changes | the guard of the close |
| `TipDistributionProofs!RemovalIsFinal` | a removed row stays removed, a row never changes hands | `RowsOnlyGrow` |
| `TipDistributionProofs!OrdersAreStaffed` | orders are credited to staff | `StaffInv` |
| `TipDistributionProofs!Typed` | types, and that requests hold well-formed work | `CentsAssumption`, `HoursAssumption` |
| `TipDistributionProofs!RosterOneActive` | the same in the composed system | `OneActive`'s step |
| `TipDistributionProofs!TipsConserved` | amounts sum to the total | `Typed` |
| `TipDistributionProofs!DistributedPoolFrozen` | a distributed pool never changes | types |
| `TipDistributionProofs!CorrectionsCoverThePool` | one method over all rows | `AdjustPays` |
| `TipDistributionProofs!CorrectionsLeaveATrail` | rows are created once, the first amount stays readable | `PersistPays`, `AdjustPays` |
| `TipDistributionProofs!TipLedgerImplemented` | the detailed specification implements `TipLedger` | all the above |
| `TipDistributionProofs!OnlyMlIsTrained` | training gets a distribution once, and only one the ML service computed | `CorrectionsCoverThePool` |
| `EngineProofs!AllocationIsSafe` | bounds, conservation; an accepted input is never stuck | `AllocationInv` |
| `EngineProofs!SharesAreFair` | order of the weights, quota, agreement with the ML service | `FairInv` |
| `EngineProofs!TurnsGive` | every turn of the loop gives a cent | `AllocationInv` |
| `EngineProofs!EngineSplits` | a finished allocation is one of the `Splits` of `TipDistribution` | `AllocationInv` |
| `EngineProofs!ComputationIsSafe` | the rules stand in, but for the two answers that are refused; what is computed has weight | `ComputationInv` |
| `EngineProofs!WeightsAreFair` | sales pay, other roles' do not matter, a bonus is relative, blends lie between | `ComputationInv` |
| `MlTrainingProofs!StoreStaysSafe` | the manifest loads, what is served is saved | `SingleInstance`, `Inv` |
| `MlTrainingProofs!FeedbackStaysKept` | what completed or has a record is in the model | the same |
| `MlTrainingProofs!RepeatsCostFaults` | a job is learned once more per fault at most | the same |
| `MlTrainingProofs!RecordsStayKept` | no record is lost | the same |
| `MlTrainingProofs!NothingGetsStranded` | a lock, an answer, an active job: somebody is at it | any number of processes |
| `MlTrainingProofs!CallsGoOn` | a call of the service takes ten steps at most | the same |
| `MlTrainingProofs!RetriesRunOut` | a job that is given back has spent an attempt or its stall | the same |
| `DisputesProofs!DisputesTyped` | types | |
| `DisputesProofs!DisputesStaySafe` | one live dispute per share but for a race; the audit agrees | `DisputesInv` |
| `DisputesProofs!DisputesEndForGood` | a dispute that ended never changes | `DisputesMove` |
| `ActionInboxProofs!ItemsAnsweredOnce` | only a refresh that had found the item open replaces an answer, once | types |
| `ActionInboxProofs!InboxStaysSafe` | an undisturbed refresh leaves the inbox true | `GatheredInv` |
| `MembershipProofs!MembershipStaysSafe` | users, employees and invitations correspond | `MembershipInv` |
| `MembershipProofs!InvitationsEndOnce` | an invitation ends once and links whom it may | `NextShows` |
| `SessionProofs!SessionSurvivesRefreshes` | refreshes end no session | `CalmInv` |
| `SessionProofs!CallsSurviveRefreshes` | refreshes lose no call | `CalmInv` |
| `SessionProofs!LogoutLasts` | after a logout the cookie stays away | `GoneInv` |
| `SessionProofs!NoWaiterIsLost` | a waiting call waits for one refresh in flight | `WaitInv` |
| `SessionProofs!SessionStaysSafe` | only issued tokens are in use, and the above | `BoundInv` |
| `BackOfficeProofs!ConfigStaysSafe` | a form shows as saved what is stored or others changed | `FormInv`, `MineInv` |
| `BackOfficeProofs!SavesStayApart` | a save takes and sends no more than the overlap explains | `SinceInv`, `FormInv` |
| `BackOfficeProofs!MenuStaysTyped` | types | `UnbornAssumption` |
| `BackOfficeProofs!MenuChecksAreGood` | a check of the menu holds at the write, but for a race | `RequestInv` |
| `BackOfficeProofs!ArchivesArrive` | an archive that is not dropped is on its way until the employee is removed; the toast is true | `TeamInv` |
| `BackOfficeProofs!DeletesWereAsked` | a delete was asked for and not undone, or is a bulk timer's | `TeamInv` |
| `BackOfficeProofs!ScreenStaysSafe` | types; a shift is closed with staff, but for a race | `ClosedInv` |
| `BackOfficeProofs!PageConverges` | a page that waits for nothing shows the server's shift | `ShownInv` |
| `BackOfficeProofs!SealsAreDeclared` | who closed the shift declares its tips, unless an answer is lost, the page is left or there is nothing to declare | `OwedInv` |
| `BackOfficeProofs!ClosedStaysFrozen` | a closed shift keeps its assignments, but for a race | `ClosedInv` |

Some theorems state what no run checks. `ClosedOnce` follows from the guard of the close alone, and
`ImplementsLedger` implies `PoolFrozen`. `TurnsGive` and `NeverStuck` are together the reason for
`Returns`, as the last three of `MlTrainingProofs` are the reason for `NobodyWaitsForGood`: who waits
for a lock waits for a call that has ten steps left at most, who waits for an answer has a deadline,
and a job comes back to the queue finitely often. `EngineSplits` justifies the choice that
`TipDistribution` leaves open.

The argument:

- `TypeOK` of `TipDistribution` is inductive because `WorkOK` says what a request holds between two
  steps: the amounts are a function from exactly the employees whose features it read.
- `Conservation` is inductive because it speaks of requests too: amounts held by a request sum to
  the total *it read*; `Persist` compares that with the pool's total in the same step, and no
  action changes the total of a DISTRIBUTED pool.
- A correction covers `Paid` exactly, so it moves all rows to MANUAL_OVERRIDE together
  (`AdjustPays`); that is `AdjustedAsAWhole`, and with it `ShouldTrain` is true at most once.
  `OnlyMlIsTrained` adds to it that a job implies rows that are overridden.
- `OrdersComeFromStaff` is not inductive: an order about to be inserted names its server too.
  `StaffInv` says that this server has worked the shift, which stays true because a row keeps its
  employee whatever is written to it (`RowsOnlyGrow`).
- For the refinement each action maps to one step of `TipLedger` or to a stutter. `Payout` is a
  function on `Paid`, so the steps that leave `row` alone leave it alone (`SameRowsSamePayout`),
  and `SameSum` carries the sum over.
- The engine is about sums over any finite set, and the fold has no theorem to cite; induction over
  sets is out of reach. `EngineProofs` therefore argues by minimal counterexample, which is first
  order: of the subsets on which a law of sums fails take a smallest one (`Smallest`), remove an element.
  `SumExists` shows that the fold satisfies its equation, `SumStep`; `SumCompare`,
  `SumScaled`, `SumOnes`, `SumReindexed` follow from that, and so do the facts on the first `n` elements
  of an order (`FirstCount`, `FirstClosed`).
- The split: `AllocationInv` needs no more than the property and that an input past `new` was accepted. Cents
  given and left make the pool, and `Cap` times the employees covers the pool; so while cents are left
  somebody is below the cap, the proportional turn gives no more than is left, and a turn that
  rounds everything down to 0 still has somebody for the next cent.
- Fairness of the split: `PayFollowsWeight` survives a turn because more weight means more whole cents, or
  as many and a larger fraction (`MoreWeight`). The quota is decided by the first turn (`Untouched`
  before it, `Touched` after it): it leaves cents only if it capped somebody, and later turns only add.
- The weights: an answer that the client lets through has as many rows as the team, of the team
  and without repetition, so it names everybody once, and the calculator can refuse it only for the exact sum of
  its shares or for weights that are all 0 (`RowFacts`, `AnswerFacts`, `AnswerWeighs`). Blended weights are each
  positive, the rules' scores being so (`MlAllocandsFacts`), and sum to `TotalScore` times the sum of the shares and
  `ShareUnit`; a mean lies between its parts (`Mediant`, `BlendsLieBetween`). `SalesPay` compares two teams that differ in one seller: that score grows at
  least as fast as the sales of the team (`ExcessGains`), every other one at most as fast (`ExcessLoses`).
- `MlTraining` is safe because at most one call is past the lock (`LockInv`, `OneHolder`). That needs
  one process of the service, `SingleInstance`, as deployed (`apps/ml-service/Dockerfile:62` starts
  one). `HolderOK` says at each place of the holder what its model and its copy of the records are
  to what is stored; `CacheInv` that a cached model without a holder is the saved one; `CountInv`
  counts a repetition against a fault.
- `DisputesInv` adds to the two properties what requests in flight rely on: disputes a check has found
  (`SeenInv`) have ended, an entry about to be written is true (`RequestInv`), and the reviewer follows
  the status (`ReviewerInv`). Every step does one of five things to a dispute (`Moves`).
- `GatheredInv` says what an undisturbed refresh has gathered at each of its places: all the conditions of the
  tables it has read, then exactly the missing and the stale items.
- `MembershipInv` adds to the properties that a linked employee has the address of its user (`RowsInv`),
  and what a dialog about to insert has seen (`SeenInv`). Each step but `CommitAccept` leaves users and links
  alone (`Quiet`).
- `CalmInv` says of each tab, message and call what it holds while nothing has ended the session: in
  particular that the cookie is a stored token. `GoneInv` says the same after a logout: nothing in
  flight carries a token that counts. `WaitInv` pairs a tab's refresh with the one call that started
  it; most steps leave it alone because they leave the queues alone (`SameQueues`). `BoundInv` is needed
  for types only: the numbers that tabs, messages and calls hold were issued.
- The settings: `SinceInv` ties what a save has read to what is stored, up to the fields others
  wrote since; `MineInv` ties its answer to its form; `FormInv` ties the differences of a draft to
  `touched` and `missed`.
- The menu: what a request has checked held when it read, and every later write to a row it relied on
  puts that row into `since`. `RequestInv` says so of each kind of check: another name (`ClashInv`),
  no item left in a category that goes (`RemovalInv`), a category that is there and a cost below the
  price (`WriteInv`).
- The team page: `TeamInv` adds to `TeamSafe` that the employee of a timer is one the manager wishes
  archived, and that a delete that was answered took its employee off the staff.
- The page of a shift: `ShownInv` holds because everything that could make the page stop waiting asks
  for a refresh; it needs nothing about the order of edits. `ClosedInv` says that a shift that is closed,
  or counted for it, has an assignment, and that no edit checked before the close is still to be
  written, unless `overlap` says so.

- With several processes the above fails, but `NothingIsStranded` needs only the types: it is
  inductive by itself, each step of a call being a move to a later place (`CallMoves`) or an answer
  that gives the lock back (`CallAnswers`).

Only model-checked: liveness (`Returns`, `NobodyWaitsForGood`, the one property of `two_instances`), which needs
fairness and ENABLED. Every invariant and every action property of a passing run is proved.

## 6. What is not modelled

The map covers about an eighth of the implementation's lines. Roughly half of the rest is JSX,
styling and texts; the remainder is DTOs, controllers, Swagger annotations, read-only queries and the
data generator, of which there is no behaviour to model.

- Amounts, prices and taxes of orders; tables, times, roles, notes; display order and hours of the
  menu: no property reads them.
- `fallbackEqualByHours`: validated scores are positive, so it is never reached. The explanations
  that go with a result, and the parameters of the audit snapshot.
- The tip model of the ML service (`train`, `predict`): the API does not call it, and its training has
  the shape of `train_distribution`. `prune_old_versions` and `delete` have no caller.
- What River learns, and the checks of a training payload (422): inputs of the API pass them.
- The circuit breaker: a library (opossum) with its own states; here it is a reason for `Unavailable`.
- Integrations: the module is registered, but no controller, job or service calls it.
- Reports, the dashboard and the wallet only read. Screens that show what they fetch (disputes,
  distributions, inbox, the employee's pages), the marketing site and the components of the design
  system.
- Of `Session`: wrong passwords, the reload of a tab, redirects by role, liveness. `LogoutHolds` is
  silent (by `gone`) about a refresh that was already on its way, and `SessionSurvives` (by `calm`)
  about a login before the tab has asked who is signed in.
- Of `Membership`: an update of an employee's address. Two employees may have one address, and the
  invitations of a removed employee stay, as in the code.
- Of `ShiftScreen`: a pool that was declared before the shift is closed (no screen does that), the
  confirmation of two zero amounts, dragging and layout.
- Of `TenantConfig`: `resetToDefaults`, which no screen calls. Of `TeamPage`: filters, the drawer and
  the statistics. Of `MenuCard`: an update of an item verifies neither the category nor the
  tenant again, and neither does the model.
