# InfraShelf, specified and checked

InfraShelf is an internal shop for infrastructure: a user orders a product for
a project and an environment, an approver or a policy says yes, CI pipelines
build it, and their callbacks tell the portal how it went. This directory
holds TLA+ specifications of the backend's core, the TLC configurations that
check them on small instances, and TLAPS proofs of the theorems that matter
most. Paths below are relative to `src/apps/backend/src/lib/` unless they
start with `apps/`, `infra/` or `docs/`.

## 1. The system

The backend is a Next.js server, replicated horizontally, over one Postgres
database. It has no worker and no timer of its own. Everything that happens is
a request: a user's click, a CI system's callback, or an external scheduler
that calls a sweep endpoint. A request runs as a sequence of database
statements and outgoing calls with an `await` between any two of them, so two
requests interleave at every statement. There are few transactions; the code
protects itself with conditional updates (`UPDATE ... WHERE status = ...`),
which the comments call claims.

### 1.1 Components

| component | state | operations | with whom | what is hard |
|---|---|---|---|---|
| orders (`services/orders.ts`) | `orders.status`, `infrastructure_elements` rows | place, build (fan out over elements, webhooks, stacks), write off | CI, approvals, gates, callbacks | partial failure of a fan-out, order of insert, fire and record |
| pipeline tracking (`services/pipelineTracking.ts`) | `pipeline_id`, `pipeline_status` of an order or an element | begin, record, finish, clear | orders, retry, teardown, callbacks | a run that overlaps callbacks or another run |
| callbacks (`webhook/handler.ts`) | the same | merge a success, a failure | CI, settlement | late, repeated, contradicting events; events before the id is written down |
| settlement (`webhook/settle.ts`) | status, element outputs | decide, fetch logs, write outputs, compare and swap | callbacks, runs | decides on state that moves while logs are fetched |
| approvals (`services/approvals.ts`) | status, `scheduled_for` | approve, reject | gates, windows, orders | double clicks; when a claim may be given back |
| windows (`services/windowPolicy.ts`, `deploymentWindows.ts`) | `scheduled_for` | sweep, deploy now | approvals, gates, orders | sweep against root, stale lists, throws with pipelines running |
| gates (`services/commitGates.ts`, `policy/`, `services/budgets.ts`) | budgets, rules, audit entries for waivers | ask, waive | approvals, windows, placing | answers that go stale; statements that throw after the claim |
| retry (`services/infrastructure.ts`) | status, tracking, element ids and outputs | claim, refire, rewrite, release | runs, callbacks, teardown | a retry while the failed run is still at work |
| teardown (`services/infrastructure.ts`, `teardown.ts`) | element status and tracking, trial clock | decommission, schedule, sweep | retry, callbacks, deletions | destroy against apply on one Terraform state |
| deletions (`services/projects.ts`, `admin/products.ts`, `admin/categories.ts`) | element status, retired flags | cascade | teardown | claims that do not ask about the order |
| budgets (`services/budgets.ts`) | budget of a cost centre; commitments are derived | check under a lock, edit | placing, gates | a re-check without the lock; what retry brings back |
| cart (`services/cart.ts`) | cart lines | add, check out, restore | placing | two check-outs of one cart |
| sign-in (`services/auth.ts`, `auth/sessions.ts`, `services/twoFactor.ts`, `webauthn.ts`) | sessions, second factors, locks, recovery codes | sign in, revoke, deactivate, enrol, confirm | every request | a slow login against a deactivation; overlapping enrolments |
| drift (`services/driftReports.ts`) | last refresh, drift | report | reporting pipelines, teardown | reordered and repeated reports |
| the rest | see `PROJECT.json` | | | catalogue, costs, mail, metrics, encryption, start-up, API description, frontend, deployment: no protocol between requests |

How an order moves:

    placed --------> pending --approve--> provisioning --settle--> completed
                       ^  \--reject-> rejected   |  ^                 ^
                       |                failure  v  | retry           | a late or
     gate refuses,     |   scheduled --sweep--> failed ---------------/ repeated success
     nothing started  -+---(window)--deploy now

`provisioning` is the claim. Whoever moves an order there fires pipelines for
it, and either leaves it there for the callbacks to decide or gives it back.

### 1.2 What makes each component correct

- **Tracking, callbacks, settlement.** An order is completed only when no run
  is firing for it, and every pipeline of its newest run was started and
  succeeded; a completed order stays completed; every settled order is
  completed without another event; an element shows outputs of its own
  pipelines.
- **Approvals and windows.** An order is built once; it is offered for approval
  again only if nothing runs for it; a waiting order has a release time and is
  taken at it or after, and in the end; one in `provisioning` without a
  pipeline is in somebody's hands; a logged waiver belongs to a commitment.
- **Teardown.** An element is reported gone only when one teardown fired every
  destroy and each reported success; one that is active never had a destroy at
  it; what a retry is applying is not destroyed underneath it; no teardown waits
  for a report that was refused an answer; no deletion goes through with a
  destroy unfired.
- **Deletions.** No placed order is deleted with its product, category or
  project; "not found" is true.
- **Cart.** A line is ordered at most once, never lost, in the quantity the
  shopper last gave; the cart keeps its limit.
- **Budgets.** Two orders never both fit into what is left for one.
- **Sign-in.** No session outlives the last deactivation, role change or new
  password of its account; a session carries its account's role; a root remains.
- **Second factors.** Guesses are bounded however they are sent, a code works
  once, an authenticator is replaced only by somebody who has one, an offer is
  not lost, recovery codes on paper stay good.
- **Drift.** What is stored is the newest report's finding, drift stays until a
  newer report finds nothing but clean, a verdict is about the newest finding.

## 2. Modules

| module | what it is |
|---|---|
| `PipelineTracking` | the two tracking columns and the pure operations on them |
| `OrderRun` | one order: trigger runs, callbacks, settlements, write-offs, faults |
| `OrderStatus` | the abstract specification: what an order's status promises |
| `OrderQueue` | the queues before the build: approvals, rejections, sweeps, Deploy now, gates, windows |
| `Teardown` | the elements of one order on their way out: claims, destroys, callbacks, beside a retry |
| `ElementStatus` | the abstract specification: what an element's status promises |
| `Checkout` | one cart, its checkouts, the budget they order against |
| `Catalogue` | deleting products, categories and projects while orders are placed |
| `Access` | accounts, sessions, logins, password changes, root's updates |
| `TwoFactor` | the second factors of one account |
| `Drift` | drift reports about elements that come and go |
| `OrderRunProofs`, `OrderQueueProofs`, `TeardownProofs`, `CheckoutProofs`, `CatalogueProofs`, `AccessProofs`, `TwoFactorProofs`, `DriftProofs` | theorems |
| `MC...` | model values and symmetry for TLC |

How they compose: `OrderRun` and `Teardown` are both built on
`PipelineTracking`, as the code's order and element runs are on
`pipelineTracking.ts`. `OrderRun` and `OrderQueue` implement `OrderStatus`,
`Teardown` implements `ElementStatus`.
`Teardown` sees an order as a status that reports and retries move (`OrderRun`),
`Catalogue` and `Drift` see a teardown as a status that an element takes
(`Teardown`), `Checkout` sees an order as a commitment that is built, fails and
is retried (`OrderRun`, `OrderQueue`).

`OrderRun` and `OrderQueue` meet at `provisionOrderElements`. `OrderQueue` does
not repeat the fan-out: there a build starts something (`Fire`) or nothing
(`NothingStarts`) and may throw either way, and `Report` is the outcome that
`OrderRun` models in detail. `OrderRun` in turn has one `Approve` action for
every way out of the queues. Both implement `OrderStatus`, the interface
between them: `KeepsPromise` in each module.

### 2.1 Tracking

`pipeline_status` is a JSON map from pipeline ids to `'success'`, `'failed'` or
`'canceled'`, with two special keys that never hold `'success'`: `triggering`,
present while a run fires, and `trigger-failed:<n>`, left by triggers that did
not start. The model keeps the map as three sets, `ok`, `bad` and `blocks`, and
the id list as a set: nothing is decided from its order. `IsSettled` is the
code's `isSettled`: at least one id, every id a success, no other entry that is
not a success. `SameStatus` is the compare-and-swap's predicate, which compares
the map and not the id list.

### 2.2 OrderRun

One order is enough: a pipeline id belongs to one environment, one order and
one run, and no statement of these components writes two orders.

State: `status` and `track` are columns of the order; `rows`, `rowIds` and
`outputs` its elements and their columns; `run[r]` the local variables of the
request that fires run r (`kind` says on whose behalf); `hand[h]` a callback
between the SELECT that matched the order and the UPDATE that merges;
`settle[x]` a settlement inside request x; `ran` what the CI system has
started; `faults` how often a fault has struck.

Every action is one statement or one outgoing call, together with the code up
to the next `await`. Runs are numbered in the order in which they claim, so the
newest run is the greatest in use. A pipeline is identified by run, element and
trigger.

| action | code |
|---|---|
| `Approve`, `Retry` | the claims, `approvals.ts:228`, `infrastructure.ts:415` |
| `Begin`, `Record`, `Close`, `Clear` | `beginOrderTriggerRun`, `recordOrderPipelineId`, `finishOrderTriggerRun` and the settlement that follows it, `clearOrderTriggerRun` |
| `NextElement`, `EndElement`, `EndLoop`, `Undo` | the loop of `provisionOrderElements` and its cleanup |
| `ReadSiblings`, `Rewrite` | the same for `retryProvisioning` |
| `TriggerStarts`, `TriggerFails`, `LookupStacks` | `ci/webhooks.ts` |
| `Release` | the three catches around a build: create, approve, retry |
| `Receive`, `HandleSuccess`, `HandleFailure` | `handlePipelineEvent` |
| `SettleRead`, `SettleWrite`, `SettleSwap`, `SettleAudit` | `settleOrderIfComplete`, `recordOutputs` |
| `MarkFailed` | `markOrderFailed`, root's write-off |
| `AnswerLost`, `RecordLost`, `LookupThrows`, `QueryThrows`, `Crash`, `HandlerFails` | faults |

Two constants say what a configuration admits.

`Faults`, at most `MaxFaults` of them: a process dies (`crash`), a statement
throws (`query`), the webhook or stack rows cannot be read (`lookup`), a
trigger call fails though its pipeline starts (`answer`), writing an id down
fails and is swallowed (`record`).

`Overlaps`: which requests about the order a retry may find still at work. A
failed run usually ended long before somebody presses Retry, but nothing in the
code waits for that, so each case is a constant: a run that still holds its
claim (`run`), a callback between matching and merging (`event`), a settlement
before its swap (`settle`).

`MarkFailed` is guarded by `STUCK_ORDER_SILENCE_MS`, thirty minutes without a
write to the order. The model reads this as: no run and no settlement that
wrote to the order is still being served. A matched callback may be; it writes
nothing before it merges.

Abstracted: log contents (an output is the pipeline it came from), mail, the
wording of audit entries, authorization, parameters, prices. A rerun in the CI
system is a pipeline that reports anew. An event nobody listens to is dropped,
as in the code.

### 2.3 OrderQueue

State: `status` and `due` (`scheduled_for`) of the order; `started`, whether
`pipeline_id` is non-empty, which is what `anythingStarted` reads; `builds`, a
count of builds that started pipelines; `waived`, the requests whose waivers
are in the audit log; `req[x]`, where each request is; `now`; `refusing`, the
gates that would refuse the order at this moment.

Requests are of three kinds and share the steps that they share in the code.

| request | path |
|---|---|
| approval | claim, budget, policy, window, then either schedule, or prepare, build, record |
| sweep | list, claim, budget, policy, build |
| deploy now | budget, policy, claim with its waivers, build |

A refused approval or sweep gives the order back; a refused Deploy now holds no
claim yet. A build that throws is followed by `Check`, which asks
`anythingStarted`, and `Release` when nothing was. The sweep's list is read
once and its orders are claimed later, so `List` and `Claim` are two steps.

`EditGate` changes what a gate answers at any moment (somebody edits a budget,
a rule, or spends). `ReadWindow` covers environments without windows and
missing holiday data: the order may then deploy at once. `Report` completes or
fails the order; that it completes none that a request holds is what
`OrderRun` establishes (`NoCompletionWhileFiring`). The guard that an approver
does not approve their own order is not modelled: it reads, writes nothing and
comes before the claim.

### 2.4 Teardown

State: `order`, the status of the one order that all elements belong to;
`status`, `due` and `track` of each element; `job[j]`, a request that tears
elements down one after the other; `retry`, a Retry of the order; `hand` and
`settle` as in `OrderRun`; `configured`, the triggers of the product, chosen at
the start; `ran` and `succeeded` on the side of the CI system.

| action | code |
|---|---|
| `Press`, `Sweep`, `Cascade`, `Claim` | `decommissionInfra`, `sweepDueDecommissions`, the loops of `deleteProduct`, `deleteCategory`, `deleteProject`, and the claim each makes: `claimAndDestroy` asks that the order is not provisioning (`infrastructure.ts:743`), a cascade does not |
| `Previous`, `Begin`, `TriggerStarts`, `TriggerFails`, `Record`, `LookupStacks`, `Close`, `HandBack`, `Restore` | `fireDestroyTriggers` and the element half of `pipelineTracking.ts` |
| `Proceed`, `Return`, `EndJob`, `Catch` | what each caller makes of the outcome |
| `Receive`, `HandleSuccess`, `HandleFailure`, `SettleSwap`, `SettleAudit` | `handlePipelineEvent`, `settleElementIfComplete` |
| `RetryClaim`, `RetryRead`, `RetryFire`, `RetryRewrite`, `OrderReported` | `retryProvisioning` seen from the elements, and what reports do to the order |
| `Schedule`, `Crash`, `Throws`, `RecordLost`, `HandlerDies` | edits of the schedule, faults |

`ElementStatus` keeps of this only the status, the destroys started and those
confirmed: its actions are the claim, the start of a destroy, a report of
success, the hand-back and the settlement.

`Faults` strike once in a behaviour. `Races` name the overlaps admitted, none in
the run; section 6 says what each does.

### 2.5 Checkout

State: `cart` (the quantity of each line), `req[c]` (a checkout: what it read,
what it holds, what failed), `adder[a]`, `owner` (the FOR UPDATE lock on the
shopper's row), `lock` (the cost centre's advisory lock), `order`, `budget`;
`shown`, `added` and `overtaken` are history: what the shopper last asked for,
and the lines for which that came too late. The shopper may change a line at any
time: while a checkout has read it and not claimed it, which the checkout does
not see, or while a checkout has it in its hands, when there is no row to remove.
Either is noted in `overtaken`, until the line is changed again.

| action | code |
|---|---|
| `AddCount`, `AddInsert`, `Update`, `Remove`, `Clear` | `addToCart`, `updateCartItem`, `removeFromCart`, `clearCart` |
| `Read`, `Validate`, `Claim`, `Undo`, `Finish`, `PutBack` | `checkoutCart`, `restoreCartItems` |
| `Lock`, `Check`, `Insert` | `lockCostCentreBudget`, `checkBudget` and the INSERT in the one transaction of `createPreparedOrder` |
| `Build`, `NothingStarted`, `MarkFailed`, `Tail`, `TailThrows` | the rest of `createPreparedOrder`, as `OrderRun` has it in detail |
| `Approve`, `Reject`, `PipelineFails`, `Retry`, `SetBudget` | what happens to orders and budget beside the checkouts, without the lock |

### 2.6 Access

State: `account` (role, active, password as the moment it was set, and the
moment its sessions were last ended), `factor`, `session`, `login[l]`,
`changer[c]`, `admin[a]`, `row` (the FOR UPDATE lock on each account). A session
records what it was opened with. `Admitted` is `validateSession`: live, and its
account active. A login reads the account in one step and inserts its session
in another, with a second factor's request between them or not, so anything can
happen to the account meanwhile. An update of root's locks, counts the other
roots, writes and revokes in one transaction, in two steps: `LockAndCount` and
`CommitUpdate`. Any number of them overlap. `crossed` is history: has one that
takes a root away counted, when it counted the others, only roots that other
updates held locked and were about to take away?

### 2.7 TwoFactor

State: `totp` (the row of `user_totp`: confirmed and pending secret, failed
attempts, lock, last step), `codes`, `keys`, `challenge`, `req[r]`, the clock;
`guesses`, `accepted`, `replayed` and `proved` are history. Verification claims
an attempt (`Claim`), then uses the code (`UseCode`) or spends a recovery code
(`SpendCode`), then resets the count (`ClearFailures`), each a statement with a
WHERE clause of its own. Enrolment writes an offer and promotes it later,
identified by its envelope. Keys are registered and removed; the challenge is
used up by whatever registration presents itself, its own or not. Promoting an
authenticator always issues recovery codes, registering a key only when it takes
itself for the first factor. A code is a secret and a step; guessing is a code of no
secret.

### 2.8 Catalogue

State: `row` (live, retired or gone), `shelf` (a product's category), `offered`,
`order`, `element`, `del[d]`. Foreign keys with ON DELETE CASCADE are part of
`Erase`; `SELECT ... FOR UPDATE` is `held`, for which an INSERT that references
the row waits (`Referable`). A deletion claims and destroys every active element
below its target first, which takes long, and decides afterwards whether to
retire or to erase: `Start`, `Destroy`, `Fired`, `Lock`, `LockChildren`,
`CountOrders`, `Retire` or `Erase`.

### 2.9 Drift

State: `status` of the elements, `row` (the refresh and policy columns),
`unclaimed` (`unclaimed_states`), `heard` (`drift_report_state`), `sent` (what
each run of the reporting pipeline found), `req[d]` (a request that delivers a
report); `offered`, `accepted` and `departed` are history. A report is
identified by its time and says the same whenever it is sent: a redelivery
repeats it, and any number of them may be under way at once.

| action | code |
|---|---|
| `Receive`, `ReadOwners` | `stateKeyOwners` and the partition (`driftReports.ts:228-251`) |
| `WriteElement` | one conditional UPDATE per element (`:256-294`) |
| `AskPolicy`, `WriteVerdict` | `evaluateElementPolicies` |
| `RecordUnknown`, `ForgetClaimed`, `ForgetUnseen` | the three statements about unclaimed states (`:316-360`) |
| `Conclude`, `Crash` | the row about all reports; a request that dies |
| `Provision`, `TearDown`, `HandBack`, `Remove` | what becomes of an element meanwhile |

## 3. Runs

Bounds are small where a case repeats and as large as the interesting case
needs. Two of everything that races; one fault, placed anywhere. Deadlock is not
checked: each of these systems may stop (an order is done, a cart is empty, the
bound on changes is used up).

| run | configuration | question |
|---|---|---|
| `order_run` | one webhook, one stack, 2 runs, 2 callbacks, one crash or lost record; retries overlap settlements | do runs, callbacks and settlements complete exactly the right orders, and keep the abstract promise? |
| `order_elements` | 2 elements, 1 stack, 2 runs, 2 callbacks, one crash, lost record, throwing statement or lookup; retries overlap callbacks | is every started pipeline waited for, completes only the whole newest run, are outputs the element's own? |
| `order_live` | 2 runs, 2 callbacks, successes only, one lost answer | does a settled order complete, does a started one? |
| `queue_run` | 2 approvals (one root's), 1 sweep called again and again, 1 Deploy now, one crash or throw | is the order built once, the schedule consistent, the waiver true, the promise kept; is it held by somebody and decided in the end? |
| `teardown` | 2 elements of one order, a webhook with or without a stack, 2 destroys at most for all elements together, 2 jobs, 1 callback at a time, one fault | gone means destroyed, active means untouched, nothing stuck, nothing retired with a destroy unfired, and does it keep the abstract promise? |
| `checkout` | 3 lines, 2 checkouts, 2 adders, a cart of 2, quantities to 2, budgets of nothing and of 2, 2 other changes at any moment, one crash or throw | ordered once, never lost, as asked, within limit and budget? |
| `access` | 2 accounts, 2 sessions, 1 login, 1 password change, 2 root requests, 2 changes | who is let in after what, and is a root left? |
| `access_crossed` | the same, without the exception for two roots at one another | violation, section 6 |
| `twofactor` | 2 requests, 2 keys, 2 secrets, 1 recovery code, 2 attempts, 4 steps of the clock | guesses, codes, offers, recovery codes |
| `catalogue` | 2 products, 2 categories, 1 project, 2 orders, 2 deletions | are orders kept, is "not found" true? |
| `drift` | 1 element with 2 states, 2 runs of the pipeline with 4 findings, 2 deliveries, one crash | newest shown, drift kept, verdict current? |
| `drift_silent` | the same element, runs that plan one of its states each, 1 delivery | violation, section 6 |

Why these are enough. An order meets two runs: a retry and what it replaces; a
third replaces the second as the second did the first. Two callbacks are a
success and the failure that contradicts it. Two triggers of different kinds
give the failure between them, which is the one that loses ids; two elements
give the run's loop a before and an after. In the queues time has four
instants, with windows at 1 and 3: an approval can come before, in, between and
at the last window, and an order can miss one and wait for the next. A cart of
two with three lines can be full while a line comes back. A session is older or
newer than a change, and the second change meets what the first left behind.
Four steps of the clock exceed the three for which a code is good. The code's
five attempts and ten recovery codes are two and one: the second attempt is the
first that a stale count lets through. Two reports are an older and a newer; a
delivery can be reused, so each may arrive any number of times. One sweep
stands for any number: it is called again when it has ended, and sweeps that
overlap are covered by the theorems about `OrderQueue`, which hold for any number
of them. The two checkouts may take up to two elements each, one line of two or
two of one, which is where quantities and lines can be confused. Where a theorem
of section 4 exists, the bounds do not matter for the property.

Symmetry is used where requests are interchangeable, and in no run that checks
liveness.

### 3.1 Properties

One sentence each; the modules state them precisely and name the code. The last
column is the change of the code with which TLC finds the property violated. A
type invariant is checked where the module's types say more than the shape of
the variables.

| property | what it says | what breaks it |
|---|---|---|
| `NoCompletionWhileFiring` | no order is completed while a run fires for it | a run without its `triggering` entry (#132) |
| `CompletedMeansWholeRun` | a completed order's newest run started everything and all of it succeeded | a settlement guarded by the status alone (#195) |
| `PendingMeansNothingRan` | an order that waits for approval had no pipeline started | a partial failure taken for a total one |
| `NothingStartedIsForgotten` | a closed run waits for every pipeline it started | a run that closes without its ids |
| `OutputsOfOwnPipelines` | an element shows outputs of its own pipelines | the logs of the whole order (#104) |
| `SettledOrderCompletes` | a settled order is completed without a further event | no settlement at a run's end |
| `StartedOrderCompletes` | a started order is completed if the CI reports every success | callbacks that ignore a failed order (#500) |
| `BuiltOnce` | an order is built once | pipelines overlooked when giving back |
| `ScheduleIsConsistent` | a release time exactly while scheduled, or the CHECK refuses the row | a refusal that keeps the time |
| `WaiverMeansCommitted` | a logged waiver belongs to an approval that went through | waivers logged when the gate accepts them (#527) |
| `ProvisioningIsAtWork` | until a request dies or throws, an order in provisioning has pipelines or a request | a refusal that keeps the claim (#511) |
| `ScheduledIsDecided` | an order that waits for its window is taken in the end, unless a request dies or throws | a sweep that wants the time to be past |
| `KeepsPromise` (`OrderRun`, `OrderQueue`) | the refinement of `OrderStatus` | a failure written over any status; pipelines overlooked |
| `GoneMeansDestroyed` | an element is reported gone only if one teardown fired every destroy and each succeeded | a run that closes without its sentinels (#134) |
| `ActiveMeansNoDestroy` | an active element never had a destroy at it | a claim that looks at the element's status only (#135) |
| `SettledIsBeingSwapped` | an element whose destroys all succeeded is about to be gone | nobody asks at the end of a destroy run |
| `RetriedStaysActive` | what a retry applies is not destroyed underneath it | a retry of every element (#188) |
| `RetiredMeansFired` | nothing is retired with a destroy unfired | a refused destroy ignored by the cascade |
| `KeepsPromise` (`Teardown`) | the refinement of `ElementStatus` | a claim that also takes what is being torn down |
| `TypeOK` (`Checkout`) | a shopper's orders and lines fit the capacity that validation allowed | a count of the lines without their quantities (#104) |
| `OrderedOnce` | a line is ordered once | the lines read taken for the lines deleted |
| `NothingIsLost` | a line is in the cart, in a checkout's hands, or ordered | a throw that is not among the failures put back |
| `AsTheShopperSaid` | in the quantity the shopper last gave, but for lines changed between a checkout's read and its claim, or removed while a checkout had them, and not changed since | a line put back as one piece |
| `CartIsBounded` | the cart keeps its limit | two additions counted without the shopper's row lock |
| `NeverPlacedOverBudget` | placing never exceeds a blocking budget | the check without the advisory lock |
| `NoSessionSurvives` | no session is admitted that is older than the last deactivation, role change or password | a deactivation that does not revoke |
| `SessionMatchesAccount` | role and password of an admitted session are the account's, if its login was not overtaken | a challenge that outlives a password |
| `RootRemains` | an active root remains, unless an update counted only roots that others were taking away | an inactive root counted |
| `NoTwoRootsCross` | an active root remains, as the comment says | violated, section 6 |
| `TypeOK` (`TwoFactor`) | the count stays within the limit, the lock is closed exactly when it is used up, the secret on offer is not the one in force | a success that resets the count and leaves the lock |
| `GuessesAreClaimed` | no more guesses than attempts, however they are sent | the limit asked of the row as read, not in the claim (#195) |
| `CodeUsedOnce` | a code is accepted once | no claim of the step |
| `ReplacedOnlyWithProof` | a confirmed authenticator is replaced only by one offered to a request that had shown a factor | an offer written over a confirmed authenticator without asking |
| `OfferIsNotLost` | an offer is cleared only by its own request or its own expiry | an expiry that clears any offer |
| `PaperStaysGood` | recovery codes on paper stay good until they are used or a confirmed authenticator is replaced: a second factor issues no others | the key being removed counted as one that remains |
| `OrdersAreKept` | no placed order is deleted with what it is for | a lock of the products without the category (#195) |
| `NotFoundIsTrue` | a deletion that destroyed something and answers "not found" left nothing | a lock that looks past retired rows (#251) |
| `ShowsTheNewest` | an element shows the newest report it was offered, and clean only if that said nothing else of it | a late report taken for news |
| `DriftIsNotForgotten` | found drift shows until a newer report finds nothing but clean in what it says of the element, and is gone when every state was read clean | an inconclusive report taken for a clean one |
| `SilenceIsNotHealth` | an element that shows clean had every state read, as the comment says | violated, section 6 |
| `VerdictIsCurrent` | a verdict is about the newest refresh, unless who was to write it died | a late verdict taken for news |

### 3.2 Fairness

Safety runs assume none. `Served` (`order_live`): weak fairness of each
request's steps. A request that is being served continues, since the server
awaits one promise after the other. It is assumed in no run that has a crash,
except `queue_run`, whose liveness property promises nothing after one.

`Reported`, used by `StartedOrderCompletes` only and as a hypothesis of the
property: the CI system reports a success again if nobody took it. This is an
assumption on the environment and the reason why the run reports successes
only.

`Swept` (`queue_run`): the scheduler keeps calling the sweep
(`infra/helm`, `apps/backend/src/app/api/internal/deployment-window-sweep`),
time passes, requests are served, and a build that is attempted again and again
starts something sometime (strong fairness of `Fire`). The last one is an
assumption on the CI system: while it refuses every trigger, the order goes
back to its queue each time, as it should. The safety properties of that run do
not depend on fairness.

## 4. Proofs

TLC checks two requests and two of everything they race for; the theorems hold
for any number of elements, triggers, runs, callbacks, approvals, accounts,
carts, products, reports, and of faults. Every module states its `TypeCorrect`:
`Spec => []TypeOK`, under every overlap, race and fault. The constants'
assumptions (`OrderRunAssumption`, `OrderQueueAssumption`, ...) say that sets of
names are disjoint and bounds are natural numbers; TLC evaluates them in every
run.

A theorem under a hypothesis names the constants it restricts. What such a
hypothesis excludes is in section 6: it breaks this property, or another one of
the same module that the proof rests on.

| module | theorem | states | under |
|---|---|---|---|
| `OrderRunProofs` | `Invariant` | `Spec => []IInv` | `Orderly` |
| | `FiringIsNeverCompleted` | `NoCompletionWhileFiring` | `Orderly` |
| | `PendingIsFresh` | `PendingMeansNothingRan` | `Orderly` |
| | `PromiseIsKept` | `Spec => KeepsPromise` | `Orderly` |
| | `CompletedStays` | `CompletedIsFinal` | `Orderly` |
| | `CompletionIsWhole` | `CompletedMeansWholeRun` | `Unhurried` |
| | `NothingIsForgotten` | `NothingStartedIsForgotten` | `Unhurried`, no fault `answer` |
| | `OutputsBelong` | `OutputsOfOwnPipelines` | `Unhurried` |
| | `ThrowsDoNotComplete` | `NoCompletionWhileFiring` | `Unhurried` |
| | `GivenBackIsFresh` | `PendingMeansNothingRan` | `Unhurried`, no fault `answer` or `record` |
| `OrderQueueProofs` | `OneBuildAnOrder` | `BuiltOnce` | |
| | `SchedulesAgree` | `ScheduleIsConsistent` | |
| | `WaiversAreCommitted` | `WaiverMeansCommitted` | |
| | `NobodyIsStranded` | `ProvisioningIsAtWork` | |
| | `QueuesKeepPromise` | `Spec => KeepsPromise` | |
| `TeardownProofs` | `RetiredHasFired` | `RetiredMeansFired` | |
| | `RetriedStays` | `RetriedStaysActive` | none of the races `fails`, `cascade`, `lone` |
| | `ActiveIsUntouched` | `ActiveMeansNoDestroy` | no race, no fault `late` |
| | `GoneIsDestroyed` | `GoneMeansDestroyed` | no race, no fault `late` |
| | `SettledIsPickedUp` | `SettledIsBeingSwapped` | no race, no fault `late` |
| | `ElementsKeepPromise` | `Spec => KeepsPromise` | no race, no fault `late` |
| `AccessProofs` | `SessionsEnd` | `NoSessionSurvives` | |
| | `SessionsMatch` | `SessionMatchesAccount` | |
| | `RootStays` | `RootRemains` | |
| `TwoFactorProofs` | `GuessesAreBounded` | `GuessesAreClaimed` | |
| | `NoCodeTwice` | `CodeUsedOnce` | |
| | `ReplacementsAreProved` | `ReplacedOnlyWithProof` | |
| | `OffersStay` | `OfferIsNotLost` | |
| `CheckoutProofs` | `LinesAreSafe` | `NothingIsLost` | |
| | `OneOrderALine` | `OrderedOnce` | |
| | `OrderedAsAsked` | `AsTheShopperSaid` | |
| | `CartKeepsItsLimit` | `CartIsBounded` | no line added while others are in a checkout's hands |
| | `BudgetHolds` | `NeverPlacedOverBudget` | no retry, and no edit of the budget, beside a held lock (race `budget`) |
| `CatalogueProofs` | `HistoryIsKept` | `OrdersAreKept` | |
| | `MissingIsMissing` | `NotFoundIsTrue` | |
| `DriftProofs` | `NewestIsShown` | `ShowsTheNewest` | |
| | `DriftStays` | `DriftIsNotForgotten` | |
| | `VerdictsFollow` | `VerdictIsCurrent` | |

### 4.1 Order runs

`Orderly`: no retry overlaps a run that still has its claim, and no fault of
the kinds `query`, `lookup` and `answer` strikes. Crashes, lost records, and
retries that overlap callbacks and settlements are allowed. The inductive
invariant `IInv` has these parts, each needed by another.

1. `ClaimsInOrder`: at most one run holds a claim, and then the order is
   `provisioning` or `failed` (a callback may fail it under the run). An order
   that is `pending` is claimed by nobody and tracks nothing.
2. `RunIsGuarded`: a run that is between its begin and its close has its
   `triggering` entry in the map. This is what keeps settlements out, and it
   needs part 1: the close of a second run would remove the entry.
3. `EventsAreReal`: a pipeline that a callback, the tracking or a settlement
   mentions has run, and a settlement decided on a map without blocks. So no
   settlement's swap can succeed while the entry is there, even one that
   decided before a retry.
4. `CountedRuns` and `RunsAreCounted`: every pipeline a run has started is in
   `ran`, and every pipeline that ran is in the counts (`sent`, `got`,
   `started`) of the run that fired it as long as it can give its claim back.
   So "nothing started" means that nothing did, which is `PendingIsFresh`.

`NoCompletionWhileFiring` follows from 1 alone once 1 is known to be inductive;
that `SettleSwap` preserves 1 is where 2 and 3 are used. The refinement maps
`claimed` to "some run holds a claim" and `fired` to `ran # {}`. `RunKeeps`,
`HandlerKeeps` and `SettleKeeps` show that each step is a step of `OrderStatus`
or a stutter; `Complete` and `GiveBack` are the two cases that use the
invariant.

What a completed order stands for needs a second invariant, `WholeInv`, with a
hypothesis of its own, `Unhurried`: a retry finds no run and no settlement at
work (callbacks it may find), and a lookup throws only where no webhook is
configured. That is what the run `order_elements` admits, and every other fault
is allowed: statements that throw anywhere in a run, and triggers that start
though their call fails. `IInv` is of no use here, for it counts what has run
and on a run to end as its loop does. `WholeInv` counts what the order was told
instead. It relates what a run has fired to what the order waits for, and that
to what a settlement has decided on.

1. `ClaimInv`. A run `Building` holds its claim in earnest: the order is open
   and, from its begin on, the triggering entry is in the map. The release of an
   approval or of an admin's order on which the build threw is not building: it
   may come after the close, out of the settlement, with the order completed
   meanwhile. An order that is pending is `Unheard`: it waits for nothing and no
   report on it is on its way. A first run keeps it so until it records
   something, and what the order waits for during it is what the run knows
   (`ListsItsOwn`); so a release that finds an empty list leaves it unheard.
2. `RunsInTurn`: only the newest run may hold the claim, so a step of an older
   one can no longer touch the order.
3. `RunFacts`, for each run: unless a trigger failed, every trigger of every
   element gone through has been started, and of the element at hand those
   that are not left (`SkipsNothing`); and every pipeline of the run is one it
   knows (`KnowsItsOwn`, without the fault `answer`).
4. `WaitsForAll`: once the newest run is over, its order waits for nothing, is
   blocked, or waits for each trigger of each element. The close is where 3
   becomes 4; a crash or a throw leaves the triggering entry behind, a run that
   fired nothing an empty list.
5. `SettlesTheNewest`: while a settlement is on its way nobody is building, and
   the list is the one it decided on. So its swap, which compares the map
   only, compares the list too; with 4 the order is completed by its whole
   newest run, which is `CompletionIsWhole`.
6. `OutputsAreOwn`: outputs come from the element's own pipelines, and there
   are none while its first run may still name those. That a settlement writes
   what it has read rests on 5: no element has changed its pipelines since.

`ThrowsDoNotComplete` is part of 1. `GivenBackIsFresh` adds `OnRecord`: where
nothing is lost between a trigger and the list, a first run whose list is empty
has fired nothing.

### 4.2 Queues

`QInv`: at most one request holds the order; while one does, the order is in
`provisioning`, or `failed` with something started; who holds it without a
release time is an approval and with one is not (`Claims`); requests are only
where their kind goes (`Places`); a waiver is logged by the last statement of an
approval (`Logged`). A waiting order has nothing started, so `builds` is at most
one. `NobodyIsStranded` needs a second induction, up to the first request that
dies or throws.

### 4.3 Teardown

Four invariants, the first three under every race and fault. `TInv`: a job at
work has an element, a settlement is about one. `FInv` follows the triggers of
the element a job is at: each configured one is still to come, has failed or was
fired, by stage (`Tracked`), and what the job took before was fired or refuses
the deletion; that is `RetiredMeansFired`. `Applying`: while a Retry is at work
the order is 'provisioning', which stops the button and the sweep.

`OInv` is about who holds what.

1. `Exclusive`: no two jobs are at one element.
2. `Holds`: from its claim to its close the element is 'decommissioning', once
   its run has begun the `triggering` entry is in the map, and every destroy
   that runs at it is one that its job knows of. So "nothing started" means
   that nothing runs, which is when it is handed back.
3. `Row`: nothing runs at an active element; a map without blocks belongs to an
   element with all destroys of one job in its list, or with none at all.
4. `Settles`: a settlement decided on a map without blocks, of an element whose
   destroys have all succeeded. It cannot swap between a claim and a close:
   before the run has begun nothing ran, afterwards the entry is there.

4 uses 2 and 3, 2 uses 4, and the invariants the run checks follow from 3 and the
clause about settlements in progress (`Swapped`).

`ElementsKeepPromise` shows step by step that `Teardown` implements
`ElementStatus`. Most steps are hidden from it. A claim, a started destroy and a
report map to `Claim`, `Fire` and `Confirm`: 2 says that what was fired at the
element before is the same job's. `HandBack` and `Catch` map to `GiveBack`, also
by 2, a swap to `Retire` by 4. A Retry writes 'active' over what `Applying` says
is active already, which is nothing to whoever reads the status. So no step
takes a decommissioned element anywhere, which the invariants do not say.

### 4.4 Accounts

`SInv` strengthens what is asked of admitted sessions to all live ones: a
session of an inactive account must be revoked too, since the account may come
back (`LiveInv`). A login about to issue its session read the account as it is,
unless it has changed since (`LoginInv`), and what an update read behind its
lock stays until it commits (`LockedInv`). `RootInv` adds, until `crossed`, that
some active root is not about to be taken away by anybody. An update that takes
one away has counted another that nobody else takes, or has crossed; a commit
takes only the root it locked, which is about to be taken; and nothing but such
an update makes a root one that is about to be taken.

### 4.5 Carts

`TInv` says which requests hold what: two checkouts never hold the same line
(`Hands`). `Orders` adds where an order in the making belongs. Each theorem then
has an invariant of its own: every line the shopper gave is in the cart, in a
hand or ordered (`SafeInv`); a line that is in the cart or in a hand has no
order, except the one its holder is placing or died with (`OnceInv`); for a line
that is not overtaken, what a checkout read, what it holds, what lies in the cart
and what is ordered are what the shopper said, and a step of the shopper's leaves
a line as it is, or makes it overtaken, or finds it in nobody's hands, unread and
not ordered (`SaidInv`, `ShopperChanges`; this uses `OnceInv`); the lines in the cart and
those that may come back together fit the limit, and an adder that has counted
still holds the row (`BoundInv`). The last uses the theorems about finite sets.

`Checkout` adds twice: the elements of a checkout's lines, which the handler
bounds before it claims any, and what the counted orders of a cost centre are
worth. Both sums are `SumFunctionOnSet`. What a sum is worth needs an induction
over finite sets, and the library's induction theorems take an operator that no
installed prover can instantiate. The section "Sums" of `CheckoutProofs` does the
induction in first-order steps instead: proper inclusion is well founded on the
subsets of a finite set, so a set without a sum would have a least subset
without one (`MinimalSubset`), and taking an element out of that one gives the
contradiction. From it follow that the sum is a natural number, that it grows by
the value of an element put in, that it depends only on the values at the set's
members, and that it is smaller for smaller values (`SumIsNat`, `SumStep`,
`SumsAgree`, `SumAtMost`).

`TypeCorrect` then needs `Small`: the lines a checkout has read hold no more
elements than the handler admits.
`BudgetHolds` rests on `Room`: while a request holds the cost centre's lock and
has passed its check, its order fits into what the counted orders leave of the
budget. Nothing enters the counted orders but the insert of the lock's holder,
and a retry, which the hypothesis excludes; they leave by failures and
rejections. So `Room` stays until the insert, which is what uses it up.

### 4.6 Catalogue

`CInv`: a deletion between its lock and its decision holds its rows, alone
(`Holds`, `Exclusive`); nothing refers to a locked row anew, so the count of
orders is still true when it decides (`Counted`); what a deletion was named for
and met stays what it was until it retires or erases it (`Named`, `Met`).

### 4.7 Drift

`DInv`: a request past its first statement has a report, and what it matched is
at most as new as what is stored (`Requesting`); the newest report offered is
what is shown (`Offered`); the newest report accepted that found drift, or nothing but
clean, decides whether drift shows and since when (`DriftIsSettled`), from which
`DriftIsNotForgotten` follows (`SettledIsRemembered`); a verdict is about the
newest refresh as long as the request that accepted it lives
(`VerdictIsCurrent`). No bound on deliveries enters: a report delivered again is
older or equal and changes nothing.

### 4.8 Second factors

`FInv`: a wrong code is looked at only after its attempt is charged, so guesses
never exceed the count while the lock holds (`Charges`); the last step stored is
at least that of every code accepted (`Used`); an offer beside a confirmed
authenticator was made to a request that had shown a factor (`Offered`); a
request that found an offer expired cannot find it fresh again, because offers
are numbered (`Fits`).

### 4.9 Only model-checked

`StartedOrderCompletes` and `SettledOrderCompletes` of `OrderRun` and
`ScheduledIsDecided` of `OrderQueue`: liveness under fairness and ENABLED are out
of the prover's reach. `PaperStaysGood` of `TwoFactor`: it holds only where none
of the races of section 6 is admitted, so a theorem would say little.

## 5. Not modelled

`PROJECT.json` lists every component with its status. Of the implementation's
94,000 lines the modules cover a small share. Most of the rest are React views,
the tables of translated strings, the description of the HTTP API, type
declarations, validation, queries and rendering: sequential code without state
that two requests dispute. In the backend these are left out, with the reason:

- product parameters, sizes, pricing, exchange rates and dashboards: arithmetic
  and queries over rows that nobody else writes back;
- mail, metrics, the assistant, the external inventory: one outgoing call, whose
  failure is logged and changes nothing;
- rate limits: a map in one process;
- encryption, configuration, seeds and migrations: before the server listens;
- the HTTP clients of the CI providers and of the policy engine: the model has
  their outcomes;
- delegations: one row, read per request, that no order depends on;
- time zones, weekdays and holidays: reduced to the set of instants inside a
  window.

Inside modelled components, these are left out:

- `OrderRun`, `OrderQueue`: log contents, the guard that nobody approves their
  own order, authorization.
- `Checkout`: root's override of a budget, monthly periods, currencies, several
  cost centres, orders placed without a cart, snapshots of prices.
- `Access`: deletion and expiry of accounts, expiry of sessions, sign-in
  without a password. An update of several fields is several updates.
- `TwoFactor`: cryptography, the counter of a key's assertions, sign-in without
  a password, the password asked before an enrolment.
- `Catalogue`: claiming and firing a teardown is one step there, and `Teardown`
  has the detail; the 409 that `deleteProject` answers when parameters collide,
  after its destroys are out (`projects.ts:300-309`); galleries, translations,
  deletion of environments, cost centres and CI sources.
- `Drift`: the engine is configured throughout and the keys of an element are
  fixed; two different reports of the same time and an incomplete report of
  nothing are excluded.

## 6. What the checks found, and limits

Two runs end in a violation of what a comment of the code says.

- `access_crossed`. Two roots demote or deactivate each other at the same
  time. Each transaction locks its target, not the rows it counts, so each
  counts the other's target as the root that remains, and none does.
  `services/admin/users.ts:182` says of the count: "so two concurrent requests
  cannot each see a second root and both proceed". `RootRemains`, the property of
  the other run and of the theorem, says that this is the only way to lose the
  last root.
- `drift_silent`. A report that says nothing of one of an element's states counts
  that state as clean: the element shows clean with a state nobody read, and the
  drift found in it by an earlier report is cleared. `driftReports.ts:204-206`
  says that "an element is only clean when every one of its states was actually
  read. Silence must not read as health", and `driftReports.test.ts:245` repeats
  it; lines 198-200 call drift "cleared by a plan that never looked at it" the
  error that the aggregation was written against. It holds when the report says
  something of every state, and `ShowsTheNewest` and `DriftIsNotForgotten` of
  `drift` say what holds when it does not.

The properties of the other runs hold under the races and faults that their
configurations admit. The constants `Overlaps`, `Races` and `Faults` admit
others, under which TLC finds the violations below; add the value to the
configuration to see one. They are limits of the code met while modelling, and
where a comment says otherwise its line is given.

**Order runs.**

- `Overlaps = {"run"}` breaks `NoCompletionWhileFiring`. One failed pipeline
  fails an order at once, while its run may still be firing for other elements;
  a retry claims the order, and the old run's finish removes the retry's
  `triggering` entry (`infrastructure.ts:408` on what the claim excludes).
- `Overlaps = {"settle"}` breaks `OutputsOfOwnPipelines`: outputs are written
  before the compare-and-swap, so a settlement that loses it has written the
  old run's outputs (`settle.ts:108-117`).
- `Overlaps = {"settle", "event"}` breaks `CompletedMeansWholeRun`. A settlement
  decided on a map; a retry emptied it; a stale callback put the old pipeline's
  success back after the new run closed; the map equals the one decided on, and
  the swap does not compare ids. Either overlap alone is harmless: `order_run`
  has the first, `order_elements` the second.
- The fault `lookup` breaks `PendingMeansNothingRan`: a webhook has started its
  pipeline, the SELECT of the stacks throws, and the order is given back
  (`windowPolicy.ts:148`, `approvals.ts:410`). It also breaks
  `CompletedMeansWholeRun`: two callbacks have matched that pipeline before it
  is given back; after the next approval one of them fails the order, the new
  run's begin leaves a failed order's tracking alone, the other callback turns
  the entry into a success, and nothing keeps the order open while the run is
  firing.
- The fault `query` breaks `CompletedIsFinal` for an admin's own order: the
  inline settlement completes it, the audit insert that follows throws, and the
  catch in `orders.ts:1456-1475` writes `failed`. A later success completes it
  again.
- The faults `query` and `record` together break `PendingMeansNothingRan`: the
  record of an approval's first pipeline is lost, the next element's INSERT
  throws, and the order, with nothing on record, is given back
  (`approvals.ts:410`) with that pipeline running.
- The fault `answer`: an approval is given back though a pipeline that nobody
  knows is running. No local change can exclude this one.

**Queues.**

- `ProvisioningIsAtWork` is asked until a request dies or throws. With the fault
  `query` a statement inside the gates throws after the claim, and the order
  stays in `provisioning` with nobody at it (`commitGates.ts:130`, "Never throws for either gate").
- With two sweeps at a time an order can be released before its time: a sweep's
  list may be stale when an order's turn comes (given back, approved anew,
  scheduled for a later window), and the claim compares only the status. The
  Helm chart forbids concurrent sweeps; the plain cron of `infra/docker-host`
  does not.
- A crash between a build and `Record` loses a waiver's audit entry;
  `WaiverMeansCommitted` is the direction the code promises.

**Teardown.**

- `Races`: `fails` (a report fails the order while a Retry of it is firing, and
  the element may be claimed), `lone` (a Retry without active siblings falls
  back to the element it was pressed on, `infrastructure.ts:460`) and `cascade`
  (a deletion claims without asking about the order, `admin/products.ts:558`)
  each bring a destroy and an apply together. `handback`: an element handed back
  is claimed anew before its ids are restored, and the restore overwrites the
  tracking of the new destroy run. The fault `late`, a statement that throws
  after a destroy was fired, hands the element back with its destroy running.
- A cleared schedule can still be swept: the sweep's list is older than the
  edit (`docs/guides/admin.md:216`, "To cancel, open the same dialog and click
  **Clear schedule**").
- A product without triggers leaves its elements in `decommissioning`. A cascade
  passes over elements that another request has in hand. A destroy that starts
  though its call fails is not modelled, nor is liveness.

**Carts and budgets.**

- A line changed after a checkout has read it and before it claims it is ordered,
  or put back, in the quantity read; one removed while a checkout has it in its
  hands is ordered, or comes back (`cart.ts:417-418`). Both happen in the run;
  `AsTheShopperSaid` excepts the lines concerned, and no others.
- `Races`: `refill`, lines added while a checkout has others in its hands, breaks
  `CartIsBounded`; `budget`, commitments or the budget changed under the lock,
  breaks `NeverPlacedOverBudget`.
- `OrderedOnce` is asked unless the fault `late` struck: a throw after the order
  was inserted puts its line back (`cart.ts:595-597`).

**Accounts.**

- A slow login keeps the role and the password it read until the next change of
  its account: `SessionMatchesAccount` is asked of logins that were not
  overtaken. A password change that read an old hash can override root's reset.

**Second factors.**

- `Races`: `first`, a key registered while another first factor is set up: each
  takes itself for the first and issues codes. `beside`, an authenticator offered
  before a key was registered and confirmed after it: `confirmEnrollment` issues
  codes whatever other factors there are (`twoFactor.ts:553`), and those that the
  key came with stop working, against `webauthn.ts:43-44` and `:268-271`.
  `removals`, two keys removed at the same time: each counts the other as the one
  that remains, and whatever is set up next is a first factor again. Each breaks
  `PaperStaysGood`.
- `ReplacedOnlyWithProof` is about an authenticator in force. One offered while
  the account had no factor can be added beside a key registered meanwhile.
- A code of a replaced secret is accepted by a request that read it before. An
  account with keys only cannot enrol an authenticator, and its recovery codes
  are of no use (`twoFactor.ts:726` against `db/schema.ts:154` and
  `docs/guides/root.md:923`).

**Catalogue.**

- An order prepared before a retirement can be inserted after it, and a retired
  project still takes orders. Enabling a product after its category's
  retirement leaves a live product in a retired category. Deleting a project
  that is retired destroys its active elements and then answers 404. Withdrawing
  an offering and provisioning it are not serialized (`products.ts:1286`, "The
  lock is what provisioning contends on, so the check and the delete see the
  same world"; provisioning does not touch `product_environments`). The rows
  below a target are locked in one step, so that a deadlock of two moves is not
  modelled.

**Drift.**

- `unclaimed_states` has no guard by time: an older report delivered late
  overwrites a newer observation, or, if it is complete, deletes it
  (`driftReports.ts:317-360`, against `:345`, "An observation is only as current
  as the last run that saw it").
- A request that dies between its write of an element and its policy call leaves
  the verdict stale, since its redelivery is. A drift found by an older report
  that arrives after a newer inconclusive one is dropped.

## 7. Plan

Done: the modules of section 2, a run for each, and a module of proofs for each.
Left, in this order:

1. Liveness of `Teardown`: an element with all destroys reported is gone in the
   end, under the fairness that `OrderRun` assumes.
2. Unclaimed states of `Drift` with their own order of reports, once the code
   has one.

## 8. Running

    tlc -workers 2 -config OrderRun_base.cfg MCOrderRun
    tlc -workers 2 -config Teardown_run.cfg MCTeardown
    tlc -workers 2 -config Drift_run.cfg MCDrift
    tlapm OrderRunProofs.tla
    tlapm TeardownProofs.tla

`PROJECT.json` lists every run with its module, configuration and properties.
The largest, `drift`, has 5.1 million distinct states and takes about a minute;
each of the others takes less than three.
