# TLA+ models of the mandate gateway

The gateway lets an AI agent spend a buyer's money under a mandate: it checks a proposed purchase
against the mandate, the budget, the merchant's policy and, above a threshold, a human's approval,
then asks a payment provider to charge, and leaves an audit trail. What can go wrong here and is hard
to test is what happens *between* two statements: two requests for one payment, a process that dies
after the provider was asked and before the commit, an answer that comes after the timeout, a row
read before a lock and used after it. The modules here model the parts that keep money, budgets,
authorizations and the audit trail right in those cases.

Contents: [the system](#1-the-system), [modules and code](#2-modules-and-code),
[runs](#3-runs), [findings](#4-where-the-code-and-the-documents-disagree),
[proofs](#5-proofs), [limits](#6-what-is-abstracted-and-what-is-not-modelled), [plan](#7-plan).

## 1. The system

Paths are relative to `src/`. "Persistent" methods (`async_*`) take a unit of work; most engines have
a second, in-memory set of methods guarded by thread locks.

| Component | State it keeps | Operations | Hard behaviour | What makes it correct |
|---|---|---|---|---|
| Transaction state machine (`apps/api/domain/types.py`, `db/repository/transaction_repository.py`) | `transactions.state`, `provider_status` | lock, transition, mark dispatch, record outcome | a stale ORM object under a fresh row lock | only legal transitions are ever committed |
| Execution engine (`execution_engine.py`) | `execution_attempts`, `_results`, `_in_flight_txs` | `async_execute_payment`, `execute_payment` | concurrent requests, crash around the provider call, retries with the same key | one provider call at a time; a durable claim bars another; COMMITTED means that the adapter reported SUCCESS |
| Recovery worker (`recovery_engine.py`, `workers/recovery_worker.py`) | batch of stuck rows | scan, reconcile, commit batch | races with late requests, late provider answers, swallowed exceptions | a stuck payment is asked about until SUCCESS is reported; no failure without proof |
| Reconcile endpoint (`reconciliation_engine.py`) | none of its own | reconcile one transaction | the same races | the same |
| Provider adapter (`adapters/razorpay_adapter.py`) | none | execute, query status | timeouts, unknown outcomes, answers that are guessed or set by default (section 4) | UNKNOWN never ends as a commit or a failure |
| Budget engine (`budget_engine.py`) | `_budgets`, `_reservations`, locks | register, reserve, commit, release | operations in two steps over a shared dictionary | never overdrawn, each reservation settled once |
| Budget store (`budget_engine.py`, `budget_repository.py`) | `budget_reservations`, memory | `async_reserve/commit/release` | sum and insert, memory ahead of the commit | implements the same ledger |
| Audit ledger (`audit_repository.py`) | `audit_events` hash chain | append, verify | two locks (event loop and row), unique constraints | the chain verifies at every moment |
| Outbox (`outbox_repository.py`, `workers/outbox_worker.py`) | `outbox_events` | create with the unit of work, dispatch | two workers on one batch, lost batches | every record is dispatched; a recovered payment has both records or none |
| Credential authentication (`security/dependencies.py`) | `api_credentials`, audit | authenticate, expire | an exception after the audit event | a refusal is audited |
| Nonces, replay fingerprints, step-up challenges, mandates (`nonce_engine.py`, `replay_engine.py`, `step_up_engine.py`, `mandate_lifecycle.py`) | one table and one dictionary each | issue, consume, record, create, confirm, reject, transition | check-then-act in two units, expiry during a lock wait, rollback after memory was changed | used once, approved in time, verdicts final |
| Authorization aggregator and policies (`authorization_aggregator.py`, `policy_engine.py`, `merchant_policy_engine.py`) | policies | evaluate, aggregate | order of controls, missing inputs | fails closed |
| Cart integrity, intent (`cart_integrity.py`, `intent_normalizer.py`) | none | hash, bind, compare | amounts at their limits | the paid cart is the approved one |
| Webhook engine (`webhook_engine.py`) | `webhook_events`, transactions | process an event | duplicates, reordering, unlocked read before the transition | a terminal state is not overwritten |
| Receipts (`receipt*.py`) | `receipts` | sign, verify | - | only what was signed verifies |
| Merchants, keys, rate limiter (`routers/merchants.py`, `security/`) | dictionaries and tables, per-key histories | create, update, authenticate, revoke, limit | memory written before the database, awaits during an authentication, window boundaries | keys serve their holder, the accepted policy is served, at most N calls per window |
| Commerce (`apps/api/commerce`) | bindings, order outcomes, spending, proofs | search, optimize, checkout, bind, revalidate, settle | memory-only registries, an order before its binding, a blocking call between check and record | every order accounted for, daily limits hold for a life of the process, answers are the best of what was found |
| Agent endpoints (`apps/api/agent`) | purchase plans, consumed tokens | plan, confirm | tokens forgotten at a restart | a plan is committed once |
| Orchestrator (`agent/orchestrator`) | executed intents; mandates, policies, products of the routers | execute intent | thread pool, check-then-act cache, dictionaries ahead of the tables | a repeated intent is not charged again before a restart, a revocation sticks while memory or table know it, reports repeat the adapter's |
| Agent runtime (`agent/graph`, `agent/tools`, `agent/stepup`, `agent/mcp`) | agent states, tool counters, challenges | run, call tools, step up | one state moved by two threads, shared counters | runs end, tool use is bounded, decisions stand |
| Observability, deployment, AI, UI, SDK | logs, reports, scores | - | - | outside the scope, see section 6 |

How they interact. A request handler opens one `AsyncUnitOfWork` (one database session and
transaction, READ COMMITTED), calls engines with it and commits at the end; an exception rolls
everything back. Engines share the database rows and, inside a process, the dictionaries of the
engine objects. The workers are processes of their own that poll the same tables. The provider is
called in the middle of the request's unit of work, while its row lock is held. PostgreSQL row locks
(`SELECT ... FOR UPDATE`) and unique constraints are the only synchronisation between processes;
there are no lock timeouts.

The things that are hard to test are listed with their lines under "hazards" in `PROJECT.json`.

## 2. Modules and code

`PROJECT.json` maps every definition to its lines. Definitions whose comment says *Fault* are wrong
variants of the definition after them; they are used to see that a property notices the fault.

### Payment path

`TransactionStates` -> `PaymentStore` -> `ExecutionEngine` -> `RecoveryEngine` -> `PaymentGateway`
(each EXTENDS the one before), `MCPaymentGateway`, `PaymentGatewayProofs` (which also covers the
webhooks).

* `TransactionStates`: the states, the legal transitions, and what a sequence of
  `transition_transaction_state` calls leaves behind when one of them raises.
* `PaymentStore`: `db` (committed rows), `attempts`, `outbox`, `lock` (row locks), and per session
  `view` (the ORM objects it loaded, with its changes), `claim` and `events` (its uncommitted rows).
  `view[s][t]` may be older than `db[t]`: a later `FOR UPDATE` takes the lock but does not refresh a
  loaded object. `Commit` and rollback are single steps.
* `ExecutionEngine`: one request is one coroutine that walks through `pc` = idle, read, dispatch,
  claim, enter, call, wait, finalize, return or raise, done; there is a step boundary at every
  database statement that can wait, and around the provider call. Gate verdicts come with the call
  (`Gates`). `Crash(p)` ends all requests of a process and empties its `_results` and
  `_in_flight_txs`; `charge[r]`, what the provider did, is external and survives. What the adapter
  reports (`outcome`, the status answers) is a matter of its own: it may say SUCCESS of a payment that
  was never captured, and `confirmed` notes the transactions it has said it of.
* `RecoveryEngine`: the worker's batch (scan, lock, ask, apply, next row, commit; an exception is
  swallowed per row; the batch may be lost) and the reconcile endpoint.
* `PaymentGateway`: the composition, fairness and properties.

### Budget

* `BudgetLedger`: the abstract promise - a reservation is taken if the limit allows it and settled
  once, each in one step.
* `Budgets`: the mandates, amounts and reservations that the two implementations share.
* `BudgetEngine`: the in-memory engine, operations in two steps (budget under the mandate's lock, then
  the shared dictionary). A reservation's id is a uuid that the engine draws for the call (`IdsOf`) or
  one that a caller of any mandate supplies (`SuppliedIds`), and a budget may be registered again for
  the mandates in `Resettable`. `BudgetStore`: the persistent methods with row locks, rollback, restart
  and the engine's memory. They are shown to implement the ledger (`ImplementsLedger`,
  `StoreImplementsLedger`); `BudgetProofs` extends both.

### Audit chain and outbox

* `AuditChain`: units of work and what each kind of them writes: the recovery service an audit event and
  an outbox record for each payment, an execution only the outbox record, reconciliation and webhooks
  only the audit event, an authentication an audit event. `append_event` is split at its waits: the
  event loop's lock, the `FOR UPDATE` of the latest row, the insert, which waits for or is refused by
  the unique sequence number. A hash is the id of its event. `AnswerAuth` is the authentication of a
  credential.
* `OutboxWorker`: the worker processes, and the properties of both.

### Authorization records

* `AuthorizationStore`: rows of four kinds; a unit of work makes calls, each of which reads the
  clock, waits for its row and decides. `row` is committed, `draft` is what the holder of the lock
  sees, `passed[u]` is what unit `u` was told it may go ahead on, `memory[p]` is the engines'
  dictionaries of process `p`.

### In-process authorization and execution

`SecurityControls` -> `InMemoryExecution` (with `TransactionStates`) -> `AuthorizationPipeline`.

* `SecurityControls`: the evaluators as ordered lists of `Rule`s, each a failure condition and a reason;
  `FirstFailure` is the early return. Normalization, `MandateEvaluator`, `MerchantPolicyEngine`,
  `PolicyEngine`, `CartIntegrityVerifier`, the step-up zones, the aggregator. No variables.
* `InMemoryExecution`: `transactions`, `results`, `dispatched` (a count of provider calls) and
  `reported` (the first definite report of the adapter on a payment that was sent). `ExecutePayment` and
  `ReconcileStatus` run under the engine's RLock: one step each.
* `AuthorizationPipeline`: per caller a record `call` with its place in the sequence propose, evaluate,
  replay check, nonce, step-up, aggregate and execute; `nonces`, `prints` and `challenges` are the
  engines' dictionaries. Between two steps other callers run, the mandate changes and time passes.
  The order is that of the integration tests: the application has no single caller.

### Webhooks

* `WebhookEngine`, over `PaymentGateway`: a delivery looks its event id up, inserts the record (which
  waits for an uncommitted one with the same key), reads the transaction without a lock, applies the
  transition with one, and the router commits or rolls back. `hooks` are the committed records,
  `inserter` the unit that has an uncommitted one.

### Orchestrator and receipts

* `CommerceOrchestrator`, over `InMemoryExecution`: `execute_intent` as begin (cache lookup), evaluate,
  execute, finish (cache write); the mandate, merchant and product endpoints that write the same
  dictionaries, the mandate's row written after its entry; `get_mandate`, which reads the table and falls
  back on the dictionary when that raises; `Restart`, which empties the dictionaries and seeds them
  again. `origin[t]` notes which call made a transaction, in which life of the process, and which were
  answered before it; `revokedIn[m]` in which life a revocation was answered with 200.
* `ReceiptLedger`, over it: the in-memory chain, signing and verification with the key that the caller
  gives, with or without the ledger and the transaction. A hash is its content, a signature is the hash
  with the key of the process, which is made anew at each start.

### Agent runs

* `AgentRuntime`: the loop of `AgentRuntime.run`. It reads `current_state` and then runs the node for
  it, as two steps, since a step-up flow may move the state in between. One action per node and per
  exit of the loop. `names`, `keys` and `counts` are the tool registry, whose lock makes test and
  increment of a counter one step. What the model and the tools answer is arbitrary.
* `AgentStepUp`, over it: `process_step_up_flow` in its three critical sections (look up, create or
  decide, move the state), the manager's challenges, the hand-over of a proposal, MCP masking.

### API process

* `Shopping`: product search, deduplication, ranking, comparison and the cart optimizer as operators on
  what the search services answered. `AgentPayments`: policy, daily spending, delegations, orders, x402
  payments; `call` is the create-order request inside the blocking Razorpay call, `answered` adds up
  what orders were answered for and is not forgotten at a restart, which `lives` counts per day.
  `MerchantAccess`: merchants, policies, API keys, authentication in steps at its awaits, the rate
  limiter; `database` is none, up or down.
* `AgentCheckout` composes the three with purchase plans and merchant orders. The groups share no state,
  so a behaviour exercises the one that `workload` names.

## 3. Runs

Every passing run also exercises all actions of its specification.

| Run | Instance | Checks | What it shows |
|---|---|---|---|
| `requests` | 3 requests in 2 processes, 1 transaction, 2 keys, all gate verdicts, crashes, 1 recovery worker | `OneDispatcher`, `DurableClaimBarsCalls`, `OneAttemptPerKey` | the row lock makes claim, call and recording one critical section across processes |
| `recovery` | 2 requests, 2 transactions, 1 worker, 1 reconcile call, fair | `CommittedIsReported`, `FailureIsProven`, `StuckIsAskedForEver`, no deadlock | no commit without a reported SUCCESS, no failure without proof, and a payment that stays durably EXECUTING is asked about again and again, without SUCCESS being reported |
| `double` | 2 requests in 2 processes, 1 worker, 1 reconcile call | `NoDoubleCapture` | violated, see section 4 |
| `threads` | 2 threads, 2 mandates, 3 drawn ids and one that callers of both supply, one budget registered again | `WithinLimit`, `SettledOnce`, `ImplementsLedger` | drawn reservations are settled once, and the two-step operations of a mandate registered once are linearizable |
| `sessions` | 2 sessions, 2 mandates, 2 reservations, rollback and restart | `MemoryAgreesOnSettled`, `StoreImplementsLedger` | the persistent methods implement the same ledger |
| `events` | an authentication, a webhook and an execution in the API process, a recovery batch of two in its own, 2 outbox workers, one failure, fair | `ChainValid`, `RecoveryWritesBoth`, `UnitsEnd`, `EveryEventDispatched` | the chain verifies at every moment, every record is dispatched, and a recovered payment has both records or none |
| `records` | 3 units in 2 processes, one nonce, challenge and mandate, 2 contexts, 3 calls | `SingleUse`, `ApprovedInTime`, `VerdictRemembered`, `VerdictsFinal` | authorizations are used by one committed unit, in time and for good |
| `proposals` | 2 threads, 1 transaction; proposals that are honest, over the cap and with a wrong total; a mandate with a scope and one without; one policy | `WithinMandate`, `MemoryTruthful`, `EnginesAgree`, `AnsweredIsFinal` | what reaches the provider is inside mandate and policy; nothing is sent twice; the two implementations of the policy rules agree |
| `webhooks` | 3 deliveries of 4 events of every type, 1 request, 1 worker, lost units | `AcknowledgedIsDurable`, `CommittedOnProvidersWord`, `EffectWithRecord` | an event takes effect once, with its record, only durable ones are acknowledged, and only the adapter or a signed delivery makes a payment COMMITTED |
| `intents` | 2 clients with one key, 1 administrator, a seeded and a new mandate, 1 restart, with and without a database | `ReplayIsSafeUntilRestart`, `RevocationSticks`, `ReportTruthful`, `ReceiptVerdict` | the orchestrator's answers repeat the adapter's reports, and repeat themselves where calls do not overlap and no restart lies between |
| `agents` | 2 agents of one session; both run, or one runs beside flows of both; fair | `ToolUseIsBounded`, `RunsSettle`, `DecisionStands` | runs end within their limits whatever else moves their state |
| `checkout` | the workloads plan, pay, order, shop and access, 2 of each actor | `CommitOnce`, `DailyLimitPerLife`, `OrdersAccounted`, `AnswersAreBest`, `CallsAreLimited`, `ServedToHolder`, `AcceptedPolicyServed` | the endpoints keep their promises across restarts, outages and midnight |

Each takes at most three minutes on two cores.

Why the bounds are enough. Every property about exclusion or order is about two actors and one row; a
third request lets one finish and leave a durable attempt while two others race, and a second
transaction lets a batch hold one lock while it waits for another. Two keys distinguish a retry from a
new request; one payload suffices because a different payload is refused like a denied gate. Amounts 1
and 2 under limits 2 and 3 contain the exact fit, the overrun by one and the sum of two; in `threads`,
two threads suffice because an operation is two steps, and the supplied id and the budget registered
again are the interference that the drawn ids and the other mandate must survive. In `events` a unit
with two items is what can hold a row lock while it needs the event loop's lock again. In `records`, Ttl
= MaxTime = 1 has a moment before, at and after the expiry of a record; three calls let a record be
created, used and used again. In `proposals` one transaction is enough because its records are keyed by
transaction, and two callers race for it; one proposal meets the cap exactly, one exceeds it by the
step-up band and stays below the merchant's limit of 12, one states less than its items cost. The
merchant's limit and the other refusals of the evaluators are covered by the theorems, for every
proposal, mandate and policy. In `intents` two transactions are what two calls of one key can make; the
seeded mandate has no row there, the theorems let it have one. In `agents` an invocation limit of 2
under two runs, and configured calls below and above it, make each limit the one that is hit. In
`checkout` a day has two moments so that a call can cross midnight, the daily limit of 4 is hit exactly
and exceeded by orders of 2, a restart on the same day forgets the spending, and the rate window is two
ticks long, so that a time stamp lies inside, on and outside its border. The safety theorems of section
5 hold without bounds.

Bounds named in the modules: `MaxFailures` (failures from outside, `AuditChain`), `MaxTime` and
`MaxCalls` (`AuthorizationStore`), `MaxRestarts`, `MaxEvents` and `MaxReceipts` (`intents`),
`MaxChallenges` and `MaxFlows` (`agents`), `HalfDays`, `MaxLives`, `MaxProofs`, `MaxCommits`,
`MaxOrders` and `MaxVersion` (`checkout`). `BatchSize`, `MaxInvocations`, `CategoryLimits` and the item,
price and amount limits are the code's own. Deadlock checking is off where a finished system has no
further step (`threads`, `events`, `records`, `proposals`, `intents`, `agents`, `checkout`); there
`UnitsEnd` states the absence of deadlock for `events`. It is on in the payment runs, where an idle
gateway stutters explicitly (`Quiescent`), and in `sessions`.

Fairness.
* `PaymentGateway.Fairness`: a started coroutine runs on (the event loop is fair); a row lock that is
  free again and again is granted in the end (PostgreSQL queues lock waiters), hence strong fairness
  of the steps that take one; workers poll in an endless loop; a worker is not killed in every batch for
  ever. The last one is an assumption about the environment, and without it the property is false.
  Nothing is assumed of the provider: it may leave a payment undecided or answer UNKNOWN for ever.
* `OutboxWorker.FairSpec`: weak fairness of the units and of the workers' polling; failures from
  outside are bounded by `MaxFailures`.
* `AgentStepUp.FairSpec`: weak fairness of each run's next step, since a thread in the loop is never
  blocked for ever (the registry's and the state's locks are held for one step). Nothing is assumed
  about flows, models, tools or cancellation.

## 4. Where the code and the documents disagree

`double` is a run that TLC finds violated: the provider is called before the claim is committed. A
crash or failed commit in between leaves AUTHORIZED and no attempt, and the next request captures a
second time (`SECURITY.md`: "NO PAYMENT EFFECT MAY ACCIDENTALLY EXECUTE TWICE.").

The models contain further behaviour that a reader may not expect. The passing properties are worded
around it and say what remains true.

What COMMITTED stands for:

* A SUCCESS of the adapter is not a capture. `RazorpayHttpAdapter.execute_payment` posts an order and
  reports SUCCESS for every answer that is no error, an order with status `created` included
  (`razorpay_adapter.py:249-306`), and `async_execute_payment` commits on it. Its status query reads a
  body without a status as `captured` (line 381) and reports every other status, `failed` too, as
  PENDING. The mock adapter reports SUCCESS unless it is told otherwise, and it is what the orchestrator
  (`agent/orchestrator/engine.py:62`), the recovery worker (`workers/recovery_worker.py:35`) and the
  reconcile endpoint (`routers/transactions.py:326`) use; the HTTP adapter is constructed by tests only.
  The models let the adapter report anything the code can report, whatever the provider did, and the
  properties speak of what was reported.
* Recovery asks about `provider_payment_id or transaction_id` (`recovery_engine.py:124`). A provider
  refuses a reference it does not know, the answer is UNKNOWN, and the payment may stay EXECUTING for
  ever; all that can be said is that it is asked about again and again (`StuckIsAskedForEver`).
* A request whose gate was refused leaves REJECTED in its process's `_results`. A later request for the
  same transaction passes its gates, moves the row to EXECUTING, claims an attempt, finds the cached
  refusal and commits without any call of the provider; recovery then asks about a payment that was
  never requested, and a default or guessed SUCCESS commits it.
* `reconcile_payment_status` in memory: "If transaction is already COMMITTED or ROLLED_BACK, return
  cached result" (`execution_engine.py:310`), but `is_terminal` is false of both, so the provider is asked
  again and an UNKNOWN answer replaces the cached result. The transaction's state stays
  (`MemoryTruthful`).
* The orchestrator gives every allowed call a receipt whose hashes, signature and reference are made
  up, however its payment went (`engine.py:319-353`). `ReportTruthful` is about the state and the trace
  of the answer.

What restarts and failures forget:

* `_executed_intents` (`engine.py:67`) is empty after a restart, and an intent that was answered before is
  charged again under the same key. `ReplayIsSafeUntilRestart` claims nothing across lives of the process.
* `get_mandate` swallows a database error and answers from the dictionary (`mandates.py:214-219`). Seeded
  mandates are ACTIVE again after a restart, so a revoked one may be shown as ACTIVE and charged; another
  one is a 404. `RevocationSticks` is about the life of the process in which the revocation was answered,
  and beyond it about mandates that are not seeded, with a database.
* `_daily_spending` (`policy.py:97`) is empty after a restart, and the same day allows a second full daily
  limit. `DailyLimitPerLife` bounds what was answered on a day by the limit times the lives of that day.
* The verifier checks a receipt under the public key that its caller passes and looks at the audit chain
  only if it is given one (`receipt_verifier.py:159-168`). Without a ledger a receipt is good for ever,
  with one it is good until the next event of its transaction or the end of the process
  (`ReceiptVerdict`).

Where a document promises more, or less:

* Section 16 of `PROJECT_CONTEXT.md` and `StepUpEngine.evaluate_authorization_step_up`
  (`step_up_engine.py:332-409`) let an approved step-up carry an amount of up to 1.10 times the cap. The
  engine's verdict is one of several: `MandateEvaluator` refuses every amount above the cap
  (`mandate_lifecycle.py:586-602`), the aggregator and the execution service ask for its ALLOW, and so no
  confirmed step-up ever reaches the provider above the cap. `WithinMandate` states what the code does.
* `replay_repository.py:33-36` protects a fingerprint "within its valid protection window", line 149 says
  "Expired records allow new registration", and `test_m05_3_replay_repository.py:69` and
  `test_m05_3_replay_repository_integration.py:109-128` expect it. The new record has the primary key of the
  expired one, which nothing deletes, so the database refuses the insert and the repository raises; the
  unit test mocks the session. `SingleUse` therefore holds beyond the window too.
* Audit trail and outbox are not two views of the same events. Only the recovery service writes both for
  a payment; `async_execute_payment` publishes without an audit event, `ReconciliationService` and
  `WebhookEngine` append an audit event and publish nothing. `RecoveryWritesBoth` is confined to the first.
  Event ids are cut from longer ones (`evt_rec_` and 12 characters of the transaction's id, `evt_wh_` and 16
  of the event's); that they differ is an assumption of `AuditChain`.
* A reservation id may be supplied by the caller (`budget_engine.py:203`) and the dictionary is shared, so
  an id used for two mandates overwrites a reservation. `register_budget` ("Register or reset", line 157)
  forgets the budget but not the reservations, which can then exceed the limit together. `WithinLimit`
  holds of the budget's own numbers; `SettledOnce` and `ImplementsLedger` are about ids that the engine
  drew and, the latter, about budgets that are registered once.

And beside these:

* `lock_transaction_for_update` does not refresh a row the session has loaded, so a request that read
  AUTHORIZED before another one committed overwrites COMMITTED with EXECUTING, and a webhook that read
  the row before a recovery committed overwrites it too.
* `record_provider_outcome("FAILED")` has already moved the row to FAILURE when the services ask for
  FAILURE again; the second transition raises, the recovery worker swallows it, and the transaction
  stays in FAILURE with no event.
* A request that finds another one's unfinished attempt answers success.
* The audit event of a refused API key is rolled back by the exception that refuses it.
* A human's rejection of a persistent challenge is never durable: `async_reject_challenge` raises after
  the row was changed.
* Two overlapping intents with one idempotency key are both charged.
* `update_merchant_policy` keeps the policy's id, so its row violates the primary key: the update is
  answered as an error while the process already decides by it.
* A repeated merchant order is created at the merchant before its binding is refused.

So what the passing runs and the theorems say of payments is what remains true: at most one dispatcher
at a time, a *durable* claim bars further calls, and COMMITTED implies that the adapter reported SUCCESS
or, with webhooks, that a signed delivery said so.

## 5. Proofs

Every safety property that a run checks, state or action, is a theorem here but for the one a run
finds violated. TLAPS checks these for every value of the constants, under the assumptions that the
modules name (disjoint sets of actors, natural numbers, `Nobody` not an actor, lists that are lists);
TLC evaluates those assumptions in the runs. The module names of the table end in `Proofs`.

| Module | Theorem | Statement | Extra assumption |
|---|---|---|---|
| `PaymentGateway` | `TypeCorrect` | `Spec => []TypeOK` | |
| | `DispatchExclusion` | `Spec => []OneDispatcher` | |
| | `ClaimBarsCalls` | `Spec => []DurableClaimBarsCalls` | |
| | `AttemptsUnique` | `Spec => []OneAttemptPerKey` | |
| | `CommitsAreReported` | `Spec => []CommittedIsReported` | |
| | `FailuresAreProven` | `Spec => FailureIsProven` | |
| | `AcknowledgementsDurable` | `HookSpec => []AcknowledgedIsDurable` | |
| | `CommitsOnProvidersWord` | `HookSpec => []CommittedOnProvidersWord` | |
| | `EffectsRecorded` | `HookSpec => EffectWithRecord` | |
| `Budget` | `BudgetNeverOverdrawn` | `Spec => []WithinLimit` | none, repeated registration included |
| | `ReservationSettledOnce` | `Spec => SettledOnce` | none: the property is about drawn ids |
| | `EngineRefinesLedger` | `Spec => ImplementsLedger` | none: about drawn ids and budgets registered once |
| | `StoreRefinesLedger` | `StoreSpec => StoreImplementsLedger` | |
| | `MemoryAgrees` | `StoreSpec => []MemoryAgreesOnSettled` | |
| `AuditChain` | `AuditChainValid` | `Spec => []ChainValid` | none: `BatchAloneInLoop` is not needed for safety |
| | `RecoveriesPublishedAndAudited` | `Spec => []RecoveryWritesBoth` | |
| `AuthorizationStore` | `RecordsSingleUse` | `Spec => []SingleUse` | |
| | `RecordsFinal` | `Spec => VerdictsFinal` | |
| | `ChallengesApprovedInTime` | `Spec => []ApprovedInTime` | |
| | `VerdictsRemembered` | `Spec => []VerdictRemembered` | |
| `AuthorizationPipeline` | `MemoryIsTruthful` | `Spec => []MemoryTruthful` | |
| | `EnginesAlwaysAgree` | `Spec => []EnginesAgree` | |
| | `AnswersAreFinal` | `Spec => AnsweredIsFinal` | |
| | `PaymentsWithinMandate` | `Spec => []WithinMandate` | |
| | `PaymentsWithinCaps` | `Spec => []WithinCaps`, a part of `WithinMandate` | |
| `ReceiptLedger` | `ReplaysSafeUntilRestart` | `Spec => []ReplayIsSafeUntilRestart` | |
| | `RevocationsStick` | `Spec => []RevocationSticks` | |
| | `ReportsTruthful` | `Spec => []ReportTruthful` | |
| | `ReceiptVerdictExact` | `Spec => []ReceiptVerdict` | |
| `AgentStepUp` | `McpAgreement` | `McpListIsCallable`: what MCP lists is what it can call | none, every scope |
| | `ToolUseBounded` | `Spec => []ToolUseIsBounded` | |
| | `DecisionsStand` | `Spec => DecisionStands` | |
| `AgentCheckout` | `ServiceToHolders` | `Spec => []ServedToHolder` | |
| | `PoliciesServed` | `Spec => []AcceptedPolicyServed` | |
| | `DailyLimitKept` | `Spec => []DailyLimitPerLife` | |
| | `OrdersAccountedFor` | `Spec => []OrdersAccounted` | |
| | `CommitsOnce` | `Spec => []CommitOnce` | |
| | `LimitsHold` | `Spec => []CallsAreLimited` | |
| | `AnswersBest` | `Spec => []AnswersAreBest` | |

### The inductive invariants

Each proof has one lemma per action, and the invariant is a conjunction of named parts so that an
action is confronted only with the parts it can disturb.

* Payment, `IInv`. `OneDispatcher` follows from `LockInv` (a request between dispatch and recording
  holds its row's lock). `OneAttemptPerKey` needs `ClaimInv`: an uncommitted claim belongs to a lock
  holder and has no durable twin, which stays true because a claim is made only after looking for an
  existing attempt under the lock, and nobody else can commit one for that row meanwhile.
  `CommittedIsReported` needs `ConfirmInv`: COMMITTED and its event are backed by a reported SUCCESS
  already while they sit in a session's view. `ChargeInv` says which requests have called the provider.
  `ViewInv` and `AskInv` say that what is changed or asked about was loaded and is locked. `FailInv`
  adds what stands behind FAILURE and ROLLED_BACK, in the database and in every session's view: calls
  that have all failed, with none on its way.
* Webhooks, `HookInv`, over the same lemmas. `IInv` has a parameter, the transactions that something
  else than a report of the adapter vouches for: none in the payment path, those that an acknowledged
  delivery endorses under webhooks. `DeliveryInv` ties an uncommitted `webhook_events` row to
  the one delivery that inserted it; `AnnounceInv` says what stands behind a COMMITTED that a delivery
  is about to write.
* Budget engine. `TypeOK /\ WithinLimit` is inductive. `SettledOnce` also needs `JobInv`: the
  reservation a thread has yet to write belongs to the mandate whose lock it holds, so that no two
  threads have the same drawn one to write. The refinement maps the ledger's book to what callers of a
  mandate observe, the pending write of a thread included, and needs `BookInv`: of a mandate whose budget
  is registered once, the observed reservations sum up to no more than spent plus reserved. It is no
  equality, as a reservation under a supplied id may have been overwritten by another mandate's
  (`SumPart`). Entering the lock is then the step of the ledger, and writing
  the reservation is a stutter.
* Budget store, `StoreInv`. A session that has computed its sum holds the mandate's lock, and its sum
  still is the sum of the committed rows when it commits (`WriterInv`, `Pending`); two sessions never
  write the same id (`OneWriterPerId`); what memory holds of a settled row is that row.
* Sums. The ledger's total is `SumFunction` of the community modules, a recursive function over finite
  sets. What it returns for one more or one fewer element is proved from its definition by taking the
  smallest finite set on which the claim fails (`SmallestSet`, `SumsExist`, `SumsAgree`, `SumRemove`),
  with the well-foundedness of the naturals in place of an induction rule.
* Audit chain, `ChainInv`. No two rows, committed or flushed, have the same number (`Numbered`, from
  the unique constraint), each row links to its predecessor in what its unit sees (`Chained`), and what
  a unit selected still exists and is not older than its own rows (`Selected`). `Bounded` replaces
  finiteness: every set of rows in sight has a latest one. `OutboxInv` adds that the audit event and
  the outbox record of a payment that a recovery unit settles differ only between the unit's two
  inserts.
* Authorization records, `AuthInv`. A unit that passed a row holds its lock, and wrote a final status
  over one that is not (`Holding`); once it commits, the final status is durable (`Durable`); what is
  durable and final is what every later unit reads (`Settled`). `VerdictInv` builds on it: what a
  dictionary holds of a passed row is what the unit drafted, and an approval is drafted with a time
  before the deadline, read before the wait for the lock.
* Pipeline. `CallInv` says what a caller's verdicts stand for, in fields that no later step changes;
  `MemInv` that a transaction which reached the provider is known, has a result, agrees with the first
  definite report on it and was in scope. The evaluators are lists of rules of which the first failing
  one counts; `AllPass` shows that they allow exactly when every rule passes, and `EnginesAgree` follows
  rule by rule. The verdicts of `WithinMandate` are about the proposal and its cart, what was paid is
  about the hash that was executed: `CartHashFields` says what the hash keeps of a cart, and needs that
  sorting the items renames their places one to one (`SortRenames`, as no two places have the same rank)
  and that a sum does not depend on the names (`SumRelabel`, proved as the sums of the ledger are).
* Orchestrator and receipts. `MandateInv` relates the dictionary, the table and the life of the process
  in which a revocation was answered, while one of the two is written before the other; `IntentInv` says
  what a call in flight and a cached answer know of their transaction; `ReceiptInv` relates a receipt,
  what was signed and the events of the chain.
* Agents. `CountInv`: what a session has executed and is about to execute is at most the counter plus
  one allowance per reset, since an invocation is counted before it is executed and the counters may
  be reset in between. `ChallengeInv`: a decided challenge has a human's decision for its own terms.
* API process. `AccessInv`, `PayInv`, `OrderInv` and `PlanInv`, one per group of endpoints: a call
  between two awaits knows no more than what its credential showed when it began; the order a call
  is creating still fits the day it will be recorded on, as nothing else is recorded while the call
  blocks and a day that begins meanwhile begins at zero, and what was answered on a day is at most the
  present spending plus one limit per earlier life; an order has its
  outcome only through its own payment; a token is consumed no later than its plan is committed.
  `LimitInv`: the times the limiter counts, once those outside the window are dropped, *are* the times
  of the calls it let through within the window, so that their number stays within the limit. It is
  not enough to bound the limiter's list, which is cut only when its key calls again. `WithinAppend`
  and `WithinTwice` say how dropping the old times commutes with a new call and with the clock.
* Shopping answers. `AnswersAreBest` is about one answer, so it is inductive as it stands; the work is
  in the operators. `ElementsAtType` and `DeduplicateType` say that what is kept of a list was in it,
  hence that every candidate has what discovery makes sure of (`Sound`). Scores are integers with a
  bound, so the best one exists (`BestScore`), and among the best the first (`FirstBest`, and
  `LexFirst` for the order in which the carts are made). All products of a cart are alike but for
  price and seller (`ScoreIsPoints`), and fewer sellers or a lower cost mean strictly more points
  whatever the strategy (`PointsGrow`, for budgets above 0: with 0 the scoring raises).

`McpAgreement` is a fact about two operators, by cases on where a tool lies in the scopes.

### Only model-checked

* The liveness properties `StuckIsAskedForEver`, `UnitsEnd`, `EveryEventDispatched` and
  `RunsSettle`: the prover has no rules for fairness.
* That the payment runs and `sessions` have no deadlock: it is about `ENABLED`.
* `NoDoubleCapture`, which is violated (section 4).

In the API process lists are filtered, summed and deduplicated by recursive functions on their
places (`TimesWithin`, `ElementsAt`, `Deduplicate`, `CartCost`), not by `SelectSeq` and `FoldLeft`,
whose operator arguments the provers cannot instantiate. Where the library has an induction rule,
which also takes an operator, the proofs argue by a least counterexample (`NatMin`).

## 6. What is abstracted, and what is not modelled

* The database is PostgreSQL with row locks. On the SQLite fallback `FOR UPDATE` is not issued, and
  none of the exclusion results apply.
* The adapter call is synchronous Python inside a coroutine and blocks the event loop; the model lets
  other requests of the process run during it, which only adds behaviours.
* The unit of work of `async_execute_payment` is committed by its caller. There is no caller in the
  application yet, only tests; the model's caller commits when the method returns and rolls back when
  it raises, or fails to commit.
* Transactions start AUTHORIZED, as the authorization pipeline leaves them; their creation and the
  states before are not actions.
* `mark_failed` of the outbox follows a database error only, which has aborted the transaction; the
  batch is then lost as a whole (`LoseBatch`).
* The provider is external: a call is captured, fails or stays pending and is decided later. What the
  adapter reports is independent of it, with one exception: in `ExecutionEngine` a status query reports
  FAILED, which only the mock adapter can, only if every call made for the transaction failed.
  `FailureIsProven` rests on that; without it a mock that is told to report failures makes a captured
  payment a FAILURE.
* `AuthorizationStore` leaves out lookups (a lookup before a change in the same unit would bring back
  the stale object of section 4), different ttls, and amount and merchant of a confirmation, which
  the persistent method does not compare. Fingerprints are injective.
* `BatchAloneInLoop`: a unit that appends several audit events has its process to itself, as the
  recovery worker has. With such a unit in the API process, TLC finds the deadlock of event-loop lock
  and row lock that the assumption excludes.
* `BudgetEngine` assumes of the ids only that a drawn uuid is drawn once and that no caller supplies it.
  The ids that callers supply are shared by all mandates, and nothing is claimed about their
  reservations, which can be overwritten through another mandate, since a call holds only its own
  mandate's lock.
* The migration scripts do not create `execution_attempts`; the model follows the ORM's table.
* `InMemoryExecution` and `CommerceOrchestrator` abstract a cart to what the rules compare; SHA-256 is
  injective, an Ed25519 signature cannot be made without the key.
* `SecurityControls` scales amounts down; Python integers do not overflow. The
  aggregator and the execution service name the controls differently (`MANDATE_SCOPE_LIFECYCLE`,
  `MANDATE_EVALUATION`) and leave it to their caller to translate; the modules use one name for both.
* Ids of audit events are unique in `AuditChain`, and a hash covers its event; the code's truncated ids
  (section 4) are assumed to differ; a collision would be refused by the primary key and end the unit.
* `PipelineAssumption` and `ShopAssumption` ask that carts, search results and shopping lists are lists
  and that their quantities and prices are integers, as their types in the code do; an item may be
  asked for zero times and a budget may be zero.
* Scores of products and carts are multiplied by their denominators, so that they are integers; what
  they read of a product's text is an attribute of the search result.
* `AgentCheckout` has one process; its memory is not shared with others, and what a second process
  would not know is not in its properties.
* Not modelled at all: prompts and text patterns, HTTP transport, logging, metrics, incidents,
  configuration, deployment checks, UI, SDK and scripts; the offline consistency audit, which only
  tests call; the second rate limiter of `security_hardening.py`; the dashboard's list of transactions
  (`routers/transactions.py`) and the webhook subscriptions, lists that nothing else reads.
  `PROJECT.json` says why for each.

## 7. Plan

The behaviour that the code carries out on money, authorizations, orders and keys is modelled, and every
safety property of it that the runs check is proved. What is left, in the order of its worth:

1. The safety half of the liveness properties as lemmas: that a stuck payment is in the set the
   recovery worker scans, that an event which is not dispatched is selected by the next batch.
2. A caller of `async_execute_payment` once the application has one, with its own commit and rollback.
3. The offline consistency audit and the second rate limiter, should something outside the tests call
   them.
