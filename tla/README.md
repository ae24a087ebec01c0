# Formal model of the banking lab and its EKS assessment tool

TLA+ modules, TLC runs and TLAPS proofs for the two programs of this
repository: the banking applications (`src/app`) and the cluster assessment tool
(`src/tools/eks-assessment`). The rest, a Kubernetes lab with its manifests,
scripts and infrastructure code, is listed below as not modelled.

## 1. Inventory

### The banking system

```
banking-web ──> transaction-service (.NET) ──┐
                 transactions table          │ POST /internal/v1/transfers
                                             v
                                      account-service (Java)
                                      accounts, ledger, processed_transfers,
                                      pix_keys, cards, card_payments
                                             ^
page ──> store-service (Go) ──> acquirer-service (.NET)
retry key    no state            payments table, POST /internal/v1/card-payments
```

| component | state it keeps | operations | hard behaviour | what makes it correct |
|---|---|---|---|---|
| account-service: money (`AccountService.java`) | balances, ledger entries, processed transfers; row locks while a transaction runs | transfer, reverse, account creation | READ COMMITTED transactions that interleave statement by statement; crashes; retries with the same key | no lost update, ledger = balance, one movement per key and one reversal per transfer where deliveries do not overlap, no deadlock |
| account-service: cards (`CardService.java`) | cards, credit lines, card payments; advisory, row locks | issue, authorizeAndCapture (list, reveal, purchases read) | duplicate deliveries of one payment, four kinds of lock | one decision per payment, taken once from balance or line, never beyond the limit |
| account-service: identity (`AuthService.java`, `CpfService.java`) | credentials, failed login count, lock until | register, login, confirm, PIX key | concurrent wrong passwords, check-then-insert races | lockout after five failures, unique CPF and PIX key |
| transaction-service (`TransferCoordinator.cs`) | transactions rows: payload and status | POST (create, call, complete or fail), GET | statements that commit one by one, a call that outlives its caller, retries | the row's payload is what moves, the status never contradicts the money |
| acquirer-service (`PaymentCoordinator.cs`) | payments rows: fingerprint and decision | POST payment | issuer time-out, retry of a pending payment, two attempts that decide one row | the first decision is the only one and is the issuer's |
| store-service (`main.go`, `static/app.js`) | none; the page keeps the retry key | checkout | a time-out shorter than the acquirer's; when the page drops its key | the page shows what was decided, a repeated submit is charged once |
| database initialisation (`DatabaseInitializationRetry.cs`) | attempt count and delay | retry loop | boundaries | at most `maxAttempts` attempts, delays within the bounds |
| cpu-producer, cpu-worker | a RabbitMQ queue | publish, consume, acknowledge | redelivery after a crash | no job is lost |

account-service, transaction-service and acquirer-service are separate
processes with separate schemas; they interact only by HTTP calls that can be
lost, abandoned or answered late, and are all retried with the client's UUID.
Transfers and card purchases interact through the accounts rows and the ledger
of account-service.

### The assessment tool

```
page ──POST──> assessment_dashboard.py ── runs ──> collectors (sub-processes)
               LOCK, one supervisor                inventory, AWS, cloud, CIS,
               metadata.json                       operation, blue-green, gates
bin/eks-assessment.sh ── collector_registry.py ──> the same collectors
               collector-state.json                       │
collection_bundle.py: export, import, prune of what they left on disk
```

| component | state it keeps | operations | hard behaviour | what makes it correct |
|---|---|---|---|---|
| dashboard (`assessment_dashboard.py`, `assessment_process_supervisor.py`) | LOCK, one supervisor, its process tree, `metadata.json` | collect, cancel, validate, SIGTERM | cancel, time-out and signal against a component that is just starting or ending | one collection at a time, the first stop decides, no process survives it, LOCK is released |
| command line (`collector_registry.py`, `bin/eks-assessment.sh`) | `collector-state.json` | plan, init, mark, should-run, resume | a script killed anywhere and resumed with another plan | plans are closed and least, evidence is kept, COMPLETED means all of it |
| portable collections (`collection_bundle.py`) | directories of collections, bundle files | export, verify, import, prune | processes that check and act on one directory without a lock | nothing is overwritten, baselines stay |
| inventory (`eks_comprehensive_assessment.py`) | request budget, snapshots, provenance | discovery, deep lists, universal inventory, resume | threads on one budget, sessions that are killed and resumed | the pace holds, only own unchanged snapshots are reused, reports claim what was read |
| AWS, cloud, CIS, operation (`aws_eks_assessment.py`, `cloud_provider_assessment.py`, `cis_security_assessment.py`, `operational_insights.py`) | none beyond a report | evaluate evidence | lists that are missing, denied, empty or malformed | missing evidence is never good news |
| blue-green, migration, regression, provider gates | none | decide | conclusions drawn through several reports | less evidence never approves more, accepted steps do not add up to a risk |
| artifact, manifest and release validation | none | accept or refuse | reports written by one program and judged by another, files downloaded one by one | what is published is accepted, what is mixed is refused |
| telemetry, semantic analysis, localization, sanitizing | none | summarise, rewrite | arithmetic on floats, wording | not modelled |

`PROJECT.json` lists each hazard with its line and the properties about it.

## 2. Plan

Everything below is written, in this order; what is left is at the end.

| order | module | composes |
|---|---|---|
| 1 | `AccountStore`, `AccountService` | rows, row locks and ledger; transfer and reverse over them |
| 2 | `CardService`, `BankCore` | the issuer; both services on one store |
| 3 | `TransactionService` | POST and the coordinator in front of `AccountService` |
| 4 | `CardIssuer`, `AcquirerService`, `StoreCheckout` | the issuer's promise, which `CardService` implements; the acquirer over the promise; the store and its page over the acquirer |
| 5 | `CollectionLifecycle`, `CollectionSupervisor`, `DashboardCollection` | a collection's promise; the supervisor; the dashboard over it, which implements the promise |
| 6 | `CollectorPlan`, `CollectorRegistry`, `CollectionBundle`, `InventoryCollection` | the command line's plan and state; bundles; one inventory |
| 7 | `AwsCollection` ... `ReleaseVerification`, `AssessmentGates` | the reports and verdicts as operators; their composition |

Left: a module for identity and PIX keys; liveness of the chain from page to issuer,
which needs a bound on retries the code does not have.

## 3. Modules

`AccountStore` declares the accounts rows (`balance`), the row locks
(`rowLock`), and the ledger. The ledger table is append-only and is read by one
query, the sum of an account's entries (`countDivergentAccounts`), so it is kept
as sums: `ledgerOf` per account and `moved` per journal. Amounts are integers in
cents; `setScale(2, UNNECESSARY)` refuses anything else.

`AccountService` is `AccountService.java`. A session (`pc`, `key`, `draft`,
`entity`) runs one transaction, one action per SQL statement that can wait or
whose result another transaction can change: `ReceiveTransfer`, `ExistsById`,
`LockFirst`, `LockSecond`, `Apply`, `Commit`, and for reversals
`ReceiveReversal`, `FindReversal`, `FindPrior`, `FindOriginal`. `Commit` is
Hibernate's flush and the COMMIT: nothing a transaction wrote is seen before it.
`found` is the SELECT of `save`, a merge because `TransferRecord` has an
assigned id and no version. `Crash` ends a transaction at any statement; a
refusal and a crash both roll back. `overlapped` is a history variable: the keys
two served requests carried at the same time.

`CardService` is `CardService.java` in the same manner. A card is named by its
account and type (`uq_cards_account_type_factor`); what is wrong with a request
is a set of flaws, in the order the code tests them; the request fingerprint is
equality of requests, with `text` standing for the fields only the fingerprint
looks at. `CardIssuer` is what it promises: a payment id is decided once, for one
request, and an attempt that fails decides nothing. `ImplementsIssuer` maps a
decision to the commit of the transaction that stores it.

`BankCore` runs both services with their own sessions on one store.

`TransactionService` extends `AccountService` with the handlers of POST
`/api/v1/transactions` (`step`, `post`, `call`), the transactions table (`rows`)
and the calls on their way (`wire`). Each statement of the repository commits by
itself: `Insert`, `Select`, `Complete`, `Fail`, `Reread`. `GiveUp` is every way
to stop waiting, after which the call may still arrive (`Deliver`), be lost
(`Lose`) or be answered to nobody (`Drop`). Inside `Answered`, a refusal below
500 leads to `Fail`, a 500 does not. `contended` is a history variable: the keys
that were sent again before an earlier attempt, its call included, was over.
`workload` is chosen once: which clients' requests a behaviour is about.

`AcquirerService` is `PaymentCoordinator.ExecuteAsync` with the payments table, on
`CardIssuer`: `Insert`, `Select` (a pending row of the same fingerprint goes on, a
decided one is answered, another fingerprint is a conflict), `Send`, `Answered`,
`DecideRow` (guarded by `WHERE status='PENDING'`) and `Reread`. A handler may give
up at any await while the issuer goes on with its call (`Serve`). An order stands
for all fields of the fingerprint; `Validate` is the set `Refused`.

`StoreCheckout` is the form of `static/app.js` (`form`, `retryKey`, `fetch`,
`shown`) and `checkout` of `main.go`. `Submit` draws a key only when none is kept,
`Edit` drops it, a result drops it, a failure keeps it, `Reload` loses the page but
neither the store's call nor the acquirer's. `Checkout` is the store calling the
acquirer, `Relay` its answer, `Fail` every way to lose it, the 7 s among them.
Other clients of the acquirer post with keys the page has drawn (`OtherPost`).
`drawn` and `earlier` are history: the keys of the purchases the shopper meant.

`CollectionSupervisor` has one operator per stretch of code under the
supervisor's lock, or per call made outside it. `DashboardCollection` puts them in
the order in which request threads, cancellations and the handler of SIGTERM run
them: `RunEnter`, `RunSpawn` (the process exists, nobody knows it), `RunRegister`,
`RunReturns`, `RunTimesOut`, then `Control`, `Record`, `Recheck`, `Finish`,
`Reply`, `Finally`. The metadata keeps the last status written. `cutShort`
is history: the processes that were terminated. `CollectionLifecycle` is the
promise the supervisor implements.

`CollectorPlan` is `build_plan`; `PlanIsLeast` is its reference definition.
`CollectorRegistry` is `collector-state.json` under `bin/eks-assessment.sh`: first
run, signals, time-outs, kills and resumptions with other exclusions.

`CollectionBundle`: each command of `collection_bundle.py` is a process whose
checks and writes are separate steps, beside a dashboard that edits what it
exports. A file is the version of its content.

`InventoryCollection` is `--collect-live` on one directory: `Main` and the worker
threads take slots of one request budget, sleep, and ask; lists may fail, be lost
or not be served; a session may be killed, its files edited and its cluster
changed before it is resumed.

The reports are operators from evidence to a record, in the order of the code: `AwsCollection` (calls, retries, budget, findings),
`CloudEvidence` (EKS, AKS, GKE and the life cycle of versions), `CisPosture`
(controls, exceptions, scores, comparison), `OperationalInsights` (requests, node
health, skew, support, logs), `BlueGreenReadiness` (references, traffic, state and
data, probes, the decision), `MigrationGate`, `RegressionGate`, `ProviderGate`,
`ArtifactValidation`, `ManifestValidation` and `ReleaseVerification`. A resource
is a record of the fields the rules read; dates are day numbers; a subprocess
(schemas, tar, cosign) is its answer.

`AssessmentGates` composes them. A behaviour asks about one of four subjects: a
request for a plan (`Ask`), a collection that loses evidence piece by piece
(`Withdraw`), releases accepted each against the one before (`Accept`), or a
downloaded release (`Verify`). `Collection` is `Assessment.result`: what the
generators make of one evidence, in their order, with the optional reports they
leave out. `Valid` is the part of the validator that
what the generators derive could break; its comment names the checks on constants of
the reports that it leaves out.

Definitions marked `Fault:` are variants of the action or helper that follows
them, with one mistake the code could have. No specification uses them; putting
one in the place of the definition it precedes shows which property notices.

## 4. Runs

| run | instance | checks |
|---|---|---|
| `account_transfers` | 2 sessions, 2 accounts (2 and 1 cents), one key with four payloads, two reversal ids | `TypeOK`, `NoDivergentAccount`, `LoadedRowsAreCurrent`, `RecordedIffMoved`, `SerialKeysMoveOnce`, `OneMirroredReversal`, `EveryRequestIsAnswered`: books, records and money agree under every interleaving, crash and retry; one reversal on record per transfer, its mirror; nobody waits for ever |
| `card_payments` | 2 sessions, an account with 2 cents and a limit of 2, two payment ids, 5 good and 8 flawed requests | `TypeOK`, `CapturedOnce`, `FlawedIsNotCaptured`, `ImplementsIssuer`: a payment is taken once, whatever is retried, and the issuer keeps the promise the acquirer relies on |
| `bank_books` | two transfer sessions, one card session; one transfer key that pays in either direction, a debit purchase the account can pay only after a transfer, a credit purchase, issues | `MoneyIsConserved`: the services lose no update of each other; `WaitsEnd`: the locks of both are never waited for in a circle |
| `transaction_clients` | 2 handlers, 2 sessions; one key with three payloads, or two keys of which one cannot be paid before the other | `CoordinatorTypeOK`, `MovedAsRecorded`, `OkMeansMoved`, `OverlapOnlyWhenContended`, `StatusFollowsMoney`: only the payload stored first moves, OK is said of it alone, and without overlap the status follows the money |
| `transaction_repeats` | one key, one payload | `RepeatsMoveOnce`, **violated**, see Findings |
| `store_purchases` | 2 issuer sessions, 2 handlers, 2 keys, the page's order, a different and a refused order of another client under the page's first key | `AcquirerAgreesWithIssuer`, `PageTellsTheTruth`, `RepeatedSubmitsChargeOnce` |
| `dashboard_stops` | 2 request threads, a plan of 3 components (one whose exit code is not recorded), 1 collection | `TypeOK`, `CutShortIsRecorded`, `EveryRequestEnds` |
| `dashboard_faults` | 2 threads, 2 components, 2 collections, writes and checks that raise | `LockGuardsSupervisor`, `StopReachesProcess`, `ImplementsLifecycle` |
| `collector_sessions` | 4 collectors, 3 sessions, 1 signal, kills anywhere | `CompletedIsWhole`, `EndedSessionsLeaveNothingRunning`, `ResumeKeepsEvidence` |
| `bundle_races` | 2 collections (a baseline), 2 files, 2 importers, 2 exports, a dashboard that edits once, a prune | `ImportNeverOverwrites`, `BaselinesSurvive` |
| `inventory_sessions` | main and 2 workers, 4 resources of which one is listed deeply and one is sensitive, 6 requests, 4 units of time, 2 sessions, 2 clusters | `SlotsKeepTheirPace`, `ReusedSnapshotsAreOwn`, `FreshReportsAreReal` |
| `assessment_verdicts` | about 60 collections on four platforms that lose evidence one piece at a time, chains of releases, mixed downloads, all requests for plans over three collectors | `AnswersAreLeastPlans`, `WithdrawnEvidenceNeverApproves`, `ReportsAreSound`, `AcceptedChainsIntroduceNoRisk`, `MixedReleasesAreRefused` |

Bounds. The races of the banking services are between a check and the act it
guards, hence between two transactions: two sessions, two handlers. Two accounts
give both directions of the lock order, and opening balances are chosen so that
one movement can be afforded and two cannot. Keys are reused without limit: a
session or handler returns to idle, so retries, late duplicates and reuse of a
key after a refusal all occur, and no counter needs a bound. In
`store_purchases` two keys are the one kept and the one drawn after it; they are
fresh UUIDs that differ only in what the other client does with the first, so
`KeysInOrder` looks at one order of drawing them. The spelling of an amount is
abstracted away there (see Findings), as are answers that cannot be read, which
`PageTellsTheTruth` leaves out.

Of the assessment runs, two threads are one collection and one cancellation or
validation beside it; the second collection of `dashboard_faults` finds what the
first left behind, and `dashboard_stops`, with the longer plan, has the component
whose code is not recorded. Three sessions of the command line are a first run, a
resumption, and one that finds what a resumption left. Six requests with one
retry exhaust the budget of the inventory in the middle of every stage. Each
collection of `assessment_verdicts` is one that some gate approves, with one
thing varied; each piece of evidence that `Weaker` names may be taken away, and a healthy one
loses several together.

`SYMMETRY` permutes sessions, handlers or threads no action tells apart, and is
left out where liveness is checked. TLC's deadlock check says nothing in the banking
runs, since a served session can always crash: that nobody waits for ever is
`EveryRequestIsAnswered` (fairness, not crashes, must bring the answer) and
`WaitsEnd`, which looks at the waits themselves. `WaitsEnd` has two transfer sessions
because the circle a wrong lock order makes takes two; one of them and the card
session share only one row. Sessions and collections of the assessment tool do end, so
those runs say `CHECK_DEADLOCK FALSE`.

What `WithdrawnEvidenceNeverApproves` does not take away. The code takes some
absences for good news, by design or by mistake, and a verdict can improve when
they are lost:

- the lists of paths: ingresses, routes (HTTPRoutes and the other Gateway routes),
  virtual services, OpenShift routes, Kubernetes and Istio gateways, and destination
  rules. A path that is not read is not judged, and without any path traffic is not
  applicable;
- manifests and workload lists (without them there is no reference that could be
  missing, no stateful workload, no job), certificates, and a missing `pvcs.json`;
- the state-data and configuration reports of a migration (nothing to compare then
  passes, or the gate is not mandatory any more);
- a single unhealthy backup among the manual evidence, and the probes: that they were
  requested, and each probe of the list;
- the list of pods (a node with no pods is healthy), one node's metrics (critical
  becomes warning), the duration of the budget, and the hints by which a platform is
  recognised (no nodes: generic Kubernetes).

`Weaker` names everything that it does take away. On the collections of the run, taking
the whole list of routes, of claims or of manifests makes a gate approve; the others
need a path of their kind that fails. See Findings.

Other limits of passing properties. `OneMirroredReversal` says nothing of the money
of ids that two requests carried at once (see Findings).
`SlotsKeepTheirPace` spaces the slots of the budget: threads sleep outside the lock, so
several that wake up late may ask in the same tick. `FreshReportsAreReal` leaves out
what a lost discovery hides (see Findings).
`AcceptedChainsIntroduceNoRisk` counts the nodes in CRIT and in WARN: which nodes they
are may change along the chain, and nodes that are PARTIAL or UNKNOWN are not counted
(see Findings). `BaselinesSurvive` leaves out metadata that was cut
short. `StatusFollowsMoney` leaves out keys that are contended, hence a late
`FailAsync` over the Completed of another attempt.

Fairness. `account_transfers`: a served request keeps executing (`WF` of `Step`): the thread
is scheduled and the database answers. A wait for a lock is granted in turn (`SF`
of the lock steps): PostgreSQL queues the waiters of a lock. Crashes, new
requests, and the return of a session to `idle` are owed to nobody. Dashboard:
`WF` of each thread's `Work`: threads are scheduled, `communicate` has a time-out
and a terminated tree is killed after a grace period; components owe nothing, they
may hang for ever. Liveness is stated nowhere else: the chains from client to
issuer may be retried and abandoned without end.

## 5. Findings

All with their lines and quotations in `PROJECT.json`. One is what a run
shows; the others are disagreements met while the code was translated, each
with the step of the model that has it where there is one. Passing properties
leave their cases out, as said with each.

`RepeatsMoveOnce` states what `src/app/README-banking.md:95-97` says: repeating
the same request does not move money again. `transaction_repeats` finds two
attempts with one key under way together, each past `existsById`
(`AccountService.java:101`) before either has locked an account. The locks then
put one after the other, and the second debits again: its `save` is a merge
that updates the first one's record, so no unique key refuses it. It takes two
requests at once, or one retry while a timed-out call is still being served;
`SerialKeysMoveOnce` says that retries that do not overlap are safe. The ledger
stays balanced, so the divergence metric does not show it. A query for the key
after the locks, or an INSERT in place of the merge, would close it.

Reversals have the same fault: a reversal compensates its transfer
(`README-banking.md:145`), but one id delivered twice at once is found by neither
delivery (`AccountService.java:122-128`), the second save updates the record of the
first, which has the same `reversal_of`, and the index of V5 does not fire. The transfer
is compensated twice over one record. `OneMirroredReversal` says of the money only what
holds: an id whose deliveries do not overlap moves it once.

Payments and purchases:

- A payment declined `PAYMENT_TYPE_MISMATCH` is an invalid answer to the acquirer
  (`PaymentCoordinator.cs:70`), which stays PENDING and answers 502 for ever.
- A 200 with a body cut short is shown as a refusal and drops the retry key
  (`app.js:135`); any edit drops it, during a fetch as well (`app.js:84`).
- The issuer's fingerprint keeps the spelling of the amount, the acquirer's does
  not (`CardCredentialsService.java:60`).

Collections:

- The dashboard answers ok, and the page shows 100% COMPLETED, for collections
  that failed or were stopped (`assessment_dashboard.py:2567`); a cancel between
  `Control` and `Finish` leaves metadata COMPLETED (2563); SIGTERM leaves it
  RUNNING (2602), and may miss a process between Popen and its registration
  (`assessment_process_supervisor.py:152`).
- A registry with a cycle is planned (`collector_registry.py:96`); a retried
  dependency leaves its dependents as they were (`eks-assessment.sh:717`); a
  signal between components is noticed after the next one (319).
- Metadata that does not parse makes a baseline prunable
  (`collection_bundle.py:299`; `BaselinesSurvive` leaves out collections whose
  metadata was torn); a bundle's manifest may disagree with its files (139).
- A snapshot of a list that failed is reused as an empty list
  (`eks_comprehensive_assessment.py:630`); a killed scanner cannot be resumed
  (1359); retries may exceed the AWS budget (`aws_eks_assessment.py:216`).
- The universal inventory is one of every listable API
  (`eks_comprehensive_assessment.py:533`). When the discovery of a scope fails it has no
  entry for that scope, hence none that is UNAVAILABLE, and says AVAILABLE (506-509,
  603-608).

Verdicts:

- Missing mandatory evidence never produces GO (`docs/blue-green-migration.md:20`), but a
  cutover that is refused for a path, a reference or a claim is approved once the list of
  routes, manifests or claims is not there to be judged (`blue_green_readiness.py:383`,
  500-501, 645; 131-138; 558).
- The regression gate looks for a node health that got worse
  (`docs/regression-validation.md:51`), but compares the nodes both releases have and
  counts CRIT and WARN (`regression_validation.py:361-375`): a PASS node replaced by a
  PARTIAL one is accepted, and chains accept what a direct comparison refuses, such as
  {n1: WARN, n2: CRIT}, then {n2: CRIT}, then {n1: CRIT}.
- Secrets of other namespaces are MISSING in a limited collection (226); "@" in
  the path of a probe passes one check and fails the next (585).
- Exceptions are compared with evidence that is cut at 100
  (`cis_security_assessment.py:237`); a cluster without measurable control has
  a null score, which validation refuses (`validate_assessment_artifacts.py:215`).

A `Failed` row may be stale while a retry of it is in progress, and stays so if
that retry moves the money and dies before `CompleteAsync`: the retry does not
set the row back to `Pending`. No document promises otherwise; `StatusFollowsMoney`
states what does hold, at the moment of each write.

## 6. Proofs

Checked by TLAPS for all values of the constants. Of the 40 properties of the
passing runs, 38 are stated by a theorem below.

| proof module | is about |
|---|---|
| `TransactionServiceProofs` | `AccountService`, then `TransactionService` over it |
| `CardServiceProofs` | `CardService` and the promise `CardIssuer` |
| `BankCoreProofs` | `BankCore` |
| `StoreCheckoutProofs` | `AcquirerService`, then `StoreCheckout` over it |
| `CollectionProofs` | `DashboardCollection` and `CollectionLifecycle`; `InventoryCollection` |
| `CommandLineProofs` | `CollectorRegistry`, `CollectionBundle`, `AssessmentGates`: plans, chains, downloads, one collection's reports |
| `LostEvidenceProofs` | `AssessmentGates`: collections that lose evidence |
| `FiniteSums` | sums over finite sets, for the others |

### account-service

`TransactionServiceProofs`, from `StoreAssumption` and `ServiceAssumption` only
(accounts are positive integers, sessions do not include `NoSession`, keys are
journals, requests are records of the declared fields):

- `TypeCorrect`: `Spec => []TypeOK`. Since `balance` has range `Nat`, no flush
  ever meets the CHECK of `V1__create_accounts.sql:4`.
- `LedgerAgrees`: `Spec => []NoDivergentAccount`.
- `RowsStayCurrent`: `Spec => []LoadedRowsAreCurrent`.
- `RecordsAndMoneyAgree`: `Spec => []RecordedIffMoved`.
- `SerialRetriesMoveOnce`: `Spec => []SerialKeysMoveOnce`.
- `ReversedOnceAndExactly`: `Spec => []OneMirroredReversal`.

None of the first three is inductive. Their common strengthening is `IInv`:
`TypeOK`, `DraftInv` (a session past its checks carries two different accounts
and a positive amount), `RecordInv` (so does every stored record, which the
reversal copies), `LockInv` (between its locks and its commit a session holds
both rows, its entities are the committed balances before `Apply` and those
balances with the movement after it) and `NoDivergentAccount`. `LockInv` is the
core: at `Commit` the entity is the committed balance less or plus the amount,
so writing it and posting the two entries change balance and ledger alike, and
it cannot be below zero. Another session's `Commit` cannot disturb it because the
rows are locked. There is one lemma for each action that writes (`RollbackIInv`
covers every refusal and crash, `ProceedIInv` every read that moves on),
`NextIInv` combines them, and `Invariance` is the temporal step.

The last three are about keys and share a second invariant, `KeyInv`, kept by
every step that starts in `IInv`. `Alone`: two sessions serving one key put it in
`overlapped`. `Unrecorded`: past the lookup, such a session's key has no record,
because nobody else serves it. So the commit of a key outside `overlapped` is its
first (`KeysMoved`). `RecordsMirrored` and `DraftsMirrored`: what a reversal copied
from its original stays what the original is, because a recorded key that does not
overlap is never saved again. `OneReversal` is the unique index. All steps but the
arrival of a request and `Commit` are `Quiet` and covered by one lemma,
`QuietKeyInv`.

### transaction-service

`TransactionServiceProofs`, with `PostsAssumption` (posts are records of the
declared fields) and `CallsAssumption` (the calls are transfer requests) in addition:

- `CoordinatorTypes`: `CoordinatorSpec => []CoordinatorTypeOK`.
- `RowsTellWhatMoved`: `CoordinatorSpec => []MovedAsRecorded`.
- `CompletedIsTrue`: `CoordinatorSpec => []OkMeansMoved`.
- `OverlapsAreContended`: `CoordinatorSpec => []OverlapOnlyWhenContended`.
- `StatusesFollowMoney`: `CoordinatorSpec => StatusFollowsMoney`.
- `CoordinatorUsesService`: `CoordinatorSpec => Spec`.
- `ApartRepetitionsMoveOnce`: `CoordinatorSpec => []` what is recorded under a key
  outside `contended` has moved exactly its amount.

Every step of the coordinator is a step of `AccountService` or leaves it alone
(`CoordinatorUsesService`), so `IInv`, `KeyInv` and every theorem above hold behind
it. `CoordInv` follows a post on its way. `PostInv`:
a handler past its lookup works on a row of its own payload, and completes it only
when there is a record. `CallInv`: the session it waits for serves its key and no
other handler's call. `SessionInv`: what a session is sent and serves matches the
row of its key. `RowInv`: so does what has moved. Rows are inserted once and only
their status changes (`RowsGrow`), which is why no later payload can break this.
`HandlerStepInv` covers the steps that leave account-service alone,
`SessionStepInv` those that leave the handlers alone, and `ServeEffect` says what a
statement of account-service is to its caller: it moves on, ends or moves the money.

The last two are about keys that were never contended. `AttemptInv`: such a key has
one handler and one call, and the handler waits for that call. So `Overlap` is
empty when it arrives, and a refusal stays true until `Fail` has written it
(`RefusalInv`): a record could only appear under a call, and the call it was the
answer of is over. Only a post changes who attempts what (`ReceivePostAlone`); all
other steps but `Send` have no more attempts than before (`FewerAttempts`). `ApartRepetitionsMoveOnce` is what is true of the promise of
`README-banking.md:95-97`: an overlap in account-service needs a contended key, so
`KeyInv` gives the others one movement. Without the exception it is
`RepeatsMoveOnce`, which the code violates.

### The issuer

`CardServiceProofs`, from `StoreAssumption` and `CardAssumption` (the requests are
well formed, a payment id is a journal id, the limit is a natural number):

- `CardTypes`: `Spec => []TypeOK`, with it that no credit line exceeds its limit.
- `CardsKeepLedger`: `Spec => []NoDivergentAccount`.
- `DebitsAreTakenOnce`: `Spec => []DebitTakenOnce`, the debit half of `CapturedOnce`.
- `CapturesAreTakenOnce`: `Spec => []CapturedOnce`.
- `FlawedIsNeverCaptured`: `Spec => []FlawedIsNotCaptured`.
- `IssuerImplementsPromise`: `Spec => ImplementsIssuer`.

That a payment is taken once depends on what a session knows when it commits, so
the strengthening `IInv` adds `SessionInv` for every session: `PayInv`, from
`FindPayment` on it holds the advisory lock of its payment id, and once it has
looked the payment is undecided and stays so; `CheckInv`, what the statements
before have found in order; `CaptureInv`, a capture about to be committed passed
every check, holds the account's row and has computed the balance less the amount,
or a use within the limit. A session disturbs none of it for another (`Spares`,
`SparedSession`): it writes only rows and ids that it has locked. Statements that
only lock and look are instances of `MovesOn`, what ends a transaction of
`FinishedSession` and `FinishedTypes`; `CommitStep` is the one that moves money.

What is used of a credit line is a sum over the payments taken from it, so
`CapturesAreTakenOnce` needs a second invariant, `CreditInv`: `LineSums`, each line
is used for finitely many payments and for exactly their sum, and `HoldsLine`, the
session about to use a line holds its lock and has read what is used of it. At
`CommitPayment` the payment was undecided (`PayInv`), hence none of the summed ones,
and the sum grows by its amount (`CreditCommitStep`).

For the promise, `Calls` shows of each session only its payment. `OwnCall`: a
step is seen in its own session's call alone. A repeat is answered at
`FindPayment` (`FindMaps`), a decision is taken at `CommitPayment` (`CommitMaps`,
which needs `PayInv`: the id is still undecided there), a crash is a `Break`
(`CrashMaps`), all statements between are invisible (`StatementMaps`) and a
session that issues a card looks free throughout (`IssueEnds`).

### Sums

`MapThenSumSet` is a fold, that is, a function chosen by its recursive equation.
`FiniteSums` proves what the other modules need of it: that the equation has a
solution over a finite set and only one (`TotalsExist`, `TotalsAgree`), so a sum is
one element plus the sum of the rest (`SumRemove`), is a number (`SumType`), does
not depend on what is not summed (`SumSame`) and changes by what one summand
changes by (`SumChangedAt`), that the sum over a disjoint union is the sum of the sums
(`SumUnion`) and so is the sum over classes (`SumOfClasses`). Each is proved from a smallest subset that would refute
it (`SmallestSubset`), since an induction theorem that takes a predicate as its
parameter cannot be used.

### Both services on one store

`BankCoreProofs`, with `SessionsAssumption` (the sessions of the two services are
different ones), `IdsAssumption` (accounts and payments are finitely many UUIDs, and
no transfer has the id of a payment: both are drawn at random by the clients) and
`RequestsAssumption` (what each service assumes of its requests):

- `MoneyStaysWhole`: `Spec => []MoneyIsConserved`.
- `NoCircleOfWaits`: `Spec => []WaitsEnd`.
- `BothServicesKeepLedger`: `Spec => [](NoDivergentAccount /\ StoreTypeOK)`.

The invariants of the two services alone do not carry over as theorems: each assumes
that nobody else writes the rows. `BankInv` keeps of each what concerns the shared
rows: `TransferInv`, a transfer holds the rows it has loaded and has computed from
what they hold; `CardInv`, so does a debit about to be committed; and `StoreInv`, the
types, the agreement of ledger and balances, and `Books`, the conservation law over
`Sum`. A session `Spares` the others when it writes and unlocks only rows they do not
hold; `SparedTransfer` and `SparedCard` are that a spared session keeps its part,
whichever service the step was of. `TransferCommit` and `CardCommit` are the steps
that move money: `SumOfMovement` for two balances, `SumChangedAt` for one balance
and one payment.

`NoCircleOfWaits` adds `LocksInv`: which locks a session can hold at which statement
(`TransferHolds`, `CardHolds`), a step of a session taking or releasing locks for that
session alone. Take any sessions that each wait for one of them. None holds a credit
line and waits, so none waits for a line; of the rows that are held and waited for
among them take the one with the highest id (`HighestAccount`): its holder can only be
a transfer that waits for its second row, which is higher still. With no row left, none
waits for a card's lock, and then none for an advisory lock.

### acquirer-service

`StoreCheckoutProofs`, from `PostsAssumption` (a post has a payment id; one that
`Validate` takes is a payment), `OutcomesAssumption` and `AbsenceAssumption` (the
values that stand for nothing are none of the others):

- `AcquirerAgreement`: `AcquirerSpec => []AcquirerAgreesWithIssuer`.
- `AcquirerKeepsPromise`: `AcquirerSpec => IssuerSpec`, the promise that `CardService`
  implements (`IssuerImplementsPromise`).

A decided row agrees with the issuer only because the handler that writes it got
the answer to its own call. So the strengthening `IInv` (theorem
`AcquirerInvariant`) says of each handler: `RowInv`, past its insert there is a row
for its payment, of its order once the fingerprints were compared; `CallInv`, the
session it waits for serves its payment and order, and no other handler waits for
that session (`OneCaller`); `DecisionInv`, what it is about to write is what the
issuer has decided. A decision of the issuer is never changed (`IssuerAnswers`), so
another handler's step, or the issuer's, leaves all three alone (`SparedHandler`),
and the first write of a row is the issuer's decision whoever makes it.

### store-service

`StoreCheckoutProofs`, with `StoreAssumption` (the page and the other clients send
posts; what is shown without a decision is no outcome) in addition:

- `PageIsTruthful`: `Spec => []PageTellsTheTruth`.
- `RepetitionIsSafe`: `Spec => []RepeatedSubmitsChargeOnce`.
- `ShopUsesAcquirer`: `Spec => AcquirerSpec`.

`StoreStep` is the refinement: every step of page, store and other clients is a
step of `AcquirerNext` or leaves the acquirer alone, so the acquirer's invariant
holds behind the store. `PageInv` follows an answer on its way: the handler the
store waits for works on the page's order (`PostedInv`), what it responds is what
the issuer ruled (`HandlerResponds`), so is what the store replies (`AnsweredInv`)
and what is shown (`ShownInv`), and no step undoes a ruling (`DecisionsKept`).
`KeysInv`: the keys of one purchase are at most the one kept, so at most one of
them can be charged.

### The dashboard

`CollectionProofs`, from `PlanAssumption` (the plan has a preflight and
more), `WeightAssumption` (finitely many components, each with a positive weight),
`BoundAssumption` (`MaxCollections` is a number, however large) and
`ThreadAssumption` (`None` is neither a thread nor a process):

- `LockAndSupervisorAgree`: `Spec => []LockGuardsSupervisor`.
- `StopsReachTheProcess`: `Spec => []StopReachesProcess`.
- `KeepsLifecycle`: `Spec => ImplementsLifecycle`.
- `TypeCorrectness`: `Spec => []TypeOK`.
- `TerminationsAreRecorded`: `~ Faults /\ Spec => []CutShortIsRecorded`.

At any time either nobody holds LOCK, the supervisor is idle and no process is alive
(`Free`), or one thread does (`Owns(h)`): the supervisor is active exactly on the
stretch from start to finish, a live process is the one of the thread's current
component, between its start and its end, it is registered while the thread waits,
and a final status that is a stop was one. `OwnerStep` moves the owner through
`do_POST` and `run`; all others (cancellations, signals, the clock, rejected
requests) satisfy `Spares` and leave it alone (`SparedOwner`). A stop finds the
process of a waiting thread because it is registered then; before that, the thread
itself has yet to look (`CancelStep`, `OwnerReaches`). For the life cycle only
starts, first stops and finishes show: `FinishMaps` needs that a stopped thread's
final status is its stop.

`TypeCorrectness` adds `CountInv`: processes, registrations and targets belong to
collections that were started. That the progress is a percentage is a fact about
sums (`ProgressBounds`): the weight divided by is never zero. `TerminationsAreRecorded`
adds `RecordInv`: whoever may terminate a process of the last collection follows a
stop of it, and a collection that was cut short says so in its metadata or has a
thread on the way to write it (`Records`), which cannot have taken the component for
a success. The hypothesis is needed and is what the run has: with `Faults`, a write
of the metadata may raise, and the collection then ends as `except` leaves it.

### The command line

`CommandLineProofs`, from `OrderAssumption` (the order is one of the registry's
collectors), for any registry, exclusions, number of sessions and signals:

- `CompletedCollectionsAreWhole`: `Spec => []CompletedIsWhole`.
- `NothingIsLeftRunning`: `Spec => []EndedSessionsLeaveNothingRunning`.
- `ResumptionsKeepEvidence`: `Spec => ResumeKeepsEvidence`.

The state file and the metadata are written apart, and a script may be killed between
them. `IInv` ties them: `StatusInv`, the metadata says RUNNING until the verdict;
`RunningInv`, the entry marked RUNNING is the collector at work, or was left by a
script that was killed, and then the metadata still says RUNNING, so the next session
starts over with it. `InitPlanIInv` is where `init` merges the old entries into
another plan (`InitStateEffect`); `UpdateStateEffect` is what one `mark` changes. A
PASS is kept because only the entry marked RUNNING is ever marked again.

### Portable collections

`CommandLineProofs`, from `BundleAssumption` (`Absent` is no collection):

- `ImportsOverwriteNothing`: `BundleSpec => ImportNeverOverwrites`.
- `PruneSparesBaselines`: `BundleSpec => BaselinesSurvive`.

Both are action properties and need to know what the process that acts has seen.
`ImportOK`: an importer past its verification has a root and an id, and a content
once it extracted; that its last step overwrites nothing is `os.replace` itself.
`PruneInv`: what a prune has scanned is still there, since nothing else removes
collections, so no import can have replaced it, and a baseline among it without
the option is one whose metadata was torn and still is.

### The inventory

`CollectionProofs`, from `InventoryAssumption` (the delay and the limits are
numbers, the workers are the finitely many of the thread pool) and
`ClusterAssumption` (a cluster's list is not one of the values that stand for no list):

- `SlotsAreSpaced`: `InventorySpec => []SlotsKeepTheirPace`.
- `ReuseIsOwn`: `InventorySpec => []ReusedSnapshotsAreOwn`.
- `FreshReportsHold`: `InventorySpec => []FreshReportsAreReal`.

`StageInv` says who works when: the main thread alone in discovery and the deep lists,
the workers alone in the universal inventory, each on a target of its own. Everything
else rests on it.

The pace is not inductive as it is stated, since the threads sleep outside the lock and
may wake late and in any order. `PaceInv` counts instead: requests asked and slots
waited for together have moved the next slot by a delay each, and at any time `x` no
more requests can have been asked than slots have come by then. The slots of any two
sleepers are a delay apart, since each is given out after all others. Asking moves a thread
from the second to the first (`PaceAsked`), reserving adds a slot after all others
(`PaceReserved`), and time only makes room.

`FileInv` is about the disk: what a session has not come to yet is as it found it, and
that is what the provenance it accepted says (`FilesInv`); a provenance written without
a change of context records lists of its own cluster (`RecordedInv`). The conclusion is
about sessions in which nobody switched the context, as the property says: a switch
inside a session is not noticed by the code.

`ReportInv` is about loss: a budget that stops a session loses the call it refuses
(`LossInv`), which stays visible as a failed call, and then as an UNAVAILABLE entry,
until the report (`NextReport`); so a report without one was not stopped.

### Plans, chains of releases, downloads

`CommandLineProofs`, about `AssessmentGates`:

- `PlansAreLeast`: `GatesSpec => []AnswersAreLeastPlans`.
- `ChainsIntroduceNoRisk`: `Strict /\ GatesSpec => []AcceptedChainsIntroduceNoRisk`.
- `VerifiedReleasesAreWhole`: `GatesSpec => []MixedReleasesAreRefused`.

`RequestsAssumption` is what `load_registry` checks: finitely many collectors with
known dependencies. `build_plan` adds dependencies round by round. `RoundsExist` is
that the rounds are a function; as long as one adds a collector the selection grows,
so among as many rounds as there are collectors one adds none (`SelectionIsLeastClosed`,
from a least number by `LeastNumber`), what it selects is closed, and every closed
set with the seeds holds every round. `BuildPlanIsLeast` compares plan and refusals
with `PlanIsLeast`.

For the chains, `CandidatesAssumption` says that reports are finite and severities are
those `Assessment.add` accepts. `Strict` is the hypothesis that the profile has zero
for new risks, regressions of severity, lost evidence, failing nodes and the fall of
the score, as both profiles of `assessment-policy.json` do; under a profile that
tolerates one of these, chains do add up, which the property excludes in words too.
`AcceptStep`: a release that is ready is assessed in full, because the required
evidence is mandatory, and no worse than its baseline (`NoWorse`). `NoWorse` is
transitive although most gates look only at what both releases have: a risk that
disappears and returns is a new risk then. `ChainInv` carries it from the first
release to the last.

`DownloadsAssumption` is that a checksum file is a list of lines, and that contents
listed together in one SBOM are of one build (a digest is a model of the content).
`VerifiedIsOfOneBuild` follows the checks: the SBOM lists the packaged files and no
other, so all of them are of its build.

### Reports

`LostEvidenceProofs`, over lemmas of `CommandLineProofs` about one collection:

- `PublishedCollectionsAreSound`: `GatesSpec => []ReportsAreSound`.

`PairsAssumption` says what the collectors write (`Evidence`): every list and report
they fill, lists where the generators iterate, nothing yet of the reports made later,
only kinds of metadata that are asked for, series of integers on nodes that have names,
a support record for every version and an answer for every read-only command. The
inductive invariant is that a source and its target stay such evidence however much of
it is lost (`LossesKeepPairs`). The rest is about one collection. The validator reads
eight reports and checks each against itself; for each check there is a lemma about the
generator that writes the report: a decision is GO only over gates that do not block
(`DecisionsStandOnGates`), a cloud report is AVAILABLE only over the commands it counts
(`CloudReportsStandOnEvidence`), a node is healthy only when it was measured
(`HealthyNodesAreMeasured`), a control is PASS only over evidence of its own
(`ControlsAreSound`), the AWS findings name known severities (`AwsSeveritiesAreKnown`).
`ReportsOfCollection` takes the generators in the order of the pipeline and
`PublishedIsSound` puts the checks together.

Two hypotheses are the property's own. `Complete` is a collection with every required
artifact and some workload, with no finding counted twice, whose external evidence names
a known responsibility; `Scored` is one in which some control was judged: without one
the generators and the validator disagree about the missing score. That a scored collection has a
score is a theorem too (`ScoredHasAScore`): the controls are finitely many
(`ControlsAreFinite`), so risk and weight are sums and the division is by more than
zero. `SamplesCountOnce`, the second half of the property, compares a fold over the
samples of a usage with one over the nodes; `SumOfClasses` in `FiniteSums` is that a
sum is the sum over the classes of its summands, and a label belongs to one node at
most (`LabelsHaveOneNode`).

### Lost evidence

`LostEvidenceProofs`, from `PairsAssumption` and `ProviderLimitsAssumption` (the limits
are those `validate_thresholds` lets through):

- `LostEvidenceApprovesNothing`: `GatesSpec => WithdrawnEvidenceNeverApproves`.

The property compares two runs of the whole pipeline, on evidence e and on what is left
of it, d. The state invariant is only that the answer is the one for the evidence at
hand (`Judged`) and that the pair stays evidence; the work is in comparing the runs
report by report.

`Less(d, e)` says field by field what a loss may leave. It is wider than one loss, so
it is enough to show that every loss is one (`LossesAreLess`) and that what is left is
evidence again (`LessIsEvidenceStill`). Three comparisons start from it:

- What the gates of readiness and migration read (`Weakened`, `LessIsWeakened`): lists
  that shrank, states that are the same or UNAVAILABLE. For each gate a lemma says that
  it does not block on the whole if it does not on what is left, because a missing
  object is a failure or UNKNOWN in the code and never a reason to pass
  (`ReadinessMeans`, `ReadinessLess`; `MigrationMeans`, `ParityLess`, `MigrationLess`).
- The calls to the cloud. A call that is refused changes the budget of all later ones,
  so the two sessions are compared call by call: either the second has followed the
  first exactly, or it misses a call of the first for good (the invariant `Follows` of
  the fold over the calls); then its report is not complete, and the provider
  validation refuses it. The same for the commands of AKS and GKE (`CommandsLess`).
- The controls (`FewerJudged`): with less of the inventory a control is judged as before
  or not at all, and external evidence and exceptions do not bring it back
  (`InventoryLess`, `EvidenceOfLess`, `ExceptionsOfLess`). A control that is not judged
  would raise a score, but the provider validation asks for those of the control plane
  by name.

`ProviderLess` puts the last two together: an approval says that no part of the evidence
it needs is missing, so what was lost is nothing the reports it reads depend on, and
these are the same for the whole. Coverage and budget are numbers: fewer resources
answered is a smaller share of the same total (`CoverageOfLess`), an unknown measure is
refused (`SpentLess`).

The losses of `Weaker` are those the property is about. What the code takes for good
news when it disappears is not among them, whole lists of routes and manifests first
of all; section 4 lists it.

### Only model-checked

- Liveness (`EveryRequestIsAnswered`, `EveryRequestEnds`): out of the prover's reach.
- `RepeatsMoveOnce`, which the code violates.

## 7. Not modelled

- Identity (`AuthService.java`, `CpfService.java`, `getOrCreatePixKey`). It shares the
  accounts rows with the money: `confirm` and `login` save whole rows, balance
  included. `Account.@Version` makes such a save fail when a movement committed since
  the row was read, and the money's own saves find the version they loaded under
  their lock; the model has no writer of this kind. Two first calls for a PIX key race to the unique index,
  concurrent wrong passwords race on `failedLoginAttempts` under `@Version`; both
  are listed as a hazard without a property.
- `DatabaseInitializationRetry`: a sequential loop around one call. The CPU jobs:
  a job has no effect that a second delivery could repeat. `postgres-api`:
  single statements over one table. banking-web: a new UUID for each call.
- `Account.@Version`: `LoadedRowsAreCurrent` shows that the row locks alone keep
  loaded rows current, so its check cannot fail between the transactions modelled.
- The hikari pool, HTTP servers' thread limits and the metrics. The shared-key
  locks that foreign keys take: every transaction that takes one either holds the
  row already or waits for it last.
- Card numbers, security codes, fingerprints and digests as computations: a
  collision is not modelled.
- Of the assessment tool: `prometheus_telemetry.py` and
  `eks_semantic_assessment.py` (summaries of time series and heuristics over
  object contents, floats and wording, one caller and no state), localization and
  sanitizing, the findings on the content of workloads, RBAC and storage in the
  inventory, groups of events, the timeline, priorities, the totals of
  node evidence, and the pages, history and exports of the dashboard, which read.
- Infrastructure: Kubernetes manifests, Terraform, Vagrant, CI workflows,
  provisioning and backup scripts.
