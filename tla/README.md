# Metera API: TLA+ models, model checking and proofs

Metera is a proxy in front of an OpenAI-compatible provider. It answers chat
completions from an exact and a semantic cache when it can, forwards them
otherwise, keeps a ledger of what every request cost or saved, and bills
tenants by billing periods. This directory holds TLA+ models of its core logic,
TLC configurations that check them on small instances, and theorems checked by
TLAPS. Paths below are relative to the repository's `src/`.

## 1. The system

All server code is asyncio Python (FastAPI). Between two `await`s a coroutine
runs undisturbed; every `await` of a database, cache or network call lets other
requests run. The repositories call `pool.fetchrow` / `pool.execute` directly:
**each SQL statement commits on its own**. Only the start-up seed and key
issuance open a transaction. Several server processes may share one database.

| component | state | operations | talks to |
|---|---|---|---|
| Billing repository and admin routes (`app/controlplane/repositories/billing.py`, `app/api/routes_billing_admin.py`) | tables `billing_periods`, `usage_charges`, `invoices`, `plans`, `subscriptions` | create, summarize, change status, close, reconcile, materialize from ledger or rollups, adjust, preview, report, invoice stub | reads `request_ledger` and `daily_usage_rollups`; admin routes emit commercial events |
| Request ledger and events (`request_ledger.py`, `request_events.py`, `risk_events.py`) | append-only tables | `log_request` (conflicts ignored), `log_event` | written by the chat proxy, read by billing and rollups |
| Rollups (`rollups.py`, `rollup_service.py`, `jobs/rollups.py`) | `daily_usage_rollups`, `daily_namespace_rollups` | rebuild by one upsert each | reads the ledger, read by billing |
| Chat proxy (`app/services/proxy_service.py`, `app/api/routes_chat.py`, `app/providers/openai_compatible.py`) | none of its own; one call in flight per request | gate, lookup, upstream call with retries, fill, record; shadow analysis after the response; namespace invalidation | caches, provider, ledger, billing |
| Caches (`app/cache`, `app/storage`) | exact entries per namespace and hash; semantic records per namespace, tenant, workspace, model family, with expiry | get/set/delete prefix; add/best match/prune/invalidate | Redis, pgvector or process memory |
| Commercial gate (`get_tenant_enforcement_state`, `_enforce_billing_access`, `commercial_events.py`) | subscriptions, periods, event log | decide blocked or not, answer 402 with the latest event, log events once per id | billing, chat proxy |
| Policy versions (`policies.py`, `policy_resolver.py`) | versions, assignments, namespace overrides, change log | create version, assign, override, resolve by scope | proxy construction |
| Runtime overrides (`app/core/policy_state.py`) | one row of overrides | read-modify-write update, defaults at start | proxy construction |
| Identity (`api_keys.py`, `identity_service.py`, `auth/`) | tenants, workspaces, environments, keys, lifecycle log | issue, revoke, resolve, seed at start, bootstrap | chat and tenant routes |
| Start-up (`app/core/lifecycle.py`, `posture.py`) | which backend serves which role | warm up, fall back to memory | everything |

What is hard in it, component by component, and what correctness means there:

* **Billing.** Every operation is a check, some reads, then writes, each its own
  statement, and operators' calls overlap. Correct means: a request is charged
  once, to a period it belongs to; a period closes only when its charges add up
  to its savings; what is closed stays as it is.
* **Ledger and rollups.** Rows are stamped before they are inserted and arrive
  late and out of order; rollups are rebuilt from whatever is there.
* **Chat proxy and caches.** A response is fetched, cached and logged in several
  awaits, while namespaces are invalidated, entries expire and identical requests
  run. Correct means: a hit is only served to the request it answers, every
  answered request is in the ledger with the cost or saving it had, nothing
  is fetched more often than the retry bound.
* **Commercial gate.** The decision reads two tables in two statements and is
  used after both; events are logged after the change they report. Correct
  means: who has passed the threshold without an active subscription is blocked
  once a summary said so, and what a blocked tenant is told is what happened.
* **Invoices, reports, tenant routes.** What is shown is read by several
  statements of a period that moves meanwhile, and a preview writes what it read.
  Correct means: a tenant sees its own rows, no older than its question, and of a
  closed period one moment only.
* **Policies, overrides, identity.** Look-ups followed by writes on shared rows
  by several admins; seeds and defaults written back at every start. Correct
  means: what was answered and not overlapped by another writer stays in force, a
  revoked key stays refused, a bootstrap that was answered is whole.
* **Start-up.** Every backend that fails is replaced by one in memory. Correct
  means: a server that says it is ready shares what its settings ask it to share.

`PROJECT.json` lists these places line by line under `hazards`, with the
properties that watch them.

## 2. Modules

| module | role |
|---|---|
| `BillingPeriods` | the billing tables and the admin handlers, one action per SQL statement |
| `BillingBook` | what billing promises: an abstract book in which every change happens at once |
| `BillingOverlap` | `BillingPeriods` with a history of which calls another one overlapped; what overlapping calls still promise |
| `ChatProxy` | chat completions in flight, both response caches, both logs, the shadow analysis, expiry and namespace invalidation; one action per `await` |
| `ChatBook` | what the proxy promises about money: who paid for which response, who saved it |
| `CommercialGate` | subscriptions, the status of periods by every route, the two reads of the billing gate, the event log |
| `TenantBilling` | reports, invoice previews, the overview and the paged lists, read while the operator works |
| `TenantRoles` | roles and capabilities as operators; used by `TenantBilling` and `ApiKeys` |
| `ApiKeys` | tenants, workspaces, keys, their log, bootstrap, the start-up seed, resolution of a request's key |
| `Policies` | policy versions, assignments, namespace overrides, resolution |
| `Runtime` | the start of a server with its fallbacks, readiness, and the one row of runtime overrides |
| `Rollups` | the two rollup tables, their rebuilds and lists |
| `MC...` | small instances for TLC, one module per component; the `.cfg` files are named after the runs |
| `BillingPeriodsProofs`, `ChatProxyProofs`, `CommercialGateProofs`, `TenantBillingProofs`, `ApiKeysProofs`, `PoliciesProofs`, `RuntimeProofs`, `RollupsProofs` | theorems checked by TLAPS |

How the modules divide what the components share: `BillingPeriods` takes the
operator's billing calls apart and leaves the gate out; `CommercialGate` leaves
open whether a period reconciles; `TenantBilling` has the operator's statements with
a free choice of what they find in the ledger, and takes the reading calls apart; `ChatProxy` leaves open
whether the gate refuses. A question two modules could ask is asked in one.

### BillingPeriods

Variables and the code they stand for:

* `ledger`: rows of `request_ledger` inserted so far. A row is a number, and
  `r < s` says `observed_at` of `r` is earlier; its tenant, savings and cost are
  constants. `LogRequest` inserts any row at any time, because `observed_at` is
  stamped before the statement runs and another process may be slower.
* `rollups`: for each row of `daily_usage_rollups`, the requests it was computed
  from; its cost column is their sum. `RebuildRollups` is the one upsert.
* `status`: `billing_periods.status`, or "absent".
* `summary`: the ledger rows behind the five total columns of a period. The
  columns are sums over one SELECT of the ledger, so the set determines them;
  comparing sets says more than comparing sums.
* `charges`: `usage_charges`, with source, reference, amount and period. The
  charge type is a function of the source table.
* `call`: for each handler its next statement and what it holds from earlier
  ones: `want` (the requested status), `snap` (totals read or aggregated),
  `rows` (fetched rows still to charge), `due` (a row checked and about to be
  inserted).

Operations and their actions, in the order of their statements:

| code | actions |
|---|---|
| `create_billing_period` | `CheckPeriod`, `InsertPeriod` |
| `update_billing_period_status`, `/status`, `/close` | `SetStatus`, (`ReconcileRead`, `ReconcileCompare` when closing), `WriteStatus` |
| `summarize_billing_period` | `Summarize`, `Aggregate`, `StoreTotals`, `Refresh`, then `MoveToClosing` and `WriteStatus` over the threshold |
| `materialize_usage_charges_from_ledger` / `_from_rollups` | `MaterializeGuard` (only with a period), `FetchLedger` / `FetchRollups`, then `CheckRow` and `InsertCharge` per row, `Done` |
| `create_manual_adjustment` | `AdjustGuard`, `InsertAdjustment` |
| an exception or a crash anywhere | `Abort`: the call ends, what it committed stays |

`ReadCurrent` is shared by `SetStatus` and `MoveToClosing`, as
`update_billing_period_status` is called from both. The unique index on
`(source_table, source_ref, charge_type)` is `Taken` in `InsertCharge`: the
insert of a taken row raises and ends the call. `RefOf` is the "date:workspace"
text of a rollup row, which two tenants' rows can share.

Abstracted: money is whole numbers (the code compares floats with a tolerance of
1e-9, so what the model says is about sums, not about rounding), ids, texts and
timestamps other than the order above, `closed_at`, list and report queries.
The same action stands for `/status` with "closed" and `/close`: the routes
differ in the event they emit, which belongs to the gate. `RebuildRollups` sees the
ledger and writes in one step; `Rollups` takes it apart.

### BillingBook

The book has the same tables and no handlers: `Record`, `Open`, `Refresh`,
`Move`, `Close`, `Attach`, `Adjust`, each a single step with the guard the code
states in its error messages. `Balanced` says the usage of a closed period adds
up to its totals. `BillingPeriods!Book` instantiates it, with the ledger rows of
the period's tenant in its window as `Eligible`.

### BillingOverlap

`disturbed` is history: the calls in progress during which another call wrote to the periods,
their totals or the charges. A call not in it is one whose look-ups are still true, and
`UndisturbedByTheBook` says that each of its statements is a step of the book, however many
calls are in progress. It is what remains of `ImplementsBook` without transactions: the
statements of a disturbed call may break the book: a closed period reopened, a charge or a
total written after the close, a second period of one key (section 5).

### ChatProxy

A response is named by the call that fetched it, and so is the semantic record
made of it, because a call fetches at most one. That one identity stands for
payload, cost and fingerprint, and lets the properties say whose answer and whose
money a row is about.

Variables: `exact` and `index` are the two caches; `stamped` the calls whose
record has its `created_at` (stamped before the record is embedded and inserted);
`sent` counts upstream attempts and `received` is what the provider saw;
`events`, `ledger`, `shadow`, `savings` are the four tables; `answered` the
calls whose response went out; `call` holds for each call the await it is at, its
input and what it was given (`from`, `outcome`), the cutoff of its shadow
analysis as the set of records stamped `before` it, and the best shadow match;
`purge` holds the invalidations.

| code | actions |
|---|---|
| route, gate, canonicalization, scrubbing (`handle_chat_completion` up to the exact lookup) | `Arrive`: refused, streaming or looked up |
| exact lookup; semantic lookup with the fingerprint comparison | `ExactGet`, `FindMatch` |
| `create_chat_completion`, one POST per attempt | `AttemptSucceeds`, `AttemptFails` (timeout, transport error, 5xx: retried), `AttemptRejected` |
| exact fill, scheduling of the shadow task; `add_entry` | `ExactSet`, `Index` |
| `_record_controlplane_events` | `LogEvent`, `LogRequest` |
| the response | `Answer`, `StreamAnswer` |
| `_record_shadow_semantic_outcome` | `ShadowFind`, `ShadowLog`, `ShadowSave`, `ShadowPurge` |
| an exception, cancellation or crash at any await | `Fail`: what was written stays |
| TTLs and `prune_expired` | `ExactExpires`, `SemanticExpires`, at any time |
| `/cache/invalidate`, `invalidate_namespace`, `delete_prefix` | `PurgeStart`, `PurgeDelete` per key, `PurgeIndex`, `PurgeFail` |

`PurgeDelete` follows Redis' SCAN guarantee: a key present from beginning to end
is returned, one written meanwhile may be. `left` holds the keys the scan still
owes; the memory store, which deletes all keys at once, is one of its behaviours.
`settled` is history: the calls that had finished with the caches when the
invalidation began. `SameStore` says whether invalidation reaches the semantic
store that requests use; it is FALSE when start-up fell back to memory.

Abstracted: a prompt is a member of a set and the DLP scrubber a function `Scrub` on
it, so that hashes, keys and fingerprints are equal when scrubbed texts are;
cosine similarity is a table; costs are the fetching call. Settings, policy
overrides and thresholds are constant during a run and all optional repositories
are configured. `created_at` and the cutoff come from one clock, with no two stamps
equal. Whether a request is refused is a free choice (the decision belongs to the
commercial gate). `AttemptFails` stands for timeouts that did reach the provider as
well as those that did not: `sent` and `received` count both.

### ChatBook

The book knows no caches: `Ask`, `Fetch`, `EnterCost` or `EnterSaving`, `Give`.
A saving names a response that was fetched for the same question (namespace and
scrubbed text), a row is entered once, and only what is in the ledger is given out.
`ChatProxy!Book` maps the proxy to it; streaming calls are not in the book.

### CommercialGate

`sub` and `status` are the status columns of subscriptions and periods, `savings`
the totals of a period, `earned` what the ledger holds for its window, `events`
how many rows each event id has. Rows are numbered in the order they are created,
which is how the code breaks ties. `op` holds an admin call at its next statement,
`gate` a chat request. `seen` is history: the standings (an active subscription or
not; no, a closing or a closed current period) its tenant had while a decision was
being made.

| code | actions |
|---|---|
| `create_subscription`, `update_subscription_status` | `UpdateSubscription` and its event |
| `summarize`, `/status`, `/close` | `Summarize`, `Aggregate`, `StoreTotals`, `Refresh`, `SetStatus`, `ReadCurrent`, `WriteStatus` |
| `log_event` with its fixed id | `LogEvent`, an insert that ignores conflicts |
| `get_tenant_enforcement_state` of the gate | the two reads of subscription and period, each a statement |
| the same of the enforcement route, with `service_suspended` | `EnforceSubscription`, `EnforcePeriod`, `EnforceFails` |
| crash, failing statement | `End` at any step |

### TenantBilling, TenantRoles

`row`, `charge` (in the order of `created_at`), `invoice` are the tables; `work` an
operator's call and `call` a reading call, each at its next statement. The scope of a
caller (`ScopeTenant`), its role and capabilities decide what it may ask. `AskPeriod`,
`AskOverview`, `AskPages`, `AskList` and the operator's `AskAsOperator`, `AskListAsOperator`
are the routes; `Read`, `ReadAgain`, `Sum` the three reads of a report with its
reconciliation; `ReadForInvoice`, `FindInvoice`, `WriteInvoice`, `ReadBack` the
statements of `generate_invoice_stub`; `ListPeriods`, `Fallback` the overview;
`Page` one request of a client that follows `next_offset`, over rows fetched
anew.

The operator's calls are `CreatePeriod`; `Summarize`, `StoreTotals`, `MoveToClosing`;
`SetStatus`, `ReconcileRead`, `ReconcileCompare`, `WriteStatus`; `Materialize` and
`InsertCharge` per row; `Adjust` and `InsertAdjustment`; `WorkEnds` wherever one fails. They
are those of `BillingPeriods` without the ledger behind them: a summary stores some total, a
materialization inserts some rows, look-ups that only skip a row are left out. So a
summary, a charge or a status that read the period before a close writes after it here too.

History in `call`: `home`, the tenant of the caller's key; `may`, what a preview may show of its
period: what the row showed, or an earlier preview still had to write, when the call got to know
the period, and what the row has shown since; `sealed`, whether the period was
closed for good and reconciled when a report read it (`Sealed`: closed, and no call that looked
at it before the close is still to write); `start`, the charges there were when paging began.

### ApiKeys

`tenant`, `workspace`, `key` and `log` are tables whose ids are given out by the
insert; `server` says how each process resolves keys; `admin` and `request` are
calls in progress. `Configs` are the settings a start may have, each with its own tenant,
workspace, slugs, key and prefix; `Generated` are the ids the
API may give to new rows. `gone` is history: keys whose revocation was answered and that no
seed has reactivated; `moved` too: workspaces a seed has taken from another tenant. `StartSeeding` is the seed (one transaction), `StartFallback`
a start without the database, `StartDisabled` and `StartUnseeded` the other ways to
start. Issuing is one transaction (`InsertKey` writes the key and its log
row); bootstrap is `Look`, `FindTenant`, `InsertTenant`, `FindWorkspace`,
`InsertWorkspace`, `CheckWorkspace`, `InsertKey`; revocation is `FindKey`,
`RevokeKey`, `LogRevocation`. Secrets are model values, equal exactly if their
hashes are. The lifecycle log is a set of events per key.

### Policies

`version` keeps the numbers of each scope's versions in the order of insertion, `row`
both assignment tables as one sequence in the order of `created_at`, `call` an
admin call or a server start, `reader` a resolution. A call reads the next number
and then inserts it; an assignment checks its version, looks up the active row,
deactivates it, inserts, and writes the change log; a start looks for an active
global row and inserts version and row if there is none. A resolution reads overrides,
then assignments. Timestamps are the order of insertion; of `policy_version_id` the
model keeps that it names a version. History: `inForce` is, per key, the row whose
call was answered without another call of its key; `overlapped` the keys two calls
were at once about; `alone` says so of a call; `floor` of a reader holds the
rows in force throughout its resolution.

### Runtime

`phase` is how far each server is with `lifespan`, `app` what it put in
`app.state`, `read` the overrides a start read and will write back (cleared when the
start leaves that step), `row` the row `default` of the overrides, `call` an
admin call between its read and its write. `settled` is history: per field, what
its last update was answered with, unless another writer overlapped it. A start is
`Start`, `InitializeSemanticStore`, `ReadDefaults`, `WriteDefaults` (twice: the
policy store's warm-up is called by two places), `WarmShadowAnalytics`,
`PolicyStoreFails`, `InitializeCache`, `BootstrapIdentity`, `WarmRepositories`; the
last is one step, since the repositories' warm-ups touch nothing else here. `Stop`
is a shutdown, a crash, or a warm-up that raises. `Settings` are flags; which
combinations a process refuses is `PostureOk`.

### Rollups

`rows` holds the rows of both tables, each with its group, the requests it counts
(from which the columns follow) and `updated_at`, which is the time its statement
began. A statement sees the ledger in `BeginStatement` and commits in `Write`.
`job` is a rebuild: the job's `rebuild_all` does usage, then namespaces; the two
routes do one. `view` is a call that lists one table or, for the overview, both.
Groups with a NULL tenant or workspace never conflict and are inserted again.
History: `known`, what had been logged when a rebuild began; `alone`, no other
one wrote since; `late`, another one wrote the table since the statement
began; `settled`, the last write ended an undisturbed `rebuild_all`. An answer is
kept until the next write, when nothing is said of it any more. `shadow_alert_count`
is left out: nothing in the repository writes `risk_events`.

## 3. Runs

| run | instance | shows |
|---|---|---|
| `billing_serial` | 1 handler, 4 requests, 1 period, 2 rollup rows with one reference, 1 adjustment, threshold 6, limit 2 | with one operator at a time: closed periods balance (`BooksBalance`), charges and totals are those of the ledger's rows in the window (`LedgerBacked`), and the tables implement the book (`ImplementsBook`) |
| `billing_concurrent` | 2 handlers, 1 request, 2 period ids of one subscription, start and end, 1 adjustment, weak fairness | whatever two calls do to each other: the types, `ChargedAtMostOnce`, a call that no other overlapped with a write follows the book (`UndisturbedByTheBook`), a closed period is final once the calls that read it before the close have ended (`SealedIsFinal`), and every call returns or raises (`CallsEnd`) |
| `billing_reopened` | 2 handlers, 1 request | violated: `ClosedStaysClosed` with two calls that overlap (section 5) |
| `chat_calls` | 2 calls, no retries, 1 invalidation, 5 inputs: two reusable texts, another scope, another namespace (not reusable), streaming | `AnsweredIsLogged`, `PurgedStaysPurged`, `ShadowRowsJustified`, the types, and `ImplementsBook`, with failures at every await and expiry |
| `chat_ends` | 2 calls one after the other, 2 attempts each, 4 inputs: same, colliding embedding, other scope, streaming; 1 invalidation at any time, weak fairness | `HitAnswersTheRequest`, `UpstreamOnlyIfNeeded`; every call and every invalidation ends (`EverythingEnds`) |
| `chat_unscrubbed` | 2 calls | violated: `UpstreamIsScrubbed` (section 5) |
| `commercial_gate` | 1 tenant, 1 subscription, 2 periods of which the earlier earns, 1 operator, 1 request, threshold 1 | a request is served or refused, a tenant reported suspended, only for what held while the code looked (`DecisionsJustified`, `SuspensionJustified`); `PatronageIsEarned`, `AnsweredCloseIsLogged` |
| `tenant_billing` | 2 tenants, 1 period recorded under one and of a subscription of the other, 2 operator's calls, 2 reading calls, 3 invoices, 3 charges, savings up to 1, pages of 1 | `OwnRows`, `InvoicesSound`, `ClosedReportReconciles`, `PagesMissNothing` |
| `identity` | 1 server with 5 settings that name 2 tenants for 1 workspace, 2 admin calls, 3 tenants, 2 workspaces, 2 keys | `BootstrapWhole`, `KeysAccountedFor`, `RevokedIsRefused` |
| `policies` | 2 keys, 2 calls, 1 resolution, 2 versions, 3 rows | `VersionsNumbered`, `ResolvesInForce` |
| `runtime` | 2 servers with 7 settings, 2 admin calls, 3 fields, 2 presets, 2 payloads | `ReadyIsShared`, `AnsweredOverrideKept` |
| `rollups` | 2 rebuilds, 3 requests: two namespaces of a workspace, one without a tenant a day later; 3 statements, overviews of 4 rows | `CountsAreWhole`, `OverviewAgrees`, `CountsNeverShrink` |

Bounds and why they are enough, billing. One handler covers every sequence of calls with
failures in between; two cover every race found in the source, since each of
them is a check of one call and a write of another. In the serial run the requests give
rows in the window, one after it and one of another tenant; a `limit` of 2 leaves a row
uncharged when no period is named. Two rollup
rows with one reference are needed for the collision of references. The threshold lies
between the savings of one and of two requests in the serial run, so both sides
of it occur. The concurrent run adds the second handler and takes away what only
matters serially; its liveness needs no symmetry. Its second period id is for two creations of one
period; the serial run has none, since with one handler only one of two equal ids ever gets a
row. The constraint `Focus` of `MCBillingOverlap` bounds what operators ask for: the second
period is created and then left alone, and adjustments are asked for only where it is not
there. It restricts which calls begin, never how a call in progress goes on, so it leaves
`CallsEnd` as strong as without it. What more handlers and periods do to each other, the
theorems say for any number of them.

Bounds of the chat runs. Two calls give every pair of a writer and a reader of the
caches, which is all that the accounting, the purge and the shadow properties relate; that a
hit is right when it is chosen among the records of many calls, the theorem `HitsSound`
says for any number. `MaxRetries` is 1 in `chat_ends`, so both sides of the retry guard
occur; attempts touch nothing the properties of `chat_calls` are about, which has none.
Similarities lie below, between and above the two thresholds, with
one pair of different texts at the similarity of equal ones. Calls are
interchangeable, so `chat_calls` uses symmetry; the liveness run does not. Calls
never wait for one another, so the liveness run has one in flight at a time; its
invalidation overlaps both.

Bounds of the others. The gate compares one request or one operator with one other
change of standing; two periods make "the current one" change, and for that the later one
need not earn anything. A second operator and more
tenants are covered by the theorems. In `tenant_billing` the
period is recorded under one tenant and belongs to the subscription of the other, which finds it
by the fallback; an auditor's key of the first, an admin's key of the second and a caller
without a key ask. Charges are an overage of 1, an adjustment of -1 and an adjustment of no
period; pages of one row with three charges make a client come back while rows are inserted.
Three invoice rows are one more than `FewInvoices` allows. The constraint `Focus` of
`MCTenantBilling` bounds what is in progress at once: two previews and one operator's call as
long as nothing is charged; a report and two operator's calls that make at most two charges; an
overview or a paged list and one operator's call. Which is every pair of a reader and a writer, of
two previews, and for reports every pair of writers. Lists go on to a second period
in the same way as to the first, and only the theorems have them longer. `identity` has one server, restarted at will, because servers
meet only in the tables; the theorems hold for any number. Two of its settings name different tenants for one
workspace, so that a restart takes the workspace from its tenant, and three tenants leave
room for a created one that races for their slugs. In `policies` the keys are the global one and an override; three rows are an old
assignment and two that replace it at once, and the bound on rows ends a behaviour where a fourth would
be inserted; the theorems have no such bound to rely on. `runtime` has two servers, since an
override must be seen by the one that did not write it, and settings on both sides of
each fallback. In `rollups` three statements are a `rebuild_all` with another statement
before, inside or after it; the overview's limit of 4 is reached by the rows that
are inserted again.

Deadlock is checked in the billing and `runtime` runs. The others set CHECK_DEADLOCK FALSE:
their calls, rows or statements are finitely many and the system rightly stops when all
are used up; that no chat call or invalidation stops earlier is what `EverythingEnds` says.

Fairness (in `OverlapSpec` of `BillingOverlap` and `FairSpec` of `ChatProxy`): weak fairness of the next
statement of a call (or invalidation) in progress. An awaited statement returns or raises,
and asyncio resumes the coroutine; in the proxy the timeout of the provider's client gives
the same. An invalidation ends because what it owes only
shrinks: SCAN must return the keys in `left`, and new keys do not enter it.
Operators need not start calls, requests need not arrive and statements need not fail.

Operators named `Mut...` are plausible bugs in the operation defined below them;
no specification uses them. Each property of a passing run fails with one of them
put in place of its operation, which shows the property depends on that code.

## 4. Proofs

All theorems hold for every value of the constants that satisfies the
`...Assumption` of the module: any number of handlers, calls, servers, requests, tenants.
Each module's argument is an inductive invariant, which TLC checked before it was
proved, one step per action and under it one per conjunct the action can disturb.

`BillingPeriodsProofs`, any number of overlapping handlers:

* `TypeCorrect`: `Spec => []TypeOK`. The invariant is inductive once `call` is
  typed; `TypeInv` is that form.
* `ChargedOnce`, `ChargesMatch`, `TotalsMatch`, and of the last two together
  `LedgerIsBehind`. None is inductive alone. `SharedInv` adds
  what a handler may rely on in what it holds from earlier statements (`Locals`): fetched
  rows are logged rows of the call's window, `snap` of a call about to store totals holds
  rows of the period, the period of a call in progress exists. These facts
  survive other handlers because the tables only grow (`TablesGrow`): ledger
  rows and charges are never removed, periods never disappear.
  `AdjustmentsFresh` says an adjustment's uuid is in one place only.
* `SealedFinal`: `SealedIsFinal`. It draws the exact line of what the missing
  transactions cost: a closed period can still change only through a call that read its
  row before the close (`Late`): the status, the totals and the usage charges of such a
  call are the three ways section 5 names. `SealInv` adds
  to `SharedInv` that no one else creates the period a handler is about to insert
  (`Opening`) and that only a close reconciles (`Closing`). `CallTurns` shows, step by step,
  that no call becomes late for a period already closed; `StepWrites` lists what writes.

The second part of `BillingPeriodsProofs` is about calls that follow the book. `Alone` is
what a handler may rely on as long as no other has written since it looked: what it checked
still holds when it writes. `AloneMoves` and `AloneStays` show that its own statements and
those that write nothing keep it so, `BookMoves` that a handler which knows this much takes a step of
the book. From these, for any number of handlers:

* `UndisturbedFollowTheBook`: `UndisturbedByTheBook`, by the invariant `OverlapInv`: `Alone` of
  every handler that is not in `disturbed`.

And assuming `OneOperator` (at most one handler):

* `BookRefined`: `Spec => ImplementsBook`, by the invariant `SerialInv`: `Alone` of the handler.
* `BookBalanced`, of the book alone and without `OneOperator`: it stays balanced. Its
  invariant adds that only closed periods carry adjustments.
* `BalanceKept`: `BooksBalance`, from `BookRefined` and `BookBalanced`, through the
  refinement: the detailed specification inherits the abstract theorem.
* `ClosedIsFinal`: `ClosedStaysClosed`, that the totals of a closed period do
  not change (`ClosedTotalsFinal`) and that charges are attached to open periods only
  (`AttachedOnlyWhileOpen`). All follow from the refinement, which `billing_serial` checks.

`OneOperator` is not a convenience: without it `ClosedStaysClosed` is false, as
`billing_reopened` shows, and totals may shrink, by two summaries of which the one
that aggregated first stores last. `UndisturbedByTheBook` says what is left without it.

Sums over sets (`SumSavings`, `SumAmounts`) are never expanded in a proof: what
is proved needs only that equal sets have equal sums.

`ChatProxyProofs`, for any number of calls, prompts, namespaces, scopes and
invalidations, from `ProxyAssumption`:

* `ProxyInvariant`: `Spec => []ProxyInv`, the inductive invariant. To the properties
  themselves it adds, per call, `Progress` (what a call at each await has been given:
  an outcome is set once, and a call at `send` has none), `Attempts` (the retry
  counter at each await) and `Recorded` (how far its two logs are), and about the
  caches `CachesFetched`: every entry was fetched by a call with that key, every stamped
  record by a call that paid. A hit is sound because of the last, an answer is logged
  because of `Recorded`, and `ShadowSound` keeps the cutoff and the match. Above
  these, `Kept` says that inputs and outcomes never change once set, which
  carries every fact about another call's response from step to step.
* `ChatTypeCorrect`, `HitsSound`, `UpstreamBounded`, `AnsweredLogged`,
  `ShadowJustified`: the invariants of the runs, from it.
* `PurgesSound`, assuming `SameStore = TRUE`: `PurgedStaysPurged`. `PurgeSound` adds that
  during a scan the entries of settled calls are all in `left`, and that settled
  calls never write again. With `SameStore = FALSE` the property is false (section 5).
* `BookKept`: `Spec => ImplementsBook`, action by action: an arrival asks, a successful
  attempt fetches, `LogRequest` enters the cost or the saving, `Answer` gives, and
  every other step leaves the book alone.

`CommercialGateProofs`: `GateInv` says that what a call holds of a standing is in
`seen`, and that `seen` holds the standing of now; from it `ServedOnlyIfOpen`,
`RefusedForAReason`, `DecidedByWhatHeld` of both, and `SuspendedForAReason`. `LogInv` says of each call about to log what
made it do so, and gives `OneRowPerEvent` (an event id has one row, however many calls
log it), `PatronageOnlyIfEarned` and `AnsweredIsLogged`. `TypeCorrect`.

`TenantBillingProofs`: `Inv` is, beside the types, what the statements of reading calls keep
between them: `Sound` (what its next statement needs has been read, and is of the caller's
tenant), `Written` (the invoice an answered preview names exists), `Reports` (what a report has
read of a sealed period is still so: `ReportSound` while it reads, `Told` when it has), `Fresh`
(a preview may show what its period shows now, and what any preview of the period has read and
not yet written), `Found` and `Few` (an invoice found is one of the period, and invoices and calls about to insert one are
together no more than calls). `OperatorMoves` says what the operator's statements, however
they interleave, leave alone: a sealed period stays sealed, with its total and its usage
(`Steady`), and a row is only written with its readers told (`RowGoesOn`, from which `MayGrows`).
Sealing is by nature final, as no call of a sealed period can become one that read it before its
close. `TypeCorrect`, `ShownOwnRows`, `InvoicesAreSound`, `ClosedReportsReconcile`: of a period
closed for good, with summaries, materializations and status changes begun before its close
counted as still at work until they end. Nothing is claimed of a period they have not left:
its report may well not reconcile (section 5).
`PagesComplete` (`PagesMissNothing`) has an invariant of its own, `PagedInv`: of the charges
that were there when paging began, those not yet shown have at least `offset` newer ones of
their tenant. New charges only push them further back, and a page shows what it moves the
offset past (`PageShows`). A page without `has_more` leaves nothing behind it: were the rows it
fetched not all, the newest one left out would have only fetched ones before it, more than
were asked for (`FirstOf`), which the order of the numbers gives without an induction.

`ApiKeysProofs`: `Inv` adds to the properties what an admin call at each step has found
or inserted, that slugs are unique, and that an answered revocation has left its key
revoked. Rows are never removed, and what a call knows of a row goes on to hold unless a
seed writes the row; only rows that settings name are ever written so, and a workspace that
changed its tenant is in `moved`. From it `TypeCorrect`, `Refused`,
`AccountedFor`, `Whole`, for any number of servers.

`PoliciesProofs`: `Inv` adds that an active row of an undisturbed key is the one in force,
what each call holds of rows and numbers, and that a resolution's `floor` is served by what
it has read so far. `TypeCorrect`, `Numbering`, `InForceIsUsed`.

`RuntimeProofs`: `IInv` is `Started` (what each start has decided by its phase), `Named`
(the row's preset is one of the catalogue or "custom") and `Undisturbed` (who read the row
and will write it back holds the settled values). `TypeCorrect`, `ReadyShares`,
`OverridesKept`.

`RollupsProofs`, for any number of rebuilds, requests, groups and statements:
`RollupsInv` is `TypeInv`; `RowsInv` (a whole group has one row, which counts requests of that
group only, and two rows of another group were written by different statements); `JobsInv`
(what a statement about to write has seen: all its rebuild knew, all its table counts
unless it is late, all any table counts while its rebuild is alone; and what a rebuild that is
alone has counted so far); and `ViewInv` (settled tables agree, and a list of settled tables
holds their rows). None of the properties is inductive: what a rebuild counts depends on
what its statement saw when it began, and on nobody having written since. The lemmas
`UpsertShape`, `UpsertCounts`, `UpsertKeepsRows` and `UpsertGrows` say once what the upsert does to a table,
from which every step that writes is proved. `TypeCorrect`, `CountsWhole`, `OverviewsAgree`
(which needs that different rows are different values, or a list shorter than the limit might
still have left one out), and the action property `ShrunkOnlyByLate`.

Only model-checked: `CallsEnd` and `EverythingEnds`, since liveness under fairness is beyond
the prover.

## 5. Where the code and its words disagree

Two runs show a disagreement with a sentence of the repository:

* `billing.py:355` "closed billing period cannot be reopened": the check and the
  UPDATE are two statements, and the UPDATE has only the id in its WHERE. Call A
  reads an open period, call B closes it, A writes `open` (`billing_reopened`).
* `README.md:11` "sensitive content is scrubbed before caching or upstream calls":
  the scrubbed text makes the cache keys, the request itself goes to the provider
  (`proxy_service.py:268-271`, `344-347`; `chat_unscrubbed`). It follows that two
  requests that scrub to the same text share one cached response, although the
  provider was sent different ones.

Others of the same kind as these two, or read from the code while modelling it:

* `billing.py:792` "cannot attach usage charges to a closing or closed billing
  period" is checked once per call, before the rows are fetched; and a summary that
  started before a close writes its totals after it, against
  `docs/BETA_COMMERCIAL_POLICY_DECISIONS.md:49` "`closed` means the period has been
  finalized".
* `tests/test_namespace_cache.py:88` expects a miss after an invalidation: the route
  purges the store the settings name, which after a fallback at start-up is not
  the one requests use (`routes_admin.py:74`; `SameStore = FALSE`).
* `docs/BETA_TENANT_AUTH_MODEL.md:75` and `tenant_authorization.py:36` differ in the role of
  a key whose role and capabilities say nothing.
* `README_PRODUCTION.md:119` names `docs/ROLLUP_SCHEDULING.md`, which does not exist.

Worth knowing, though nothing in the repository promises otherwise:

* Billing. A period that reaches `closing` before its rows were materialized accepts no
  charges and cannot reconcile until it is moved back to `open`. A rollup charge bills
  upstream cost, a ledger charge realized savings, so a period with rollup charges seldom
  reconciles. Charges made without a period stay without one and count as charged.
  Moving a period by `/status` emits no event. A status filter on a list can make a client
  skip rows when a period changes status between two pages, and a page may be shorter
  than the limit, because the kind of a charge is filtered after the LIMIT; `has_more` is
  computed from what the filters leave, so a client that filters may stop before the last row
  (`PagesMissNothing` is about lists of charges without filters). A report of a closed period need
  not reconcile while a summary or a materialization that began before the close is at work,
  nor after one of them has written (`ClosedReportReconciles` is about periods whose totals
  and charges agreed when they were closed for good). Two creations of one period at once leave
  two of its key. A tenant's rollup row is passed over when another
  tenant's has the same date and workspace text.
* Rollups. Rows without a tenant or workspace are inserted again by every rebuild
  (`rollups.py:95`: NULLs never conflict), so lists over all tenants count their requests
  several times, and `CountedOnce` (a part of `CountsAreWhole`) is about rows with both. Of two overlapping rebuilds
  the older counts may be written last. The overview gives both tables one limit,
  although there are more namespace rows a day. Nothing writes `risk_events`.
* Proxy. A call that fails between the exact fill and its ledger row leaves a response in the
  cache whose cost no row carries, while each later hit on it is entered as a saving. A
  call fetched before an invalidation fills the caches after it: `PurgedStaysPurged`
  promises nothing of calls still at work when it began. Streaming calls reach neither log.
* Identity. A bootstrap that ended half way cannot be repeated with its names. The seed makes
  a revoked static key active again at the next start. A start with another
  `controlplane_static_tenant_id` takes the static workspace over (`api_keys.py:164-166`): keys
  issued in it go on acting for its former tenant there (`KeysAccountedFor` excepts these
  workspaces). A server with identity off serves any bearer and calls itself ready
  (`posture.py:147`); `RevokedIsRefused` is about servers that resolve keys.
* Policies. Assigning a version that does not exist deactivates the old row, then fails,
  and may bring back an older active row; two overlapping overrides leave two active rows; a
  starting server may overrule a global assignment that was just answered. The chat path
  does not use scoped policies; they are resolved for inspection only, without the
  environment. `GET /admin/policy` of `routes_policy_admin.py` is shadowed by the one of
  `routes_admin.py`.
* Overrides and readiness. Once the row exists, the defaults filled into it overrule the
  settings of the environment. An explicit preset name stays after one of its fields is
  overridden. Readiness says nothing of the policy store and of the shadow table, which a
  server replaces by memory when they fail (`lifecycle.py:108`); overrides set on such
  a server are not shared and are lost at its restart.

## 6. Not modelled

* Plans (`upsert_plan`): a price nothing modelled depends on. The closeout preview and its
  event, and the billing history: compositions of reads `TenantBilling` has.
* Environments: a label on a key; the checks that a named environment exists when a key is
  issued are left out with them.
* Risk events: an append-only log nothing writes to.
* Loading the embedding model and parsing detector lists at start-up.
* DLP detectors and embeddings: pure functions on text and vectors; the models take them
  as a function and a table.
* Metrics and the price table: counters nothing reads back, and constants.
* The browser extension, dashboard and site: clients of the HTTP API. Operational
  scripts: sequences of calls the modules' actions already allow.

## 7. Plan

Built, most important first: `BillingPeriods` and its book, `ChatProxy` and its book,
`CommercialGate`, `TenantBilling`, `ApiKeys`, `Policies`, `Runtime`, `Rollups`, and the
proofs of all of them.

Left, in this order:

1. The composition of `CommercialGate` and `ChatProxy`, so that what a request was refused
   or served for is related to the ledger row it leaves.
2. A refinement for `Policies`: one step per call against the statements, for keys that no
   two calls are about.
3. The closeout preview with its event in `CommercialGate`: a log row nothing reads, which doubles the
   states of that run.
