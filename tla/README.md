# Verification of the LCS freight-forwarding platform

TLA+ models of the platform's backend, TLC configurations that check them on
small instances, and TLAPS proofs of the theorems that matter most.

## 1. The system

A freight forwarder's back office: quotations become service orders, service
orders carry containers, milestones and charges, charges become invoices, and
invoices and payments become journal entries. The backend (`src/backend/app`)
is FastAPI over SQLAlchemy 2 (async) and PostgreSQL, with Redis as a cache,
MinIO for files, Casbin for authorization, a Telegram notification worker and
a backup scheduler inside the API process. The frontend (`src/frontend`) is a
Nuxt single-page client.

Every HTTP request runs in one SQLAlchemy session (`core/database.py`,
`get_session`): `autoflush=False`, READ COMMITTED, committed by the service
function, rolled back on any exception. There is no serializable isolation and
no retry: correctness under concurrency rests on `SELECT ... FOR UPDATE`,
unique indexes, foreign keys and a handful of triggers
(`alembic/versions/e6f7a8b9c0d1_reporting_views_and_integrity.py`). That is
what the models are about.

### Inventory

| Component | State | Operations | What is hard | What makes it correct | Module |
|---|---|---|---|---|---|
| Finance subledger (`finance/service.py`) | `financial_documents`, `_lines`, `_allocations`, `_postings`, `journal_entries`, `accounting_periods` | save, delete, post, reverse, allocate, close and reopen a period | overlapping requests, unlocked reads, deferred triggers, deadlocks, retried requests | one entry per posting and one reversal; allocations within both totals and only between posted documents; posted terms frozen; closed periods closed; a retried key settles once | `Subledger`, `Settlement` |
| Number allocation (`core/sequences.py`) | `document_sequences.last_value` | `allocate_number`, `upsert_sequence` | two requests at once, rollback, an administrator who moves the counter | no number twice, no gap | `Subledger`, `Billing`, `Quotations` |
| Posting builder (`finance/posting.py`, `posting_rules.py`) | `posting_rules`, mappings | select a rule, build balanced lines; save and delete rules | rounding, remainders, ties between rules, rules that change meanwhile | debit = credit, total preserved, an ambiguous rule refused | `PostingDraft` |
| Manual journals (`finance/service.py`) | `journal_entries` DRAFT/POSTED, `journal_entry_lines` | save, post, delete | a save against a posting, lines deleted and inserted at different moments | posted journals balance and lie in their period | `Journals` |
| Foreign exchange (`core/fx.py`, `currency_rates.py`) | `currency_rates`, the base currency, `exchange_rate` of documents | save and delete rates, change the base, convert, post | column-wise updates of overlapping edits, lines deleted and inserted at different moments, a base that changes, rounding at four places | document, lines and entry tell the same amounts | `Rates` |
| Billing (`operations/service.py`, `finance/service.py`) | charges DRAFT/ISSUED, `financial_document_sources` | save, issue, invoice a charge, invoice an order | read-then-write checks in several requests | a charge is invoiced once | `Billing` |
| Reports (`reports/*`) | none but the cache | trial balance, general ledger, statements, balances, profitability, dashboard | several SELECTs per report, pages, cached parts | reports reconcile, pages miss nothing | `Reports`, `Balances` |
| Service orders (`operations/service.py`) | orders, containers, movements, milestones, attachments | save, finish, delete, add, drop, renumber | checks without locks, files deleted before COMMIT | rows numbered apart; a deletion takes what it checked | `Orders` |
| Component pages (`operations/component_tabs.py`) | values of the rows of a group | show, save | pages that are older than the configuration or the rows | a save changes what was typed | `Capture` |
| Quotations (`quotations/service.py`) | revisions DRAFT..CONVERTED | save, revise, send, accept, reject, convert, delete | retried and overlapping conversions, edits that land late | an offer stands; one order per key | `Quotations` |
| Routes (`master_data/route_stops.py`) | numbered stops | save | lists that repeat or reorder rows under a unique index | the list submitted is the list stored | `Routes` |
| Record status (`status_policy.py`, `status_service.py`) | a record's status | shared endpoint, workflow commands | both read without a lock | a command's status comes from a command | `Statuses` |
| Telegram outbox (`telegram/outbox.py`, `worker.py`) | `notification_outbox` with status, attempts, lease, claim token | enqueue, claim, deliver | several workers, leases that run out, crash between send and UPDATE | nothing lost, attempts bounded, a stale sender overwrites nothing | `Outbox` |
| Telegram monitor (`telegram/monitor.py`) | cursor, incidents | one tick a minute | ids given before COMMIT, failed ticks | every event that could be read is told, none twice in a cooldown | `Alerts` |
| Telegram linking (`telegram/service.py`, `router.py`) | challenges, links, the group, the bot | pair, disconnect, webhook, confirm, test, register | late and repeated updates, a bot that changes | a disconnect lasts; the group is the bot's | `Linking` |
| Sessions (`auth/service.py`) | sessions, used tokens, reset links | log in, rotate, log out, reset, revoke | a token used twice at once, a log-in beside a change of password | one exchange per token; sign-outs reach every device | `Sessions` |
| Admission (`core/deps.py`, `auth/service.py`) | `token_version`, `must_change_password`, failed attempts | issue a token, read its claims, count failures | claims and counts of two moments | no token bypasses a forced change | `Admission` |
| Accounts and roles (`auth/service.py`, `core/permissions.py`) | users, roles, `casbin_rule` | create, assign, deactivate, delete; grant, revoke | checks before locks | one role each; an administrator remains; grants add up | `Accounts` |
| Authorization policy (`core/authorization/service.py`) | rules per process, a version in Redis | change, publish, reload | a reload that overlaps a change, Redis away | a current copy is complete; every worker ends with the newest rules | `Enforcer` |
| Settings (`settings/service.py`) | `app_settings` by group, a legacy mirror, the access policy's copies | patch, reset; read the policy | a patch merged into one reading and compared with another; copies in several processes | sections do not overwrite each other; staleness bounded | `Settings`, `AccessPolicy` |
| Configuration versions (`master_data/config_versions.py`) | versions DRAFT/PUBLISHED/RETIRED, snapshots | publish, activate, roll back, retire | snapshot taken before the lock | the lock leaves the unique indexes nothing to refuse | `ConfigVersions` |
| Component configuration (`component_config.py`) | tabs, groups, attributes, their codes | attach, redesign, rename, delete | guards on rows that others write | saved data stays visible | `Components` |
| Master data and archive (`master_data/service.py`, `archive/service.py`, `core/deletion.py`) | rows, `deleted_at`, archive entries | save, switch, archive, restore, erase | checks before locks, two lock orders | the entry tells the truth about the row | `Catalog` |
| Cache (`core/cache.py`) | Redis values, one version per namespace | get, set, bump | a fill that overlaps a bump, Redis away | no value older than a counted bump, but for that overlap | `SharedCache` |
| Backup (`backup/*`, `core/locks.py`) | runs, records, sheet, advisory lock | run, flush, restore, schedule | replicas, crashes between append and mark, a lock bound to a connection | the sheet is a backup; one run at a time; due runs happen | `Backups`, `AdvisoryLocks` |
| Spreadsheet import (`excel_io/service.py`) | import sessions, jobs | upload, cancel, confirm | confirmed twice, fails midway | a token confirms once | `Imports` |
| Audit, rate limit, validation, wiring, frontend, migrations, scripts | — | — | — | — | section 6 |

Interactions: a quotation conversion creates an order; issuing a charge
creates a draft invoice in the same transaction; posting reads the posting
rules and allocates a number from the shared JOURNAL sequence; every committed
financial change that a report shows bumps the `reports` cache namespace
*after* COMMIT; audit rows are written by the routers in a second transaction,
and the monitor turns some of them into notices; the outbox row of a
notification is inserted in the business transaction and sent later; a change
of roles is published to the other processes through Redis; component pages
show what the configuration says at the time they are loaded.

## 2. Modules

| Module | Models | With |
|---|---|---|
| `Subledger` | the finance subledger as overlapping transactions | `MCSubledger`, `SubledgerProofs` |
| `Sums` | no code: sums over finite sets, for the proofs | `SubledgerProofs`, `BooksProofs` |
| `Settlement` | what the subledger promises, without transactions: the abstract specification | refined by `Subledger` |
| `Billing` | service charges and the three commands that invoice them | `MCBilling`, `BillingProofs` |
| `Outbox` | leased delivery of Telegram notices | `MCOutbox`, `OutboxProofs` |
| `PostingDraft` | how a document becomes a balanced entry while rules and accounts change | `MCBooks`, `BooksProofs` |
| `Journals`, `Reports`, `Balances`, `Statuses`, `Rates`, `Routes` | the books around the subledger | `MCBooks`, `BooksProofs`; `Rates` also in `MCRates` |
| `Quotations`, `Orders`, `Capture` | offers, service orders and the pages of an order | `MCFreight`, `FreightProofs` |
| `Sessions`, `Admission`, `Accounts`, `Settings`, `AccessPolicy`, `Linking`, `Alerts` | who may do what, and the bot | `MCAccess`, `AccessProofs` |
| `ConfigVersions`, `Catalog`, `Components`, `Imports`, `Enforcer`, `SharedCache`, `Backups`, `AdvisoryLocks` | configuration, master data and the machinery below | `MCUpkeep`, `UpkeepProofs` |

`MC*` modules name small instances. `MCBooks`, `MCFreight`, `MCAccess` and
`MCUpkeep` hold several modules that share no variable; interleaving their
steps would add states and no behaviour worth having, so a behaviour runs one
of them, which the variable `part` names. The composition is the run's, not the
system's: where components do interact (an order that a conversion makes, the
number a posting draws, the invoice an issue creates, the bump after a COMMIT,
the row an import writes), the interaction is in the module that needs it.
`*Proofs` modules only hold theorems and the invariants they need. Definitions
marked *Mutant* in a module are plausible bugs in the definition that follows
them; no specification uses them. Each shows that some property would notice
that bug.

### How transactions are modelled

`Subledger` and `Billing` follow one convention, and so do the other modules of
concurrent requests. A request is a process. Its
steps are the points at which PostgreSQL lets it observe or wait for another
transaction: a row lock (`SELECT ... FOR UPDATE`, or the UPDATE or DELETE of a
flush), the lock of a number sequence, an unlocked read, COMMIT. Code between
two such points belongs to the step before it. What a request has read is in
`local[r]`; what it writes appears when it commits, and `Release` drops its
locks. A check that raises is `Refuse`; a crash, a lost connection or an
exception of any other origin before COMMIT is `Rollback`, possible at every
step. One fact of SQLAlchemy matters for what a locked read returns: without
`populate_existing`, a `FOR UPDATE` read leaves the attributes of an object
that the session still holds as they were. The identity map is weak, so an
earlier unlocked read of a row that nothing refers to any more does no harm.

### Subledger

State: `docs` (`financial_documents`: status, total, paid_amount, and the
number of the entry that `financial_document_postings` links), `allocs` (the
idempotency keys that have a row in `financial_document_allocations`; `Payload`
says what the client sends under each), `journals`, `periods`, `lastNo` (the
JOURNAL row of `document_sequences`), `docLock`, `numberLock`, `pc`, `local`;
`settled` is history.

| Code | Actions |
|---|---|
| `save_document` | `CreateDocument`; `EditRead`, `EditWrite` |
| `delete_draft_documents` | `EraseRead`, `EraseWrite` |
| `post_document` | `PostBegin`, `PostNumber`, `PostCheck`, `PostCommit` |
| `reverse_document` | `ReverseBegin`, `ReverseNumber`, `ReverseRead`, `ReverseLock`, `ReverseCheck`, `ReverseCommit` |
| `allocate_payment` | `AllocateLookup`, `AllocateLockPayment`, `AllocateLockTarget`, `AllocateCommit` |
| `close_period`, `reopen_period`, `update_period` | `ClosePeriod`, `ReopenPeriod` |
| `fn_validate_journal_post` (deferred trigger) | `AcceptsEntry` in `PostCheck`, `ReverseCheck` |
| `fn_guard_allocation` (trigger) | `TriggerAccepts` in `AllocateCommit` |
| exceptions, deadlock detection, `get_session` | `Refuse`, `DeadlockVictim`, `Rollback` |

Abstractions. A document's lines are its total. Document types that no
allocation can name behave like an invoice that no key targets. A deletion or
posting of several ids is several requests. The allocation trigger and the
INSERT are one step, because everything the trigger reads is locked by then;
the period check of the deferred trigger and COMMIT are two, because it reads
the period without a lock. A reversal reads its counterparties in one step:
each is written back from its own reading only. A request without an
Idempotency-Key is a key used once. There is one JOURNAL sequence (one year).
Creation of a missing period or sequence row, the year's rollover and a unique
line number that fails are covered by `Rollback`. The audit row that a router
writes in a second transaction is not modelled.

### Settlement

Documents live ABSENT, DRAFT, POSTED, REVERSED or ERASED, their terms change
only as drafts, and `Settle` joins a payment and an invoice in one indivisible
step within both totals. `Subledger` instantiates it with `docs[d].status`,
`docs[d].total`, `allocs`: every COMMIT is one step of it, every other step
none.

### Billing

State: `charges` (`service_order_charges` of one order), `invoices` (generated
documents with their lines and `financial_document_sources`), the
CUSTOMER_INVOICE sequence, locks, requests.

| Code | Actions |
|---|---|
| `save_charge`, `delete_charges` | `CreateCharge`; `SaveRead`, `SaveWrite`; `DeleteRead`, `DeleteWrite`; `Refuse` |
| `issue_charge` | `IssueBegin`, then `IssueCommit`, or `TakeNumber` and `BillCommit` |
| `charge_to_invoice`, `create_invoice_from_charge` | `BillCharge`, `TakeNumber`, `BillCommit` |
| `create_invoice_from_service_order` | `OrderLookup`, `OrderRead`, `TakeNumber`, `BillCommit` |
| finance on the generated document | `PostInvoice`, `ReverseInvoice`, `EraseInvoice` |

The subledger's steps on a generated invoice are indivisible here, which
`Settlement` justifies. Not modelled: edits that finance makes to a generated
draft, manual invoices that draw from the same sequence, the `base_*` amounts.
The sources of a reversed invoice stay, so its charges are never billed again
by these commands: that is the code's rule, and the model's.

### Outbox

State: `row` (`notification_outbox`: status, category, attempts, claim token,
whether the payload still holds its secret), `clock` (whether
`next_attempt_at`, `locked_until`, `expires_at` have passed), `worker` (one
delivery each), `cancelling` (a disconnect in progress); `claims`, `retries`
and the history `sent`, `reached`, `disturbed`. A claim's token is its number:
a random token is never drawn twice.

| Code | Actions |
|---|---|
| `enqueue_private`, `enqueue_admin` | `Enqueue` |
| `claim` (`FOR UPDATE SKIP LOCKED`) | `Claim`, `Close`, `PurgeOnly` |
| `deliver` | `Check`, `Send`, `Finish` |
| `private_disconnect` | `DisconnectRead`, `DisconnectWrite` |
| recovery switched off in the settings | `CancelRecovery` |
| `retry` | `Retry` |
| time, process death | `BecomeDue`, `Lapse`, `Expire`, `Crash` |

A batch of five under a semaphore of two is several workers. Eligibility
(settings, link, reset token) is a free choice. A configuration error before
the request counts as a send that did not arrive. "alert" stands for every
category without a secret. Not modelled: the retry endpoint's one-minute
cool-down, rate limits, deduplication in `enqueue_admin`, the migration of
destinations. Two things the model shows and the properties allow: a late
disconnect can write CANCELLED over SENT or FAILED, and a row closed as FAILED
for want of attempts keeps its old token, which nothing accepts any more.

### PostingDraft

State: `rules` (`posting_rules`), `usable` (the mappings whose accounts are
active and postable), `admin` (what each administrator's request has read and
is about to write), `document`, `work` (the posting in progress), `entry`,
`refused`; `commands` counts administrative commands.

| Code | Actions |
|---|---|
| `post_document` to the control leg of `build`, `resolve` | `PostBegin` |
| one pass of the loop in `_add_detailed`, `_detail_account` | `PostLine` |
| the fallback of `_add_detailed` | `PostFallback` |
| `assert_balanced`, the INSERT | `PostCommit` |
| `create_posting_rule`, `update_posting_rule` | `SaveRuleRead`, `SaveRuleWrite` |
| `delete_posting_rules` | `DeleteRuleRead`, `DeleteRuleWrite` |
| `update_account` | `ChangeAccounts` |

Money is counted in half units of the ledger's last decimal (Numeric(19, 4)).
Columns are rounded half up as they are stored; a document's total is rounded
from the unrounded sum of its lines, as `save_document` does. An account is
named by the mapping that names it and its role there. `known` is the accounts
a request has already loaded: they stay as they were for the rest of it. A
line's own account is used unchecked. A line's tax is a whole number of the
last decimal, or not above its taxable amount (`RawLine`): `resolve_line_tax` takes
a given amount, which has at most four decimals, or a rate of at most 100 %.
Three of the ten strategies stand for the rest, which mirror them. Periods,
numbers and statuses are `Subledger`'s. Descriptions, the stored explanation and
base-currency amounts are left out.

### Journals (books)

State: `heads` and `lines` (`journal_entries`, `journal_entry_lines`), row
locks, each keeper's and approver's transaction, `periods`.

| Code | Actions |
|---|---|
| `save_journal` | `CreateJournal`; `OpenToSave`, `DeleteLines`, `WaitForLines`, `SaveHead`, `SaveLines` |
| `delete_journals` | `OpenToDelete`, `DeleteLines`, `DeleteHead` |
| `post_journal` | `LockJournal`, `CheckJournal`, `CommitPosting` |
| `update_period`, `close_period`, `reopen_period` | `ChangePeriod` |
| the foreign key of a new line, `fn_guard_journal_line` | `ShareLock`; the guards of `DeleteLines` and `SaveLines` |
| exceptions, `get_session` | `KeeperGivesUp`, `ApproverGivesUp` |

A set of lines is its number and its two sums, in the journal's currency and
in the base currency. A save deletes the old lines at once but writes the rest
at its flush, and updates the head only if a column changed: that order is the
whole difficulty.

### Reports and Balances (books)

`Reports` has the ledger as a sequence of postings; the trial balance is one
SELECT, the general ledger three per page, a statement one per account type.
Actions: `Posts` (save, post, then bump), `Pages` (`AskLedger`, `TotalLedger`,
`NextPage`, `ShowLedger`, `CloseLedger`), `Draws` (`MissCache`, `ReadTotal`,
`CacheStatement`), `BumpReports`, `ExpireStatement`, `LinkAccount` (a financial
account becomes or ceases to be cash). `Balances` has documents, allocations, `paid_amount`,
charges and orders, and the lists computed from them: receivables, payables,
profitability, trial balance, dashboard. Like the code, receivables and payables
read the column `paid_amount` (`Paid`), which is not the sum of the allocations
where a reversal wrote back a stale reading; `drifted` has those documents.

| Code | Actions |
|---|---|
| `receivables`, `payables`, `profitability`, `trial_balance`, `dashboard`, around the cache | `AskReport`, `ReadPart`, `StoreList`, `Answer`, `ExpireReport`, `BumpShelf` |
| `save_document`, `delete_draft_documents`, `post_document` | `SaveDraft`, `DeleteDraft`, `PostDraft` |
| `reverse_document` | `BeginReversal` (what it reads without a lock), `FinishReversal`, `FailReversal` |
| `allocate_payment` | `AllocatePart` |
| `save_charge`, `delete_charges`, `issue_charge`, `create_invoice_from_charge`, `create_invoice_from_service_order` | `DraftCharge`; `AskToDrop`, `AskToIssue`, `AskToBill`, `AskToBillOrder`, then `CommitRequest` or `FailRequest` |
| `finish_service_order`, `set_service_order_status` | `MoveJob` |

A reversal and a command on charges are two steps, their checks and their
COMMIT, so they overlap as they do in `Subledger` and `Billing`: an order may be
billed as a whole beside one of its charges, a charge may be billed twice, a draft
charge may be billed, a source may be left by an invoice that was deleted or
reversed. The other commands are indivisible, as those modules have their steps.
What a document says is constant (`PaperOf`, `ChargeOf`): an invoice that a command
makes is one of those that could be made. A cached value is represented by the
books that it was computed from, the dashboard by those that each of its SELECTs
saw. `BooksSound` says which books may be there: allocations join posted
documents and no target is paid above its total. The commands keep that, which
is proved.

### Statuses, Rates, Routes (books)

| Code | Actions |
|---|---|
| `change_status` and its loaders | `ReadForStatus`, `CommitChange`, `AuditChange` |
| `finish_service_order`, `set_service_order_status`, `close_period`, `reopen_period`, `issue_charge` | `ReadForCommand`, `LockedCommand`, `CommitChange` |
| `normalize_rate_input`, `delete_reference`, the base currency in the settings | `SaveRate`, `DeleteRate`, `ChangeBase` |
| `save_document`, `resolve_document_rate`, `post_document` | `ReadForSave`, `ClearLines`, `CommitSave`, `DropSave`; `PostInvoice` |
| `save_route_stops`, `resolve_route_stops` | `ReadRoute`, `CommitRoute`, `AbandonRoute`; `RetireRole` |

`Statuses` takes the tables of transitions as they stand in `status_policy.py`
(orders, quotations, documents, charges, periods and the plain toggles); an
UPDATE names a column only if it differs from what the request had read, which
is what lets two requests each write half. `Rates` keeps a rate as a multiple of
1/`Scale` and rounds half up where the code does: a request's amounts
(1/`Fine` of a unit) as a line is stored, its total from their unrounded sum, the
converted total to the currency's last decimal (`Cent` units), and the base amount
of each leg of the entry on its own. A save deletes the lines it finds at once
and inserts its own at its flush, so another save's lines may come between
(`ClearLines`, the step `"late"`). Which account a leg is booked to is
`PostingDraft`'s; here a line has a leg for its tax, if the rule names a tax
account, and one for the rest. A route's `CommitRoute` is one
step, since its parking of the stored numbers locks every stop it read.

### Quotations (freight)

| Code | Actions |
|---|---|
| `save_quotation` | `CreateQuotation`; `Editing` (`SaveQuotation`, then `SaveInPlace` or `LockHeader`, `CloneAndSave`) |
| `create_revision` | `Editing` (`ReviseQuotation`, `LockHeader`, `CloneAsRevision`) |
| `send_`, `submit_`, `accept_`, `reject_`, `cancel_revision` | `Editing` (`ReadForTransition`, `WriteTransition`) |
| `convert_revision`, `create_service_order_from_quotation` | `Converting` (`ReplayConversion`, `ReadForConversion`, `CheckPriorConversion`, `AllocateBooking`, `CommitConversion`, `LoseConversion`) |
| `delete_quotations`, `create_quotation_from_service_order` | `Removing` and `Requote` |
| `delete_service_orders` on the result | `EraseBooking` |
| exceptions, `get_session` | `AbandonQuote` |

A revision's terms are one value kept twice, as the tables have it: the total
on the revision and the lines it was added up from. The history `stale` (and its
like in other modules) marks what was written over a version that the writer had
not read; the properties except exactly that and nothing more.

### Orders and Capture (freight)

`Orders`: `CreateJob`, `ChargeJob`, `DropLeg`, `DropMark` are indivisible
commands; everything else is `Reading` (the checks), `Writing` and, for files,
`Filing` (the object store before or after the COMMIT), with `AbandonClerk`
between any two. `Capture` has one group of one order: `OpenPage`, `ShowPage`,
`TypeCell`, `AddLine`, `RemoveLine` on the page, `StartSave`, `ReadLines`,
`CommitSave`, `SaveFails` for `bulk_save`, `UpdateAttribute` and
`UpdateMembership` for the administrator. Of the frontend it takes what
`useComponentTabs.ts` decides to send: every row of the group as the page has
it. An order is pinned to the configuration in force when it was created
(`stamp_service_order`), and the page shows the layout it is pinned to, while
`bulk_save` validates against the live attributes: `pinned` and `Shown` are the
two. Values are words; what `_coerce_value` makes of a word under an attribute's
type is modelled, and what it refuses.

### Sessions and Admission (access)

`Sessions` has one account, its sessions and every refresh token, link and
password. Time is three facts that `Clock` may turn at any moment: a consumed
token is no longer within the grace period, a link has expired, the wait for
another link is over. `Ask` is a step of a request: `Authenticate` and
`CreateSession` (log-in), `LockForRotation`, `CommitRotation`, `Replay`, `LogOut`,
`ListSessions` and `RevokeAllSessions` (change of password, deactivation, forced
log-out), `LockForLink`, `IssueLink`, `ReadLink`, `LockForReset`, `ResetPassword`,
`Reactivate`.

| Code (`Admission`) | Actions |
|---|---|
| `get_current_context`, `_refuse_until_password_changed` | `ReadCredential`, `FlagDue` |
| `authenticate`, `_session_access` | `Begin`, `WrongPassword`, `RightPassword`, `Issue` |
| `change_password`, `set_user_password`, `force_logout_user`, `reset_password` | `SignOut` |
| the policy's age limit, the lock's end, `get_session` | `PolicyTurns`, `LockEnds`, `AbandonCall` |

### Accounts and Settings (access)

| Code | Actions |
|---|---|
| `replace_`, `grant_`, `revoke_role_permissions`, `sync_role_permissions` | `LockRole`, `CommitGrants` |
| `create_role`, `duplicate_role`, `update_role`, `delete_roles` | `CreateRole`; `LockRoleStatus`, `CommitRoleStatus`; `ReadRoleDeletion`, `EraseRole`, `DropRole` |
| `create_user`, `delete_users` | `ReadNewUser`, `InsertUser`; `ReadUserDeletion`, `DeleteUser` |
| `assign_role`, `remove_role`, `set_user_roles` | `ReadAssignment`, `CheckAssignment`, `LockUser`, `CommitAssignment` |
| `update_user` | `ReadDeactivation`, `CommitDeactivation`, `ReactivateUser` |
| `update_app_config` | `ReadSettings`, `LoadSettings`, `CommitSettings` |
| `update_app_info`, `reset_app_info` | `ReadAppInfo`, `CommitAppInfo`, `ResetAppInfo` |

`Accounts` translates `compile_role_permissions` and `resolve_role_codes`: what
a page grants, and which codes imply it. `Settings` merges a patch into the
first reading, drops blank secrets, validates what it has merged, and writes
what differs from the *second* reading.

### AccessPolicy and Enforcer

Both have several processes with a copy each. `AccessPolicy`: `Serve` answers
from a copy that is fresh enough, otherwise `Look`, `Select`, `Store`; an
administrator's `ChangePolicy` and `Invalidate` drop the copy of one process
only; `Enforced`, `Restart`, `PolicyTick`. `Enforcer`: `ChangeRules`, `Publish`
(the count in Redis), `Reloads` (version, then roles, then rules) or `LoadFails`,
`Age`, `WorkerRestarts`, `RedisGoes`, `RedisReturns` (perhaps empty).

### Linking and Alerts (access)

`Linking`: a user's `BeginPair`/`FinishPair` and `BeginDisconnect`/
`FinishDisconnect` hold the user's row; the webhook's `TakeUpdate`,
`ReadChallenge`, then `LinkAccount` or `OfferGroup`, needs it for the foreign
key of the link (`AskFails` and `HookFails` are the deadlock detector's victims
too). `SayChallenge` is the user in Telegram, whose updates come late and more
than once. Administrators: `BeginConfirm`/`FinishConfirm`, `DropGroup`,
`ChangeToken`, `SwitchBot`, `BeginTest`/`FinishTest`, `BeginRegister`/
`FinishRegister`, `ExpirePairing`. `Alerts`: `WriteEvent` takes an id, `EndEvent`
commits or rolls it back; `MonitorTick` reads the log behind its cursor, the
backup runs and one measurement, and queues notices; `MonitorFails`,
`DatabaseFailure`, `FinishBackup`, `SwitchRule`, `Pass`.

### ConfigVersions, Components, Catalog (upkeep)

| Code | Actions |
|---|---|
| `publish`, `build_snapshot`, `_lock_publish` | `StartPublish`, `ReadPart`, `CheckSnapshot`, `TakePublishLock`, `CheckAgain`, `CommitPublish` |
| `activate`, `rollback`, `retire`, `delete_draft` | `StartChange`, `Activate`, `Rollback`; `StartRetire`, `CommitRetire`; `DeleteDraft` |
| live configuration | `EditLive` |
| `add_tab_group`, `update_tab_group`, `delete_tab`, `update_group` | `GuardLayout`, `CommitLayout`; `Detach`; `SetRenderMode` |
| `update_attribute`, `delete_attribute`, memberships | `CheckRename`, `CommitRename`; `CheckErase`, `CommitErase`; `SetMembership` |
| `bulk_save` of rows | `ReadLayout`, `ReadRows`, `Save` |
| `create_reference`, `update_reference`, `change_status` | `ReadSave`, `CommitSave`; `ReadStatus`, `CommitStatus` |
| `delete_reference`, `archive_record` | `ReadDelete`, `CheckInUse`, `LockRow`, `Archive` |
| `restore_record`, `hard_delete_record` | `AskArchive`, `TakeEntry`, `Restore`, `Erase` |
| PostgreSQL | `DeadlockVictim` |

The snapshot of a configuration version is the sequence of what its SELECTs
saw, so it may be torn; only `CheckAgain`'s comparison and the lock stand
between a torn snapshot and publication.

### Imports, SharedCache, Backups, AdvisoryLocks (upkeep)

| Code | Actions |
|---|---|
| `start_import`, `cancel_import` | `Upload`, `Cancel` |
| `confirm_import`, `claim_session` | `Claim`, `Revalidate`, `WriteCreate`, `WriteUpdate`, `Skip`, `CommitImport` |
| its failures | `ImportDeadlock`, `RecordFailure`, `ImportCrash` |
| the same records in other requests | `ClerkWrites` |
| `get_json`, `set_json`, `bump`, around a list and its writers | `Visits`, `Writes` |
| Redis | `Expire`, `CacheGoes`, `CacheReturns` |
| `execute_run`, `_process_table` | `StartRun`, `ScanTable`, `StoreRecord`, `RunDies` |
| `_flush_unsynced`, `_sync_records` | `FlushUnsynced`, `ReadSheet`, `AppendRows`, `MarkSynced` |
| `GoogleSheetsClient._run` around an append | `TryAgain`, `CallFails` |
| `_upload_r2_snapshot` | `UploadSnapshot`, `UploadFails` |
| `restore_from_sheets` | `StartRestore`, `ReadForRestore`, `RestoreTable`, `RestoreFails` |
| `maybe_run_due`, `advisory_lock`, `run_now` | `FallDue`, `SeeDue`, `Win`, `PassOver`, `LockQueryFails`, `StartDueRun`, `CallOff`, `EndDueRun`, `UnlockBlock` |
| the connection pool, the process | `CloseConnection`, `ProcessDies` |

In `Backups` a table stands for one row, and each replica runs one run at a time;
that two replicas overlap at all is what `AdvisoryLocks` is about, whose lock
belongs to a connection and not to a block. An append that times out or is
answered 429 or 5xx may have arrived or not, and the client repeats it as it is,
up to `CallRetries` times within the call, without another look at the sheet
(`TryAgain`); the history `echoed` counts the rows that came again that way. When
the last try fails, or one in a way that is not repeated, the records stay
unsynced (`CallFails`), and the next run does look at the sheet first. A query
for the lock that fails lets the block begin without it, on a session whose
transaction is aborted, so that `run_now` fails at once (`LockQueryFails`).

In `SharedCache` the import's `bump` comes before its COMMIT
(`excel_io/service.py:553`): it announces what others have committed, and
no bump announces the rows that the import itself writes. `announced` is what had
been committed when Redis last counted a bump.

## 3. Runs

| Run | Instance | What it shows |
|---|---|---|
| `settle` | 2 payments, 1 invoice, 3 keys, totals 2 and 4; r1 saves, posts, reverses and allocates beside r2's allocations (1.24 million states) | The implementation of `Settlement`; no over-allocation; a key settles once, even after its allocation was reversed; `paid_amount` drifts by a stale reversal and nothing else |
| `anything` | 1 payment, 1 invoice, 1 key, totals 0 to 2, 2 periods; both requests run all operations (208 000) | Ledger against life cycle, numbering, closed periods, the refinement but for late saves, and that every request ends |
| `billing_all` | 2 charges; behaviours in which two requests overlap and behaviours of one | Issuing never bills a charge twice beside anything else; commands that do not overlap bill once, all together |
| `deliveries` | 1 notice, 2 deliveries, 3 attempts, 1 manual retry (375 000) | Duplicates only with an excuse; every notice closes |
| `books` | seven modules, a part each: drafts, journals, ledger, statuses, rates, routes, each statement, each list (806 000) | Entries and posted journals balance; reports, lists and cards reconcile with the ledger and each other, as far as `paid_amount` is right; pages miss nothing; a command's status comes from a command; a posted document, its lines and its entry tell the same amounts; a route is what was submitted |
| `freight` | quotations; boxes, legs and uploads of an order; capture (1.10 million) | Retries get one order; an offer stands; checks outlive the wait, but for writes over an unread version; a save changes what was typed |
| `access` | sessions; admission; accounts; settings; policy; linking; the audit log, an incident, the backup runs (1.07 million) | Tokens and links buy once; resets take hold; no policy is served past its time; the bot keeps its place; administrators do not undo each other |
| `upkeep` | versions; catalog; components; imports; enforcer; cache; backups, overlapping and alone; locks (729 000) | The publication lock suffices; archives agree; saved data stays whole; a token confirms once; current copies are complete and reach every worker; cached lists are current; the sheet is a backup, and has a row twice only from a repeated append; scheduled runs overlap only after a lost connection, and due runs happen |
| `paid_drift` | a reversal beside an allocation | Violation: `paid_amount` loses an allocation |
| `edit_after_post` | a save beside a posting | Violation: the posted document's total is not its entry's |
| `billed_twice` | two commands on one charge | Violation: two invoices stand for it |
| `base_rate` | the base currency changes between two edits of one draft | Violation: a document in the base currency whose rate is not 1 |

The runs take between a second and some three minutes each.

Several properties are conjunctions of the properties of a module's parts:
`AdministratorsCoexist`, `BotKeepsItsPlace`, `ResetsTakeHold` (`MCAccess`),
`SecretsWorkOnce` (`Sessions`), `ArchivesAgree` (`Catalog`), `SavedDataStaysWhole`
(`Components`), `OffersStand` (`Quotations`), `ChecksOutliveTheWait` (`Orders`),
`SheetIsABackup` (`Backups`), `ListsReconcile` (`MCBooks`). Each conjunct is a named
definition with a comment of its own in the module it is about.

The modules define more properties than the runs list (`TaxLedgerAgrees`,
`RightAccounts`, `InvoiceAddsUp`, `IssuedImmutable`, `CancelledIsFinal`, the type
invariants and others). Some are steps of proofs; the rest state what was found
true on these instances, and are there for whoever changes the code next.

### Bounds, and why they are enough

* **Requests: 2.** Every hazard listed is between two transactions, processes or
  users; a third can only delay one of them, which the interleaving already
  allows. The proofs hold for any number.
* **`settle`.** k1 and k2 pay one unit each of an invoice of two or four, and k3
  pays two: with total 2, k3 fits only if another allocation has been
  forgotten. Only r1 saves and posts here, because a save that lands late may
  lower a total below what is allocated (that is `edit_after_post`, and
  `anything` covers it with the exception spelled out).
* **`anything`.** Total 0 makes an entry that the trigger refuses. Invoices
  are dated in one period and payments and reversals in another, so that a
  closing can hit one side only. The single payment and invoice may still be
  locked in both orders: allocation and reversal deadlock.
* **`billing_all`.** Two charges make an order-level invoice differ from that of
  one charge. `MaxShared` stops the sequence at 2 while requests overlap, since
  two invoices for one charge need two numbers, `MaxInvoices` at 3 for one
  request at a time, so that an invoice can be reversed or deleted and its
  charge tried again. Total 0 is a charge that cannot be issued.
* **`deliveries`.** Three attempts are one that lapses, one that fails and the
  last; one manual retry starts a second round. Notices touch one another only
  by the purge that each claim runs.
* **`books`.** Drafts: two rules tie, outrank or stand in for one another, and two
  commands let administrators race or change rules between two lines; the
  documents hold exact amounts, amounts of half a decimal, tax with and without
  a remainder, a line with its own account, one of tax only, and none at all.
  Journals: one journal, two savers or deleters, one approver, lines that
  balance, in one currency only, not, or not at all, two months. Ledger: three
  entries on three days, of which two lie in the fiscal year, two to a page.
  Lists: one order with two charges; of documents an invoice of one charge, an
  invoice of both, one made by hand for the same order, a bill, a receipt, a
  payment to a supplier and a credit note, whose due dates fall into different
  buckets (`SomePapers`). A behaviour starts with an issued charge whose
  posted invoice is half settled by a receipt, beside a payment that is posted, or
  with an issued charge that has lost its invoice, beside a draft charge. Two
  commits and two requests on charges at once (`MaxCommits`, `MaxBegun`) are enough
  to settle beside a reversal, so that `paid_amount` drifts, or to bill an order
  beside its charge; one commit for profitability and the dashboard (`MaxDashed`),
  and one after a report was asked for (`MaxMeanwhile`). Charges stand still where
  the report does not show them, and in the dashboard the one reversal is the
  receipt's.
  Rates: one inverse that is exact and one too
  small to store; lines that are rounded up although their total is not; three
  saves. `Cent` and `Fine` are 2, where the code has 100 and 1000: every rounding
  then meets amounts that are exact, halfway and neither. Routes: lists that repeat a row, reorder rows,
  name one that may be gone or leave rows out; four saves.
* **`freight`.** Two quotations of two revisions, two order numbers and one
  idempotency key; four requests in a behaviour are a save or a decision on
  each side of a conversion and its retry. Saves do not ask for another header
  status. An order with two containers, or two movements and milestones, where a
  number or a code can clash, or one file and its object: three parts, as the
  commands of each touch no rows of the others. A page and another that saves
  meanwhile, two attributes, an order that is pinned to its layout or not, one
  cell typed, one edit of the group; the row on the page has a value or none where
the order is not pinned, and a value where it is.
* **`access`.** Three refresh tokens are one that is rotated twice, so that the
  first is replayed when its successor is spent; two sessions, two links, two
  passwords. Three users, of whom one is the built-in administrator. Settings:
  two groups of two keys, of which one cannot be on without the other, three
  edits. Policy: a copy lives two of four ticks, two changes. Linking: two bots,
  two challenges, an update delivered by two webhook requests. Alerts: three
  events on five minutes, a cooldown of two. Admission: the lowest ceiling that
  the code accepts (3 failures), four requests.
* **`upkeep`.** Four versions and four publications or changes; a snapshot of two
  SELECTs, hence one that can be torn. Three records, two of which share a name.
  One attribute and one order with two tabs. Two workbooks with the same keys
  in opposite orders. One change of the rules, two of the list, one outage.
  Backups: two tables with one row each, two hashes, one edit; one replica with
  three runs, two failed calls and a restore, or replicas that overlap with two
  runs and one failed call, without a restore. A failed call is repeated once
  (`CallRetries`; the client repeats it four times, which adds copies and no new
  order of steps). Locks:
  two schedulers with two connections each, three due times.

Deadlock is checked in the subledger's runs. The others may really stop (no
number left under a bound, no requests left, all notices closed), so they say
`CHECK_DEADLOCK FALSE`.

Symmetry is used in `billing_all`, `books`, `freight` and `access`, which check
no liveness: requests, charges and administrators of posting rules are
interchangeable there, and quotations, terms and attributes, exchanged together.
One set of requests serves several modules of a run, which is sound because a
behaviour runs one of them.

### Fairness

* `Subledger`: strong fairness on each request's own next step, weak fairness
  on the deadlock detector. Strong, because a lock that is released again and
  again is granted in the end: PostgreSQL queues its waiters. Nothing is
  assumed about which requests start, about periods or about crashes.
* `Outbox`: a delivery that has begun goes on (the network call has a time
  limit); delays and leases run out; the loop ticks every 15 seconds and takes
  the oldest rows first, hence strong fairness for each notice; a tick purges.
  A disconnect that has read its rows writes them. Expiry, users,
  administrators and crashes owe nothing: a worker may crash at every attempt,
  and the notice still closes, because attempts are counted at the claim.
* `Enforcer`: requests keep coming, so a worker whose copy is out of date loads
  (or fails to load), and a copy that is kept grows old. Publication owes
  nothing: a worker may die between its COMMIT and the count.
* `AdvisoryLocks`: schedulers poll every minute and finish what they have begun;
  one of those that find the lock free again and again wins it, and one of
  those that won it starts its run, because a manual run that is in the way
  ends (strong fairness for the group, not for each replica); the pool closes
  connections past their age (`pool_recycle`). Processes may die at any time.

The other specifications have no fairness and state safety only.

## 4. Proofs

TLAPS checks every theorem for arbitrary constants under the module's one
assumption (`LedgerAssumption`, `BillingAssumption` and so on: disjoint names,
ranges of bounds). TLC evaluates the same assumptions on every run. Some say
more than types: a quotation has at least one revision (`MaxRevisions`), the
writers of a list are finitely many (`Writers`, which are requests under way),
a submitted route is a finite list of known roles (`Submissions`), the rows of
component pages are finitely many (`RowIds`), the limits of failed log-ins
have a maximum (`Limits`; `_session_access` clamps the setting), the chart of
accounts is finite and fiscal years have days (`ReportsAssumption`), papers and
charges are finitely many and a generated invoice is for its order's charges and
comes to their total (`BalancesAssumption`), and the first books are sound, with
`paid_amount` as the allocations have it (`InitialBooksAssumption`). `BooksProofs`, `FreightProofs`, `AccessProofs` and `UpkeepProofs` have one part per
component, and each part an inductive invariant of its own.

**Sums.** The community modules add up a set in the order in which CHOOSE picks
its elements. What a sum over a union, a part or a smaller set is, that equal
amounts have equal sums, that a sum may be taken by parts and that sums can be
subtracted: each is proved from a least counterexample among the subsets of a
finite set (`SmallestPart`), since the library's induction theorems cannot be
used. `ColumnSum` and its like tie them to the operators of the modules.

**SubledgerProofs.** `IInv` is the types, the lock protocol, ledger against life
cycle, numbering, and that allocations join posted documents. None is
inductive alone. That a posting finds its document still a draft at COMMIT
follows from the lock it holds (`LockProtocol`); that its number is fresh, from
the sequence lock and `NumbersUniqueAndGapless`; that a reversal removes *all*
allocations it should, from `Relies`: what it read under its document's lock is
still the whole set, as an allocation would need that lock. Preservation is
proved one action at a time; three lemmas say what each COMMIT writes, and
`QuietSteps` disposes of the others. From it: `TypeCorrect`, `LocksHeld`,
`AllocationsSound`, `LedgerSound`, `NumberingSound`, `SettlesOnce` (with the
history counter), `ClosedPeriodsSealed`, `PostingsOutliveDeletions`, and
`Refinement`: with no assumption on who runs what, each step is a step of
`Settlement` or leaves it unchanged, except a save that lands late.
`Implementation` has no exception, and assumes `SavesApart`, that whoever saves a
document is the only one who posts it: then a save that is under way finds its
document a draft (`SavesDrafts`). The run `settle` has the same division of work.
`NothingOverAllocated` follows from it under the same assumption: `Settlement` never
settles a document above its total (`Covered`, by the laws of `Sums`), however far
`paid_amount` has drifted. `PaidDrifts` assumes nothing of who runs what: what an
allocation has read under its locks is `paid_amount` yet, and a reversal holds the
rows whose UPDATE it has emitted (`ReadsHold`), so the column parts from the
allocations only by a reversal whose reading is stale: it writes that back, or
finds nothing to write.

**BillingProofs.** `IInv` is `IssueProtocol` with `IssuingBillsOnce`: an issuer
holds its charge's lock, finds it as read and not yet billed by an issue.
`IssuesOnce`, `ProtocolHeld` and `IssuedAsBilled` follow whatever else runs
beside it. `ChargesBilledOnce` and `IssuedInvoicesAddUp` say what
`billed_twice` shows to be false in general: they assume `IssuingOnly`, that
invoices are generated by issuing and no other command. They are the theorem
that the locking discipline of `issue_charge` is enough, and that the defect
lies in the two commands that do not follow it. `LoneRequestsBillOnce` says that
it takes two requests: one that has run alone so far leaves no charge in two
documents, whichever commands it gave (`LoneInv`: what it is about to bill is in
no document yet).

**OutboxProofs.** `IInv` is the types, `Counted` (claims are bounded by attempts
and retries, tokens by claims), `OwnToken` (a delivery's token belongs to it
alone, and it has not sent under it before it sends) and `Calm` (while nothing
has disturbed a notice, only its latest claim is being delivered, nothing has
arrived while it still waits, and what has arrived is being recorded as sent).
For secrets, `SecretHeld` adds that a delivery which has read a secret and still
holds its row finds it there, unless the notice has expired. Theorems: `SendsAreBounded`, `DuplicatesNeedAnExcuse`,
`CancelledStays`, `FailedStays`, `ClosedRowsHoldNoSecret`,
`PurgedLinkStaysPurged`.

**BooksProofs.** Seven components.

* *PostingDraft*: `NoPostingIsAmbiguous` and `AttributionIsKept`, for any
  number of rules, administrators and commands: the unique index leaves at most
  one highest-priority rule per tier (`OneHighest`), although no request checks
  under a lock, and the foreign key decides what the scan of a deletion cannot.
  `EntriesBookTheTotal`: the entry of a posted document books its total on either
  side, although lines are rounded one by one and the total from their unrounded
  sum. `Balancing` is what a posting under way keeps: the control side is the
  total, and while no line has met an account of its own the other side has at
  most half of what the lines so far amount to. `assert_balanced` then leaves only
  entries of the total; a supplier bill whose lines meet no account is credited
  the total twice by the fallback, and is not posted.
* *Journals*: `PostingUnderLock`: a journal that is being posted is a draft, is
  locked by its approver, and once checked still has the lines whose totals were
  read, or none. What slips in after the posting is the overlap that
  `PostedJournalsBalance` names. `PostedJournalsStayBalanced`.
* *Statuses*: `KindsApart` reads the table of policies: where the endpoint can
  write, no plain change leads to a status that a command leads to. So a request
  that was let through as plain writes no such status, unless it writes the one
  it read (`PlainOnly`), whatever the record has become. `NoCommandIsBypassed`.
* *Rates*: `SavesOfDrafts`: a save read a draft, or nothing, and writes a draft;
  a posted invoice that it hits is one that it overran. The rest is about one
  posting: legs are at most the total and come to it (`assert_balanced`), and a
  sum of rounded amounts is near the rounded sum (`SumNear`), within half a unit
  of the ledger for each leg and the control leg. `PostedAmountsFollow`, for every
  rate, scale, `Cent`, `Fine`, list of lines and number of overlapping saves.
* *Routes*: `RouteFollowsList` says that reusing rows and inserting the others
  gives a route as long as the list, with the list's roles in the list's order:
  the positions and the new rows correspond one to one even when the list names
  a row twice. `RoutesKeepTheirOrder` rests on it for the saves that nothing
  overlapped.
* *Reports*: `PagesShowEverything`: a posting moves a line to a later place of the
  sorted ledger or leaves it in its place, so every line of the start whose place
  is now on a page that was shown has been seen (`PagedSoFar`), and the count on
  the last page covers them all. `ReportsAgree`: a page has its openings from the
  book of its beginning and its totals from that book or a later one, which agree
  unless the page is torn (`PageOfABook`), and a statement that is not torn has all
  its amounts from one book (`OfOneBook`). Of one book the rest is arithmetic: an
  entry is even, sums by account and by type are sums by parts, and the running
  balance of the last line is the closing one.
* *Balances*: `ListsReconciled`, for the whole run's specification. Its invariant
  `ListsInv` is two. `PapersInv`: allocations join posted documents and no
  `paid_amount` is above its total, whatever a stale reversal writes
  (`WithinTotals`); a reversal under way, of which
  there is one at a time since it holds the number of the journal, has read what
  it will write back, or the target drifts (`UndoingInv`, `PaidInv`); what a request makes is not there
  yet and no other request makes it (`MadeInv`). `ShelfInv`: unless a bump is owed or
  came meanwhile, each part kept or being computed shows what the books would
  show now (drafts are in no column that it compares). From the first the cards:
  the lines that a document has put on an account come to its net there while it
  is posted and to nothing once reversed (`PaperNet`), so a balance of the ledger is
  a sum over posted documents (`BalanceIs`), what one document books adds up to
  nothing (`JournalBalances`), and the cards are the same sums over documents, term
  by term, with the drift as a term of its own (`ReceivablesMeet`, `PayablesMeet`,
  `AgingMeetsTheCard`). `UninvoicedIs` counts each charge as often as an invoice
  bills it (`BilledOften`, by `SumOfTable`: a table adds up to the same by rows and
  by columns): what is issued less what is invoiced is what lost its invoice, less
  what is billed by hand, twice or too early.

**FreightProofs.** Three components.

* *Orders*: `OrdersInv` says of each request at its desk that its checks passed
  on what it had read (`Desks`, `Checked`); when it commits over that same
  reading, they still hold. `MovementsNumberedApart`,
  `DeletionsAreChecked`, and with `StoreInv` (the objects of live rows, and those
  of an upload or a deletion under way) `StoreIsConsistent`; `ChecksHold` is the
  three together.
* *Quotations*: `QuotesInv` is `Offered` (an order is the offer it was converted
  from, and its revision is converted), `Waiting` (a request between two steps
  has a status that lets it go on, or the lock under which it reads) and `Replies` (a key was
  answered with the order of its revision). `SentOffersStand` with `Frozen` for
  the steps, `ConversionsAnswerOnce` for the retries.
* *Capture*: `CaptureInv`: ids of rows are never given twice, and a page holds
  each cell as it was loaded unless it was typed into. `OnlyTypingChanges` then
  is about one action, `CommitSave`, attribute by attribute.

**AccessProofs.** Seven components, and the three properties that join them.

* *AccessPolicy*: `PolicyInv` is the types, `Succession` (policies are superseded
  in the order of their numbers, never later than now), `CopiesHonest` (a copy's
  stamp is no later than now, and the policy it holds was in force when it was
  read or later) and `ReadersHonest` (the same of a SELECT under way).
  `PolicyIsFresh`: no request is decided by a policy that was replaced longer ago
  than a copy lives, for any number of processes and changes. It rests on the
  stamp being taken before the SELECT: a policy that is replaced afterwards, and
  before it is stored, is then no older than its stamp says.
* *Sessions*: `SessionsInv`. Tokens are given once, so those issued are the first
  so many; a live session holds one that is neither spent nor another's
  (`TokensApart`), an open link is the only one of its user and not redeemed
  (`LinksApart`); `Given` says what a request knows by the locks it holds. From it
  `SecretsBuyOnce`, and `SignOutsReach`: a session that outlives a sign-out was
  being opened beside it.
* *Linking*: `LinkingInv` adds to the two properties that a challenge was given
  by a bot after the last disconnection (`ChallengesAreCurrent`) and that who asks
  for one asks a bot that is there (`Asking`). `LinksKeepTheirPlace`.
* *Admission*: `AdmissionInv`. A version that a sign-out gives counts a request
  that has begun (`VersionsInRange`), and what a request carries of the flag is
  so yet unless a version was given twice or a check set the flag
  (`FlagsCarried`); `Counted` for the failures. `ResetsReachTokens`.
* *Alerts*: `AlertsInv`. A tick takes the oldest rows, so the cursor passes
  nothing that could be read (`Rowed`), and the last notice of an incident that
  lasts is the one its row remembers (`Remembered`). `MonitorKeepsCount` holds for
  every duration, 0 as well, as `server_errors` and two other measurements have it:
  ticks are serialised by their lock and never share an instant (`ticked`), so an
  incident that begins again has another beginning.
* *Settings*: `SettingsInv`: what an edit started from is configured, it has read
  what it will overwrite, and who patches the group of Telegram holds its row
  (`Drafted`). `SettingsStayConfigured`, `EditsKeepOthers`.
* *Accounts*: `AccountsInv`. Whoever is about to replace a user's roles holds the
  user's row and has all its roles among those to delete; whoever edits what a
  role grants holds the role's row (`Holding`); nobody touches the built-in
  account (`BuiltInStays`). `RolesStayApart`, `GrantsAddUp`.
* In a behaviour of `AccessSpec` each part runs by its own specification or
  stands still (`EachPartRuns`), hence `ResetsHold`, `BotIsInItsPlace` and
  `AdministratorsAgree`, the properties of the run `access`.

**UpkeepProofs.** Eight components.

* *ConfigVersions*: `PublishInv` is the types, `ReadsUnfinished`,
  `OthersNameARow`, `OneInForce` (at most one version is published),
  `WritersHoldLock` and `RetiresTheOneInForce`. `LockSuffices`: although snapshots
  are read before the lock, version numbers and the published row are read under
  it, so the unique indexes never refuse.
* *Components*: `ComponentsInv`: a layout that was checked while a record had
  several rows does not show one only, and the values of a row stand under
  their attribute's code, unless the guard could not see them (`Saved`,
  `Designing`). Ids are never given again, so a row
  that a save has read and that is still there is that row, and its values keep
  their codes (`KeepsCode`).
  `DesignsSpareSavedData`.
* *Catalog*: `CatalogInv`. One request at a time is at an archive entry
  (`OneAtTheEntry`); one that restores or erases found it ARCHIVED under its lock,
  and a deletion looked for assignments to the roles it is about to archive
  (`Knows`). `ArchivesTellTheTruth`.
* *Imports*: `ImportsInv` is `Shapes`, `WorkersOwnTokens` (a token that is being
  confirmed is no longer stored, and only one request has it), `JobsAreClaimed`
  and `OneJob`. `ConfirmedOnce`: a token confirms at most once, whatever fails.
* *Enforcer*: `EnforcerInv` is the types, `CountHonest` (a change is published
  after its COMMIT, and by counting) and, unless Redis came back empty,
  `CopiesHonest` and `LoadsHonest` (roles and rules are at least as new as the
  version that was recorded before them). `CurrentIsComplete` follows. It rests
  on the order of the three reads in `reload`.
* *AdvisoryLocks*: `LockWithHolder`: at most one connection holds the lock, and a
  scheduler inside the block has one that does, unless the pool closed one.
  `LoneUnlessLost`: overlapping scheduled runs need a connection that was lost.
* *SharedCache*: `Counted` bounds the versions by the changes that were begun (a
  writer on its way to its COMMIT or its bump is one of finitely many), hence
  versions are not given twice; `Current`: what is kept under the present
  version, or is about to be, has all that was announced.
  `FoundListsAreCurrent`, for values that no bump overtook on the way.
* *Backups*: `BackupsInv`. The sheet has only what is stored, and what a run owes
  is in the sheet or still in its batch (`Filed`, `Running`); while no two runs
  overlap, what a run has read of the sheet and of `backup_states` is still so,
  but for what its own call under way has brought already (`Alone`, with `landed`),
  hence a row is in the sheet once and once more for each time that the client
  repeated an append whose rows had arrived (`echoed`); and the record that
  `backup_states` knows has the highest version of its row (`Leads`).
  `SheetGivesBackTheNewest`.

**With TLC only.** Liveness (`EveryRequestCompletes`, `EveryNoticeCloses`,
`RulesReachEveryWorker`, `DueRunsHappen`): ENABLED and fairness are beyond the
prover. And what is false: the four properties of the runs that end in a
violation. Every other property that a run checks is stated by a theorem.

## 5. What the code does that its documents do not say

Four runs end in a violation, each of a sentence in the repository:

1. `paid_drift`: `reverse_document` (`finance/service.py:1398`) reads the other
   side of each allocation without a lock and writes `paid_amount` back from
   that. An allocation that commits in between is overwritten. The allocations
   themselves stay right (`NoOverAllocation`), since the trigger sums rows.
2. `edit_after_post`: `save_document` (`finance/service.py:937`) checks the status
   without a lock, so a save may change a document posted meanwhile (INV-006).
3. `billed_twice`: `create_invoice_from_charge` (`finance/service.py:1547`) looks
   for a source without a lock, and no constraint backs it up (FR-108).
4. `base_rate`: an edit that names neither currency nor rate writes the base
   currency of the day (`finance/service.py:1022`) and keeps the rate into the
   previous one, against `core/fx.py:11`.

Others follow from the same models, or were met while reading, without a run of
their own. Most appear in the models as the exceptions that properties name.

*Finance*

* A period that closes between the deferred trigger and COMMIT receives the
  entry (INV-009). `ClosedPeriodsStaySealed` states what does hold.
* `create_invoice_from_service_order` is "idempotent per order" only where calls
  do not overlap, bills charges that were never issued (FR-108 speaks of issued
  ones), and takes its totals before it waits for the number but its lines
  after, so an edit in between leaves an invoice that does not add up.
* `save_charge` can change a charge issued meanwhile
  (`operations/service.py:1051`); `issue_charge` may find the source of a document
  that finance then deletes as a draft: the charge is ISSUED without an invoice
  until it is issued again. Issuing creates a draft invoice, where
  `docs/04_functional_design.md:306` says "Do not create a finance draft or a
  journal entry."
* `_add_detailed` (`finance/posting.py:259`) credits the total once more for a
  document of nothing but tax, which can therefore never be posted; neither can
  five lines of 10.015 at 7.25 % tax: the total is rounded from 53.7054 and the
  lines add up to 53.7055.
* `delete_posting_rules` reads the status without a lock: a rule activated
  meanwhile is deleted while active.
* The audit row of a financial command is written in a transaction of its own,
  not with the change as `docs/04_functional_design.md` section 9.2 has it.
* A save whose head did not change slips its lines into a journal posted
  meanwhile, past the trigger that says "Lines of posted journal % cannot
  change; reverse it instead"; a deletion of lines likewise. `PostedJournalsBalance`
  names the overlap.
* A journal number typed by hand that equals the next of the sequence makes
  every automatic number after it fail. A journal whose entry date and posting
  date lie in different months can be saved and never posted.
* When three requests close and reopen a period, its status and the stamp of
  who closed it can come from different ones (`finance/service.py:364`).
* Each leg of an automatic entry converts on its own, rounded to four decimals, so
  its two sides may differ in the base currency by half a unit of the ledger for
  each leg, and from the document's converted total, which has two decimals, by
  half a cent (comment at `finance/service.py:1096`). `core/fx.py:147` has it that
  "keeping one rounding rule is what stops a stored base total and the journal it
  posts from differing by a cent"; the balance in the base currency is demanded of
  manual journals only (`finance/service.py:2033`). `PostedAmountsExplained` states
  the bounds.
* A save deletes the lines that are there at once, and another save's lines may
  come between: one of two overlapping saves of a document is then refused by
  the unique line number, or an empty save leaves the other's lines under its own
  total, which cannot be posted until it is saved again.
* An edit of a rate that names no status approves it again (`currency_rates.py`,
  `normalize_rate_input`). A rate that documents have used can be edited, where the
  docstring of `CurrencyRate` (`master_data/models.py:147`) says "never an edit of one
  already used", and any rate can be deleted, since none is ever ACTIVE. An edit that names a currency
  and no rate may keep the rate of the previous pair; an inverse that rounds to
  0 refuses the save.

*Reports*

* A balance sheet is five SELECTs and may be torn by a posting; it is then
  cached, possibly after the bump, and served until its time is over. A page of
  the general ledger, likewise, for itself.
* A user who pages may miss lines if a back-dated posting falls between the
  totals and the rows of the last page. `fiscalYear` with dates outside it passes
  `resolve_range` with a first day after the last, and the trial balance and the
  general ledger then disagree. A trial balance of some accounts reports an
  imbalance.
* The dashboard adds lists that are cached apart ("can never disagree" is not
  so until they expire), counts neither credit notes nor receipts that are not
  yet allocated, and leaves balances of 0 and less out of the ageing but not out
  of the card. `save_document` and `delete_draft_documents` do not bump `reports`;
  neither do changes of the financial accounts.
* Receivables and payables are computed from `paid_amount`, so what `paid_drift`
  shows to be lost is missing from the lists, the ageing and the cards, which
  then differ from the ledger by as much ("consistent with every other balance
  in the dashboard", docstring of `_cash_bank_balance`). `CardsMeetTheLedger` has it
  as a term.
* `allocate_payment` lets a customer's receipt settle a supplier's bill. Totals add
  balances of different currencies. An invoice made by hand for an order, one
  that bills a charge a second time, and one for charges that are not issued all
  hide uninvoiced charges of that order from the profitability list.

*Orders and quotations*

* Service order movements and milestones have no unique index, though
  `save_movement` (`operations/service.py:1592`, `:1637`) says that numbers are unique
  per order. `delete_containers` ignores payments on containers without a number.
  `delete_attachments` removes the object before the COMMIT.
* A revision converts once by a unique index on the revision; a
  quotation by a check alone, so two of its revisions can be converted at once
  (the comment at `operations/service.py:575` has it that "a quotation converts
  once").
* A route list that names one row twice lets a role that is no longer active
  multiply onto a new stop; overlapping saves can leave a gap, or a stop the
  saver did not submit.

*Component pages*

* `bulk_save` deletes the rows it reads and was not sent: a stale page deletes
  rows that another user added. A pinned order shows the layout it was created
  under, since the assignment id "keeps a historical order editable with the
  layout it was captured under" (`config_versions.py`, the comment in
  `live_snapshot`), but a save looks at live attributes only: values typed under
  one hidden since are dropped without a word; a stored value that no longer
  fits its attribute refuses every save of the group. Minimum, maximum and
  pattern are validated as configuration and never applied to values. The
  page's `mergeRows` (`useComponentTabs.ts:72`, "must never wipe values the user
  already typed") matches rows by position, and drops local rows when their
  number differs.
* Two saves that overlap put two rows into a group for one record; leaving out
  `tabGroupId`, `update_group` with another render mode, and `add_tab_group` on a
  group whose legacy layout is a form hide saved rows, despite
  the docstring at `component_config.py:309` ("Refuse a layout that would make
  saved rows unreachable"). Removing a membership and then renaming or deleting
  the attribute orphans its values, despite those
  at `:435` and `:519`.

*Access*

* A log-in that verified the old password may open its session after the change
  of password revoked the others.
* Sign-outs that overlap raise the version that each has read, so two can
  coincide, or a late one lower it: a token of an earlier version is current
  again (its session stays revoked). A flag set by the check of the password
  policy (`deps.py:138`) raises no version. Both against the docstring at
  `deps.py:33`. `TokensCarryTheFlag` names both.
* Failed log-ins that overlap lose attempts; a success that had read 0 does not
  reset the count. `security.maxLoginAttempts` may be saved as 1 or 2 and is then
  taken as 3 (`auth/service.py:55`).
* `compile_role_permissions` is not idempotent, though its docstring
  (`permissions.py:616`) says so: opening a role and saving it unchanged may widen
  it. A code that a page of the role grants cannot be revoked.
* `update_app_config` merges into one reading and compares with another: a key of
  another group that changed in between is written back
  (the comment at `settings/service.py:449` has it that sections
  "cannot overwrite each other"). The legacy mirror can differ from the rows.
* `register_webhook` (`telegram/router.py:63`) encrypts the token again before it
  compares ciphertexts, which therefore always differ: it always refuses. In
  `process_update` the parameter `update` hides SQLAlchemy's, so the branch for a
  group that migrated raises an exception.
* The audit cursor passes ids whose transactions commit later: their alerts are
  never sent. An incident that ends and begins again is a new one, told at once
  although its cooldown is not over. A failed tick
  may lose DATABASE_RECOVERED.

*Configuration, cache, imports*

* Snapshots are read before the lock, so a publication can replace a newer one
  by older, or torn, content. `retire` takes no lock and may leave no version in
  force.
* A deletion that read INACTIVE archives a row that is ACTIVE by then. A party
  that ever held roles can never be deleted for ever.
* Redis that comes back empty starts the count again: an old copy of the rules
  may match a number that is given twice, until the reload interval is over.
* `set_json` takes the version when it stores (`core/cache.py:82`): rows read before
  a bump are kept under the version after it until their time is over, though
  the docstring says "Invalidate every cached value".
* An import that fails with `ValidationFailed` while it writes rows records no
  job, though a comment says failures are recorded; VALIDATE_ONLY uses up the
  token; the import bumps the cache before its COMMIT (`excel_io/service.py:553`).

*Backups*

* `advisory_lock` says "for the duration of the block" (`core/locks.py:44`), but the
  lock belongs to a connection, and `run_now`, `provision_admin` and `monitor_tick`
  commit inside the block, which gives the connection back to the pool: the
  lock may stay on a pooled connection, or end with an overflow connection, and
  a second replica run the same backup. If the query for the lock fails the
  block is entered without it (`core/locks.py:63`), on a session that can run
  nothing any more.
* A row of a table without `updated_at` that takes an earlier value again, also
  through a restore, or two replicas that store the same hash, violate the
  unique key of `backup_records`; the session is then unusable, the handler that
  should "never abort the whole run" fails too, and the run stays "running".
* The client repeats an append that timed out or was answered 5xx within the
  same call (`backup/sheets.py:96`), and an append is not idempotent: the sheet can
  hold a row twice, though nothing overlaps and "backup idempotency (insert/update,
  no duplicates)" is listed in `docs/12_feature_status.md:542`. Rows are compared
  with the sheet by later runs only. A restore is not misled, as it takes the
  newest version of a row.
* Replicas that overlap append rows twice. A restore commits table by table, and
  the triggers of posted journals can refuse it. Runs to R2 alone mark nothing
  as synced.

## 6. Not modelled

Components are listed with reasons in `PROJECT.json`. Not modelled at all: the
audit rows themselves (append-only, written in transactions of their own), rate
limits (one Redis counter with an expiry), validation, paging and wiring, the
frontend (its requests are the environment of these models; `Capture` takes
what the component page sends), schema migrations other than the triggers,
scripts and deployment.

Left out of the modules that are there:

* **Number allocation**: `upsert_sequence`, by which an administrator may move a
  sequence; `NumbersUniqueAndGapless` holds as long as nobody does.
* **Quotations, orders**: customs documents, descriptive fields, the tabs'
  templates.
* **Capture**: multi-select values, conversions of references and dates, default
  values, the merge when a page reloads, paging. **Components**: deletion of
  groups, reordering, attributes of tabs and groups other than the layout; the layouts to which
  orders are pinned (what can be reached is judged by the live one, as the
  guards in `component_config.py` do).
* **Catalog**: the check of archived parents at a restore, canonical document
  types, fields without a rule of their own. **Statuses**: who may (that is
  `Accounts`), field validation in the appliers. **Rates**: currencies with
  different decimal places, a precision above the ledger's four, documents other than customer
  invoices. **Routes**: free text, planned and actual times,
  look-up of a role by its name.
* **Journals**: numbers, validation of a line's account and currency, the creation
  of a missing period. **Reports, Balances**: charts by period, the container
  register, filters other than the account, CSV, several currencies, the count of
  overdue documents, edits of a document's or a charge's amount, `paid_amount` of
  payments (no report reads it).
* **Sessions, Admission**: password hashing, the activity header. **Accounts**:
  names and contact data. **Settings**: ranges of values, redaction, connection
  tests. **Enforcer**: the matching of a request against the rules.
* **Linking**: the owner's status, notices queued meanwhile (`Outbox`), reset
  tokens cancelled by a disconnect, the migration of a group. **Alerts**:
  thresholds of severity, the overdue backup, several measurements.
* **ConfigVersions**: the note of a draft, the orders pinned to a version. **Imports**: cells and their conversion.
  **Backups**: logs, several rows, chunks and batches, deleted rows, the repair of
  sequences, coercion of cells.

## 7. Plan

Done, in order of importance: the subledger with its abstract specification,
billing, the outbox and the posting builder; then sessions, accounts, policy and
settings; quotations and orders; configuration, master data, cache, imports and
backups; journals, reports, rates, statuses and routes.

Next:

| Work | Why |
|---|---|
| `NothingOverAllocated` without `SavesApart` | which saves that land late may lower a total below its allocations, and that no others do |
| An abstract life cycle of an offer that `Quotations` implements, exceptions named | as `Settlement` for `Subledger` |
| `upsert_sequence` in `Subledger` | the counter moved back: which of the numbering properties survive |
| The order a conversion makes, with `Orders` on it | the one composition in which two modules with state of their own meet |
