# SpaceWorks: a TLA+ verification

SpaceWorks runs makerspaces: a Django back end (`src/backend/apps`) over PostgreSQL,
Celery workers with a beat, an object store, payment providers, SMTP, and a React front
end. Its core is lending: visitors ask for tools, staff review the request, hand the
tools out and take them back; staff also hand out directly, and visitors check tools out
by scanning QR codes. Around it members book spaces, register for events, order machine
jobs and pay; in the background photographs are promoted and expired, certificates
rendered, mails and reminders sent, data exported, the audit log sealed and anchored,
makerspaces moved between deployments and deployments archived and restored. This directory
models those parts, checks them with TLC on small instances, and proves with TLAPS, for
every size, the safety of lending, payments, bookings, events and the machine desk, of
photographs, exports and certificates, of reminders, mails and password recovery, of the
handover of a makerspace, of archives and of a restore, and the integrity of the audit log.

## 1. The system and its parts

| Part | State | Operations | Interacts with |
|---|---|---|---|
| Availability service (`inventory/availability_*.py`) | per product: total and six buckets (available, reserved, issued, damaged, lost, needs-fix); per unit: a status | reserve, issue, return, release, adjust, shelve, repair, scrap, transfer, reconcile buckets from unit rows, change tracking mode | called by all workflows under product row locks |
| Staff stock operations (`operations`, `admin_api/views_assets.py`) | containers of products and units | transfers, unit generation, unit repair | availability |
| Machine consumables (`machines/services_consumables.py`) | links from machines to products | link, unlink, log consumption | availability |
| Reviewed requests (`hardware_requests/request_, cancellation_, handover_, return_workflow.py`) | request status, item counters, unit links, container, photographs | submit, accept, reject, cancel, assign, issue, return in parts | availability, containers, photographs |
| Direct loans and self-checkout (`direct_loan_*.py`, `self_checkout_*.py`) | a request row plus a `PublicToolLoan` | hand out by scans, by quantity, by container; return | the same request and product rows |
| Problem reports (`problem_report_workflow.py`) | a report on a returned public loan | triage | availability, after the loan is closed |
| Stocktake (`operations/services_stocktake_*.py`) | sessions, count lines, adjustments | count, complete, approve, apply | availability, while lending goes on |
| Return reminders (`services_return_reminders.py`) | due time and stamp of a request | select, claim, send, take back | returns and `set_return_due` meanwhile |
| Photographs (`evidence`) | upload row, retention row, objects, quota | upload, promote, attach, expire | lending workflows; object store |
| Events (`events`) | registrations, waiting list, attendance, certificates, check-in events, station PIN | register, approve, cancel, edit, check in, correct, render, revoke | payments, object store, offline devices |
| Bookings (`bookings`) | spaces, rules, bookings | ask, approve, cancel, complete, edit the space | payments |
| Machine service (`machines/service_*.py`) | requests, machines, pools, gram consumables | submit, accept, start, finish, fail, collect, reprint | pools and consumables |
| Payments (`payments`) | a row per charge with its rails | raise, create a page or an intent, settle, webhook, change credentials | providers |
| Password recovery (`accounts/services_password_reset*.py`) | one envelope per address | request, drain, confirm | SMTP, the account |
| Mail outbox (`integrations`) | `EmailLog` rows | enqueue, claim, send, retry, flush | broker, SMTP |
| Data exports (`data_export`) | jobs, archives, quota | request, claim, build, upload, finalize, sweep, purge | broker, object store |
| Source gate and handover (`tenant_migration/source_gate*.py`, `gate_*.py`, `cutover.py`, `target_cutover.py`) | the gate row with lease and token, receipts, states of two deployments | close, drain, snapshot, archive, retire, activate, abort, reopen | every writer of the makerspace; presigned uploads |
| Deployment archives (`backup/services_*.py`, `artifact_*.py`, `promotion*.py`, `reconciliation.py`) | archive rows, ledger rows, nightly runs, lease, access switch | build, stage, publish, promote, reconcile, purge | object store, host lock |
| Restore by cutover (`backup/compound_restore_*.py`, `host_*.py`) | fsynced run ledger, host marker, capability journal, pointer, sibling database | phases between "begun" and "done", crash and resume, rollback | host adapters, PostgreSQL |
| Audit log (`audit`) | rows, signing keys, batches, rotations; anchors in an object store | record, seal, anchor, rotate the key, abort, verify | every operation records rows in its transaction; a scheduled cycle; an operator |
| Label moves (`boxes/asset_rebind.py`) | the unit and both products | move a unit with its label to another makerspace | availability |
| Procurement, sessions and permissions, chat channels, front end | – | – | section 7 |

What is hard here, and what makes each part correct:

* **One ledger, many writers.** Five workflows and a dozen staff operations do bucket
  arithmetic on one row. Buckets stay non-negative and within the total (`TypeOK`,
  `BooksAgree`); `reserved` is exactly what accepted requests are owed, because
  cancellation refuses otherwise, and `issued` exactly what borrowers have, because a
  return refuses otherwise (`Ledgers`, `NothingStuck`).
* **Two records of a unit.** An individually tracked product has buckets and unit rows;
  reservations exist only in the buckets, and several paths write a unit's status without
  reading it (`BooksAgree`, `UnitCustody`).
* **Exclusivity across tables.** Containers, QR codes and photographs are used by requests
  and by loans, with no constraint over both (`ContainerCustody`, `QrExclusive`,
  `EvidenceSingleUse`, `NoUnitWalksOut`).
* **Long legal sequences.** Rejects at the counter, partial returns, triage after the next
  loan, conversions (`ItemLedger`, `LendingConserves`, `SettledFrozen`); counts applied
  after lending went on (`AppliedAsCounted`); approval long after the request
  (`HeldByOne`, `ChargesFollow`); seats freed while an event had ended (`SeatsGranted`,
  `FirstComeFirst`); material reserved, used and returned (`JobsAccounted`).
* **Money and a party outside.** Repeated and reordered webhooks, vendor calls that fail,
  credentials replaced (`ImplementsPromise`, `Traceable`, `CapturedRecorded`).
* **Claims outside a transaction.** A process claims a row, works without locks, and
  completes it; meanwhile its claim goes stale, somebody takes over, or it dies
  (`PhotographsExact`, `AttachmentBacked`, `CertificatesSound`, `MailedByOne`,
  `RemindedOnce`, `ExportsAccounted`, and the liveness properties of `settles`).
* **Locks that span calls, and crashes between two stores.** The gate and its writers
  (`HandoverSafe`), the archives and their objects (`ArchivesSound`), the
  restore's ledger, marker, journal and pointer (`CutoverFenced`, `BackupsSettle`).
* **A log that must prove itself.** Rows become visible out of order, cycles and rotations
  die between the database and the anchors, and the database may be brought back from an older
  copy while the anchors cannot: one chain, nothing forgotten, and a verdict that is
  neither too kind nor too strict (`AuditChained`, `VerdictHonest`, `AuditSettles`).

The hazards, each at its line and with the properties aimed at it, are in
`PROJECT.json`.

## 2. The modules

| Module | What it is |
|---|---|
| `Inventory` | the availability service as operators on the product table, and staff operations as actions |
| `Lending` | EXTENDS `Inventory`: requests, loans and reports; the composed specification and its properties |
| `Stocktake` | EXTENDS `Lending`: count sessions composed with everything lending does |
| `ReturnReminders` | reminder runs, at the granularity of their separate transactions |
| `Evidence` | one photograph: promotion, attachment, quota, retention |
| `EventSeats` | the seats of one event and the charge of each |
| `Certificates` | attendance, check-ins, rendering outside transactions, cleanup |
| `Bookings` | one bookable space |
| `MachineService` | the desk of one machine type, its machines and its material |
| `ChargePromise` | abstract: what a charge promises its member and its makerspace |
| `Payments` | one charge over Stripe and Razorpay; refines `ChargePromise` |
| `PasswordReset` | one recovery envelope, drains with leases, the mailbox |
| `EmailOutbox` | one mail, Celery's retries, staff and cron |
| `DataExport` | export jobs, their messages, archives and quota |
| `SourceGate` | writers, gate owners, and the signed handover between two deployments |
| `BackupArchives` | archives of a deployment from request to purge, and their reconciliation |
| `CompoundRestore` | one restore, resumed and rolled back |
| `AuditChain` | the attested log of one scope, its anchors, its keys and its verification |
| `Visits` | composes `EventSeats`, `Bookings` and `MachineService`, and states their properties |
| `Background` | the variables of all background components; composes them (`Evidence`, `SourceGate`, `CompoundRestore`, `ReturnReminders`, `EmailOutbox`, `PasswordReset`, `DataExport`, `Certificates`, `BackupArchives`, `AuditChain`) and states their properties |
| `MCLending`, `MCStockroom`, `MCVisits`, `MCBackground`, `MCSettles` | finite instances for TLC; `MCSettles` adds the fairness and a second instance of `ReturnReminders` to `Background` |
| `CustodyProofs` | TLAPS: lending: types, stock and item counters; who has which container, code, photograph and unit; what the books say |
| `PaymentsProofs` | TLAPS: a charge, and its refinement of `ChargePromise` |
| `VisitsProofs` | TLAPS: `Visits`, one inductive invariant for each of its three parts |
| `StorageProofs` | TLAPS: what lies in the bucket and is charged: photographs, exports, certificates (and check-ins), and archives through `ArchiveProofs` |
| `ArchiveProofs` | TLAPS: `BackupArchives` by itself |
| `AuditProofs` | TLAPS: `AuditChain` by itself |
| `DeploymentProofs` | TLAPS: nobody hears twice (reminders, the mail outbox, password recovery); the handover of a makerspace, the restore of a deployment, and the audit log through `AuditProofs` |
| `Sums` | TLAPS: what the community modules' `SumFunction` computes, for the proofs that add up |

**Names.** Actions and operators keep the Python names; a definition without a Python
counterpart is capitalised. `return_items` of `return_workflow.py` is `return_request`,
since the availability service has a `return_items` of its own. `PROJECT.json` maps every
definition to its lines. Operators whose names say what they leave out
(`..._unchecked`, `..._any_status`, `swap_only`) are faulty variants beside the operator
they vary; no specification uses them, and each property is known to fail when one of
them takes its operator's place.

**Parts.** `Lending` and `Stocktake` share the inventory and are composed. The other components share
no rows with one another, so a product of their state spaces would
only multiply interleavings that cannot matter. `Visits` and `Background` therefore put
them side by side: the variable `part` is chosen initially and
never changes, the chosen component's variables move, and the others hold the constant
`Unused`. A property says `part = "x" => ...`, which is the property of that component.
This holds for invariants, action properties and leads-to alike, and for the proofs: a step of the
composition is a step of its part (`PartStep`), so an invariant of the part is one of the
composition. In `MCSettles` one fairness conjunct
names an action of several parts; since a behaviour stays in one part, the disjunction is
enabled and taken exactly when that part's action is. `MCStockroom` uses the same device
for instances of `Stocktake` with different constants.

### What is one step

* *Lending, stocktake, events, bookings, machines.* One workflow call is one
  `transaction.atomic()` that first locks what it decides on (request or loan, photograph,
  container, QR and unit rows, products in primary-key order; the event, the space, the
  machine and pool). Checks made before the locks are repeated under them; only the second
  is modelled. A refusal rolls back, so the action is not enabled.
* *Payments.* The row lock is held across the vendor call, whose outcomes (created,
  closed, refused, unknown) are part of the action; the provider moves on its own.
* *Everything in the background.* One step is one transaction or one call to a store,
  SMTP server or broker: no lock is held between them. Where the code re-reads a row the
  step re-reads it; where it uses what it read before, the process carries that value.
* *Exports and the gate* hold advisory locks across steps: whoever holds the lock is part
  of the state. *Archives* run under the host's operation lock, so at most one process
  (`holder`) works at a time, next to the purger, requests and the access switch, which
  take no lock.
* *Audit log.* The advisory lock of the scope is held by a whole attestation cycle and by
  each transaction of a rotation; `step` is what its holder does next, one transaction or
  one call to the anchors at a time. Writers of rows do not take it. It is a
  session lock: a process that loses its database session while it goes on working is not modelled.
* *Restore.* One step is one fsynced write (ledger line, marker, journal, pointer), one
  autocommitted SQL statement, or one call to a host adapter.
* *Crashes* drop what a process holds in memory and the locks the kernel or the database
  releases; what was committed or fsynced stays.

### Where the abstraction lies

*Everywhere:* permissions, feature switches, names, notes and audit entries are left out:
each action is one that some permitted caller may take. PostgreSQL integers are 32 bits
wide; serializer limits stay far below that, and overflow is not modelled.

*Inventory and Lending.* `product[p]` is a record of the quantity columns, `asset[a]` a
unit's status ("absent" before it is generated), `place` the `box_id`, `item[r][p]` the
counters of an item. Items are indexed by product: the submit serializer refuses a product
twice and handouts aggregate; return and triage serializers refuse an item or unit named
twice, so resolutions are functions. A loan shares the index of its request. A QR code is
identified with its target. `link[r]` holds the units whose link row is still ISSUED, which
is all the code reads. The makerspace is one, except that `transfer_available_quantity`
also stands for the cross-makerspace transfer. The order of scans matters only for a
scanned box; `before` is the set of codes read ahead of it. `Subtree` is a constant.
Photographs are taken as finalized; `Evidence` is their own life. A unit moved to another
makerspace keeps its row there; `ProductOf` being a constant, a unit of the other product takes
its place and the old one may be generated anew.

*Audit log.* Hashes and signatures are injective: a fingerprint is the version of a key, a
Merkle root the set of its rows, both with the epoch (the number of restores) they were made
in, so that what is written anew after a restore is not what was lost. The chain of MACs within
the rows is not modelled, nor anybody who alters rows on purpose.

*Times* are ages or remaining times, capped where no comparison in the code tells them
apart (`Evidence`, `SourceGate`), a small clock (`Bookings`, `ReturnReminders`), or a flag
that may be set at any time (leases of `PasswordReset` and `BackupArchives`, deadlines of
`DataExport`).

*Objects* are present or absent; where contents matter (an overwritten upload), they have
a version. Archives have no contents except the one fact a property needs: whether the
makerspace is readable in a deployment archive, and what rows and files a migration
archive took.

*External.* Providers, SMTP, broker, object store, browser, candidate backend and
operator are modelled as the code uses them and marked external in the map.

## 3. The runs

| Run | What is explored | What it shows |
|---|---|---|
| `counted` | 1 product, 3 requests, stock and items up to 2 | buckets and item counters stay in balance under all counted operations |
| `containers` | a product counted or turned into a unit, 2 containers, one inside the other, 2 requests with or without an account (outstanding limit 1, 2 idempotency keys), 2 photographs of each type | no container, code, unit or photograph serves two borrowings; unit rows and buckets agree; accepted requests can be cancelled and loans returned; the backlog is bounded; settled requests stay as they are |
| `stockroom` | six instances: 3 units and 2 borrowings; conversion; units moved with their labels between two makerspaces' products; stocktakes of counted stock, of units, of a container | unit rows and buckets agree, accepted requests can be cancelled and loans returned, and a stocktake leaves what was counted or is refused |
| `payments` | 3 hosted pages and a native intent over both vendors, 2 changes of credentials | the charge implements `ChargePromise`, and captured money is recorded |
| `visits` | 3 people for up to 2 seats; 2 bookings over 3 hours; 2 jobs, 1 machine, 2 grams | nothing granted twice or left idle, charges follow what is held, no gram lost |
| `background` | ten parts, listed at the top of `MCBackground` | what claims, leases, locks, takeovers and anchors must keep safe while processes stall and die |
| `settles` | nine parts under fairness, listed in `MCSettles` | everything claimed, queued or interrupted is finished in the end; a restore moves a deployment only to a proven sibling |
| `consumption`, `reminder_twice`, `payments_stranded`, `export_usage`, `restore_resume` | the smallest instance each | the disagreements of section 5 |

*Why the bounds are enough.* Competition needs two borrowings for one unit; ledgers
are sums over requests, so `counted` takes three, one of which can be pending, one accepted and one
partly returned at once. A partial return and a mixed outcome need a quantity of two. The
custody of a unit needs a second one to be confused with and a third that stays
reserved. Exclusivity is about pairs. Nesting needs one level, because the code looks at
a set of descendants. A stocktake needs one session (the code keeps sessions apart except
through stock, which lending already moves), two lines and two people for the four-eyes rule. A takeover needs two processes and one
that died; a third process (`mail`) is a redelivery beside a retry beside the cron. A fence needs
two generations of a code and two changes of the credential (`reset`), a certificate two revisions and
two workers, with and without deaths (`render`). Three pages let an old one be paid
after a newer one was raised. Archives (`archiving`): one that exists, one built on demand and one by the
nightly run are what a promotion needs to be overtaken, with a death or a refused call and the switch turned off
and on again; two deaths in a row, which the reconciler has to survive, are in `settles`. The audit log needs the row before the cutover and two more that commit in either order, one
row without a MAC, three generations of the key (one retired on each side of a chain, one
given up), two deaths and one restore. A restore needs two interruptions: one to leave an effect half done and
one to die while redoing it. `settles` takes smaller instances than `background`, since
what it asks is whether one thing left behind is picked up again.

*Symmetry.* Requests, photographs, units, staff, workers and callers are interchangeable
and are permuted in the safety runs where every instance treats them alike. No run with
liveness uses symmetry.

*Deadlock* is checked in `counted`, `containers` and `consumption`. The others switch
it off because they really end: photographs and units are used up, a certificate issued, a
mail settled, an archive purged, the bounded requests answered, a restore finished.

*Fairness*, stated in each module's `FairSpec` or `Fairness` and repeated in `MCSettles`:

* *Evidence*: time passes; a request that started goes on (its server kills it after 60 s,
  `docker-compose.cloud.yml:234`, long before its claim is stale after
  `EVIDENCE_URL_TTL_SECONDS` = 300, `config/settings.py:334`: constant `RequestTimeout`);
  the sweep runs again and again.
* *PasswordReset*: the drain is scheduled again and again; a lease lapses.
* *EmailOutbox*: workers take messages, callbacks of living processes are called, a claim
  ages, the cron retries.
* *ReturnReminders*: runs are started and go through their batch. A borrower who can be
  reached is reached after finitely many failures.
* *Payments*: the provider retries a webhook until it is answered 200. `CapturedRecorded`
  excepts a native intent whose account's credentials were replaced (section 5).
* *DataExport*: a living worker goes on; deadlines and expiries come; the daily purge
  (`config/settings.py:632`) visits every job it lists, but a job whose object lock is taken is skipped, hence
  strong fairness. A message need not be delivered: the sweep ends the job then.
* *BackupArchives*: what holds the host lock goes on or dies; the nightly run and the
  reconciler (`config/settings.py:640`, `:652`) are started again and again, and a start that finds the lock taken
  does nothing, hence strong fairness.
* *AuditChain*: the scheduler runs a cycle every five minutes (`config/settings.py:597`) and
  the lock queues those who wait; the operator runs the rotation command until it has ended, and since
  cycles hold the lock in between, publishing and finalizing get strong fairness.
* *CompoundRestore*: the coordinator and a started candidate go on; an operator starts
  an interrupted run again, and finishes a rollback once begun. A run may end by being refused
  (section 5): `BackupsSettle` counts that as an end.

There is no fairness on staff, members, clients or the access switch. Failures and deaths
are bounded in every part: nothing is promised to a system that fails for ever.
`Certificates` has no liveness property: a worker that dies leaves its certificate rendering, and
the code promises no recovery short of revoking it.

## 4. The proofs

Assumptions, each an `ASSUME` of the module that declares the constants, so that TLC evaluates
it on every instance it checks: `InventoryAssumption` (finitely many units, each of a product;
the bounds are natural numbers), `LendingAssumption` (NULL is no container, photograph or key;
request rows are finitely many, as the rows of a table are; subtrees are sets of containers),
`VendorsAssumption` and `BoundsAssumption` of payments, `SeatsAssumption` and `DeskAssumption` of
`Visits` (persons and jobs are finitely many, NULL is no job and no machine), and in `Background`
`PhotoAssumption` (a claim is stale no sooner than the upload URL expires, and the longest retention
period is no shorter than that URL's life), `GateAssumption`, `RestoreAssumption`,
`MailAssumption`, `ResetAssumption` and `RenderAssumption` (mostly: a bound is a natural
number) and `BackupsAssumption` (archive rows are finitely many, NULL is none of them). Nothing is assumed about how many products, requests, containers, photographs, pages,
credential changes, writers, owners, sweeps, bookings, borrowers, runs, mails, exports,
certificates, archives, nightly runs, rows of the log, keys, restores, processes or deaths there are.

Where a theorem has a hypothesis a run of section 5 shows what happens without it:
`UnitsNotConsumed` for three theorems of `CustodyProofs` (`consumption`), `MaxDueChanges = 0` for
`RemindedJustOnce` (`reminder_twice`), `MaxLimits = 0` for `ExportsAlwaysAccounted`
(`export_usage`). `MailedByOneAlways` and `MailStaysSettled` assume `~PublishFails`, of
which section 5 says what happens otherwise.

The first part of `CustodyProofs` proves `TypeCorrect`, `StockAlwaysConserved` and
`ItemsAlwaysBalanced` from one inductive invariant:

    Inv == Stock /\ RequestRows /\ LoanRows /\ ItemLedger /\ Untouched

`Stock` types the inventory with the product table in `[Products -> SoundRows]`, rows
whose buckets fit in the total: typing and conservation go together, since a bucket stays
natural only because the guard compared it, and the total of a scrap or a transfer stays
natural only because the buckets fit in it. `ItemLedger` cannot be left out: cancellation
checks `reserved >= accepted` only for the request's own lines, and it is
`accepted <= requested` that makes every other accepted quantity zero. `Untouched` (the
counters written at the counter are zero while a request is pending or accepted) is what
`ItemLedger` needs when `issue_request` overwrites them. The argument runs from lemmas
about one row (`ShiftSound`, `ResizeSound`, `FieldwiseSound`, `ReconcileRow`) to one per
availability operation (`ReserveLedger` ... `TriageLedger`) to one per action
(`SubmitInv` ... `HandoutInv`) to `NextInv`.

The second part proves `ContainersExclusive`, `CodesExclusive` and `PhotographsSingleUse`
from `Custodian == RowsJoined /\ ContainerCustody /\ QrExclusive /\ EvidenceSingleUse`.
`RowsJoined` says that a request row that does not exist has no container and no loan, and
that an open loan belongs to an issued request; without it a handout could inherit a
container, or a reviewed step could reopen a loan's request. `SettledStaysFrozen` is an
action property from the same invariant, one lemma per group of actions.

The third part follows units and quantities, with

    Bookkeeping == Inv /\ Custodian /\ Papers /\ Keeping /\ Books

`Papers` says what each state of a request implies about its counters and its loan: nothing issued
before the counter, something left to return while it is open, a self-checkout's ledger complete
enough to be returned. `Keeping` says that a unit exists only of an individually tracked
product, is never marked RESERVED or RETIRED, is ISSUED exactly while somebody answers for it, has
one borrower, and that a borrower answers for as many units of a product as its items say are
out. `Books` says that a product's `reserved` and `issued` are what the requests are promised
and owe (`Demand`, `Owed`: sums over any number of requests) and that the buckets of an
individually tracked product count its units. Each needs the others: an availability operation looks at
buckets, the workflows at items, `_set_link_outcome` at units, and it is the agreement of the three that lets
a guard on one protect the others. `LedgersAlwaysAgree`, `UnitsInCustody`, `BacklogStaysBounded`
and `NoUnitEverWalksOut` hold as they stand. `BooksAlwaysAgree`, `NothingEverStuck` and
`LendingAlwaysConserves` assume `UnitsNotConsumed`: no product that has units is linked to a
machine. That is what `consumption` (section 5) shows to be necessary, `log_consumption` being the
only operation that takes from a bucket and not from its units; a product without units may be linked. For
`LendingConserves` the hypothesis matters because triage recounts the buckets from the units, and so
brings back what was logged as consumed. The theorems speak of `Lending`'s `Spec`, which contains all staff operations;
the steps of `Stocktake` are outside it.

`Sums` is about the folds of the community modules, which are defined by a recursion over a
set in an order of its own. An induction theorem that takes a predicate cannot be instantiated
by the provers at hand, so each induction is done by its smallest counterexample: among the
subsets of a finite set that violate a fact there is one without a smaller one (`Smallest`, by
the library's well-foundedness of the strict subset order). From it: the recursion defines a function
(`FoldsExist`, `FoldsAgree`), any summand may be taken out first (`SumRemove`), and a function changed at
one point changes its sum by the difference there (`SumStep`), which is what a step of one
request does to every ledger.

`PaymentsProofs` proves `AlwaysInv`, `SpecTraceable` and `Refinement` from

    IndInv == TypeOK /\ OneInstrument /\ RailsExclusive /\ EventsTrue /\ RecordTrue

At most one instrument can take money and it is the one the row points at
(`OneInstrument`); the native rail and hosted pages exclude each other
(`RailsExclusive`); an event in flight tells the truth about its instrument, which will not
change any more (`EventsTrue`), so that it does not matter when it arrives; and the row says
`paid_online` only of captured money, while money recorded late comes from a processed
payment event (`RecordTrue`). `Refinement` shows that
every step is a step of `ChargePromise` or a stutter under the mapping
`status <- row.status, captured <- Captured, known <- Recorded`: a payment at the provider
is `Capture`, the first webhook of it is `Learn`, everything else about sessions, rails and
credentials is invisible (`Invisible`).

`VisitsProofs` has one invariant for each part of `Visits` (`SpaceCorrect`, `SeatsCorrect`,
`DeskCorrect`), from which `HoursHeldByOne`, `SeatsAlwaysGranted`, `ChargesAlwaysFollow`,
`LiftedInOrder` and `JobsAlwaysAccounted` follow. Bookings: `NoDoubleBooking` is not inductive with closing
in the picture, and `ClosedIsOver` (a booking is completed or missed only after its end) is
what makes `HeldByOne` of it. Events: `SeatsInv` adds that a draft has no registrations to
`SeatsGranted` and `ChargesFollow`; its type invariant has `earlier` order the rows, so that `FirstWaiters(count)` are
`count` of the waiters where there are as many, which the proofs about cardinality rest on. Desk:
`DeskInv == TypeOK /\ OneJobPerMachine /\ ReprintsEnded`, and for the grams `MaterialBalance`
with `Unspent` (a job that has not ended has used nothing): each operation on a request
satisfies `Settles(r)`, that what it takes from pool and consumable it writes into the row of `r`
(`RowSettles`, `StartSettles`, `FinishSettles`, `ReprintSettles`), and `SettledBalance` adds that up.

`StorageProofs` is about the parts of `Background` that keep objects and charge for them.

*Photographs* (`EvidenceCorrect`, `PhotographsStayExact`, `AttachedWhileBacked`). Claims do not
have to exclude each other for ever. While the upload URL works one request at most is at work
(`OnePromoter`, from the order of the ages: a claim is not stale before the URL expires); later,
several may be, but then nobody can overwrite the staging object, and whoever copies late
copies what is already there (`CopiesAgain`), so what a request validated is what it completes
with (`ResultBacked`). Sweeps delete only what was claimed for expiry (`SweepsClaim`). That
an expired photograph leaves no object behind is not among the theorems, for a good reason: it
is not true of three requests. One dies with the final object written; a second finalizes from that
object while a third has claimed and not yet looked; the sweep deletes the final object, and the
third, finding none, copies the staging object behind it, which nobody looks for again. That
the objects go is checked in `settles` (`StorageReclaimed`), with one request.

*Exports* (`ExportsAlwaysAccounted`). A job has one producer, whatever is redelivered
(`OneProducer`); the object lock has one holder (`LockExclusive`); a process knows of its row and
archive what the row still says, although deadlines, sweeps and purges come between its steps
(`WorkKnows`); and what is debited is exactly what is available or purged and
not yet given back, its sum the usage (`Charged`). That the sum is right needs the limit not to
be lifted in between: without a limit `add_storage` debits nothing.

*Certificates* (`CertificatesAlwaysSound`). The invariant follows a document from the claim to
the bucket. Nothing excludes that a certificate is revoked, or its event cancelled, while it
is rendered; so a process that stored the document finds it there when it activates, unless the
certificate was revoked (`StoredBacked`: only callbacks for abandoned certificates delete, and nothing leaves
"revoked"). `RowsSound` says that rendered means active, or revoked later; `Retained` that the usage is the number of rendered
ones, whose documents are all there; `AbandonedAnswered` that each object of an abandoned certificate has a process or a callback
that still holds its key, which is stronger than what the run checks and is what makes it inductive:
a callback forgets a key only when it deleted it. `ReviseRow`, `RevokeRows` and `CreateRow` are the lemmas about the sequences of revisions.
`CheckInsAlwaysCount` needs no invariant: `mark_attended_with_event` looks at the session and at the
recorded scans in the transaction in which it writes, and no other step records a scan.

*Archives* (`ArchivesAlwaysSound`). `ArchiveProofs` proves `ArchivesCorrect` of `BackupArchives` alone, from

    ArchiveInv == TypeOK /\ RowsAgree /\ ObjectsHeld /\ AtWork /\ Queued /\ Ending /\ History

`RowsAgree` says which states of the ledger go with each status of the archive row, although the two are written by
different transactions; `ObjectsHeld` what must be in the bucket, or must not be any more; `AtWork` what the owner
of the host lock may rely on at each of its steps, with requests, the switch and the purger at work beside it, and
`Queued` and `Ending` the same of the archives it has listed and of those about to lose their objects.
`History` has the ordinals of the promotions grow (`Ordinals`), so that the predecessor a capture froze is older than what
is promoted after it. `validate_frozen_state` compares that predecessor under the locks with what is current; hence
an artifact has one successor at most, which is not the same as one current artifact (section 5). A death
drops `holder` and nothing else, so every conjunct about the rows has to hold between any two steps. `StorageProofs`
then shows that the actions of `Background` are those `ArchiveProofs` is about (`SameArchives`).

`DeploymentProofs` begins with messages to people.

*Reminders* (`RemindedJustOnce`). Whoever sends for a borrowing has stamped it, alone and
before it was reminded (`StampHeld`); a run that fails takes back only its own stamp as long as no due time is
changed, which is the hypothesis.

*The mail outbox* (`MailedByOneAlways`, `MailStaysSettled`). `OneSender`: one process sends at a
time, and a claim that went stale belongs to nobody alive. `ClaimShown`: the row says "sending" while
somebody does, or "pending" for the one that sends directly, without a claim; it is `DirectAlone` that keeps the others away from that
one: nothing was ever enqueued for the row. `Counted` bounds the mails by the unknown outcomes and one. A publication
that raises makes the row FAILED beside a live message, hence the hypothesis.

*Password recovery* (`MailedByOneAlways`, `ResetsOnNewestCode`). Generations are a fence: a
drain's is old or the row's, and no two drains share one (`Fenced`); a request is minted for once and
only what was minted is mailed (`MintedOnce`); what the row says of its code is so (`RowTold`). In
the model generations are bounded, so the proof shows that the bound is never what stops a drain:
every generation is paid for by a request, a lapse or a death (`Budget`).

*The gate* (`GateCorrect`, `HandedOverSafely`): `GateInv` says that a closed gate has
no writer inside (`Shut`), that fencing tokens tell an archive taken under this closing from
earlier ones (`TokensFenced`), and what a receipt implies about both sides (`Receipts`): a source handed over stays
retired until it reopened, and reopens only for a target that aborted. *The restore*
(`RestoreCorrect`, `RestoreCutsOverSafely`): `RestoreInv == TypeOK /\ Course`. `Course` says, for each of the 21
phases, what its `done` line in the ledger, or its effect without that line, implies about the
sibling database, the pointer, the bucket, the writers and the candidate's capability, with the
states a death may leave in between (`pointer \in {Unmoved, Moved}` while the cutover is begun).
Redoing a phase then either finds its effect or makes it, which is why resumption is safe even
where it is not possible (`restore_resume`).

*The audit log* (`AuditHistoryKept`, `AuditVerdictHonest`). `AuditProofs` proves `AuditCorrect`, `HistoryKept` and
`VerdictKept` of `AuditChain` alone, from

    AuditInv == LogInv(db) /\ SinkInv /\ Outside /\ Lock

`LogInv` is about the tables, and holds of the snapshots as well: no row is in two batches and each batch continues the one
before (`RowsSealed`), the intervals of the keys that held the scope follow one another without overlap (`KeysHeld`),
a rotation and its two keys say the same of each other in each of its four states (`RotationsKept`), and each batch was
signed by the key entitled to its number (`Signed`). `SinkInv` has the anchors number without a gap, each continuing the last, and
the key change only where a transition was anchored. `Outside` is what makes a restore harmless: what any database, also one
brought back, says is activated or finalized was anchored (`KnownBy`), nothing outside comes from an epoch that has not
begun (`EpochsBy`), and only where nothing was restored is everything that is outside also inside (`UnrestoredBy`).
`Lock` is what the holder of the advisory lock has made sure of when it comes to its next step.

That the verdict is not too kind follows from what verification reads: if it passes, every anchor is the batch of
its number and every anchored move a FINALIZED rotation, so a database that lost any of them cannot pass, whatever was sealed after the
restore. That it is not too strict is the longer half: of a log at rest that was never restored, the generations that held the scope
are counted against the finalized rotations (`RestingCount`), each is joined to the next (`RestingChain`), and the newest
anchor is the newest batch (`RestingTop`). `DeploymentProofs` carries both over (`SameLog`).

Only model-checked: `AppliedAsCounted` and the instances of `stockroom` that contain stocktakes (lending's
books would have to be proved again inside `Stocktake`; the other instances of `StockroomSound` are covered by
the theorems of `CustodyProofs`); and liveness, which the prover does not handle (`CapturedRecorded`, and
the properties of `settles` but `CutoverFenced`).

## 5. Disagreements found

Each is a run that ends with a counterexample.

1. **A linked consumable outlives its tracking mode** (`consumption`). A product can be
   linked to a machine only while it is counted, but the test that guards a change of
   tracking mode ignores such links. After the product has been given unit rows,
   `log_consumption` still lowers `available` and `total`, and no unit row changes.
2. **A second reminder** (`reminder_twice`). A run whose send failed clears the stamp by
   primary key. If the due time was changed and another run claimed and delivered
   meanwhile, that claim is lost. Without such a change overlapping runs are safe (part `due`).
3. **Stranded money** (`payments_stranded`). The check that protects live charges from a
   change of credentials looks for hosted pages only; with a native intent live, the
   credentials can be replaced and its webhooks are refused for good.
4. **Storage given back that was never charged** (`export_usage`). `_finalize_job` ignores
   that `add_storage` did not debit (no limit was set); after a limit is set, the purge frees the size
   from what others were debited for. While the limit does not change the accounting is
   exact (part `exports`).
5. **A restore that cannot be resumed** (`restore_resume`). Four ways: a death between
   `CREATE DATABASE` and `COMMENT ON DATABASE` (`tenant_restore_database.py:147`, `:159`)
   leaves a database the next start refuses as foreign; an interrupted
   `database-restore` recreates the sibling under another OID while `_prepare_sibling`
   (`compound_restore_coordinator.py:252`) compares with the allocation line (the tests'
   fake `recover_sibling` ignores its proof); and a readiness probe (`:185`) or an acknowledgement
   (`:214`) that answers no is recorded as done before it is looked at. The run finds the first.

Observations that contradict no statement of the repository, or only imprecisely:

* A borrowing returned after the batch was read is still reminded: the claim rechecks only
  the stamp. Unreachable borrowers fill a batch that is not larger than their number.
* A stocktake's freshness check compares values, so stock that moved and moved back counts
  as unchanged.
* A photograph past its retention with three requests at work on it, one of which died, may leave a
  final object behind an EXPIRED row (section 4, photographs).
* When publishing a retry fails, `_enqueue` marks the row FAILED although another message
  of it may be being sent (part `mail` of `settles` explores this with `PublishFails`).
* `start()` of a printer run drops the estimate it was given
  (`service_workflow_actions.py:168` reloads the row).
* Source gate: `claim` reads the clock before it waits for the lock, so the drain of presigned
  uploads may be shorter than the uploads live; `retire_source` accepts whatever quiesced
  gate exists without comparing its owner with the archive's; after an abort and a reopening the
  handoff row keeps the makerspace from retiring again; and an export that fails with the gate closed leaves its job
  RUNNING until the gate opens.
* Archives: one that loses the host lock stays PENDING; a RUNNING one whose builder died
  is never failed; a refused deletion of a makerspace archive is not retried; the purger
  clears `cleanup_pending` without deleting the staging object; two artifacts
  can be current at once, when a run that failed left a verified one behind and another, captured
before either was promoted, has become current before the reconciler promotes it, and each may then
get a successor of its own (`OneLineage` says what holds instead); and an exclusion may take effect
  through an archive whose nightly run fails, although `docs/INVARIANTS.md:2426` says that failed
  runs do not advance it (only full archives are checked against their run).
* Audit log: a cycle that dies after it anchored the activation and before it set `activated_at`,
  followed by a rotation before anything was sealed, retires the first key unmarked;
  `activate_scope` returns early for later keys (`audit/batches.py:120`), so verification reports a missing
  cutover from then on. `VerdictHonest` therefore asks only of logs whose first key was
  marked. A row written without a MAC after the cutover and outside the genesis snapshot
  fails `validate_genesis_database`, so while the first key is active nothing more is sealed.
* Restore: a death while the ordinary writers are started makes the next start refuse until
  somebody stops them; a rollback restores pointer and bucket but neither marker nor writers;
  `run_compound_restore` has no caller outside the tests, and
  `tests/backup/test_compound_restore_handoff_e9b.py` calls the handoff unsupported.

## 6. Plan

Next, in order:

1. Procurement (its receipts' objects and quota, and the one top-up of stock), and giving a
   label another target.
2. The in-place restore (`backup/services_restore*.py`) and the import of a makerspace's
   archive (`tenant_migration` target side), composed with `SourceGate`.
3. The chat-channel twin of `EmailOutbox`; charges of machine jobs; charges taken offline at
   the counter and reconciled in batches.
4. Row locks as steps of their own (QR, unit, product against unit, product), for deadlock.
5. Proofs: `AppliedAsCounted`, with lending's books inside `Stocktake`.

## 7. Not modelled

* Access control, sessions, tokens, invitations: they decide who may call an action.
* Of the audit log: the HTTP collector of anchors, the provisioning of MAC keys
  during traffic, tampering with rows, and its readers. Inbox notices, reports, calendar feeds, badges, images: written or read
  without deciding what happens next.
* What archives hold: dumps, slices, key wrapping, import planning and admission are
  transformations of data in bulk; recipients, custody changes and download tokens of archives.
* The tenant dump and restore of one makerspace, and the in-place restore; the removed
  runtime routes of `tenant_migration` (`tests/tombstone`) whose middleware, task gate and
  commands remain and are modelled.
* Payments: Connect account events and counter charges. Events: series and collaborators.
  Machines: charges, unpooled metering, type administration. Download quotas and daily limits.
* Multi-line transfers are taken one line at a time; grams-mode consumables outside
  finished jobs have no inventory.
* Row locks appear only through the atomicity they buy; their order is not checked.
* The front end has no authority over the state.
