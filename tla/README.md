# Exhibition matching service: verification with TLA+

TLA+ models of the back end of the exhibition matching service (`apps/api`:
FastAPI, SQLAlchemy, PostgreSQL; `apps/worker`: polling jobs), TLC runs that
check them on small instances, and TLAPS proofs for all instances.

The system is a set of request handlers over one PostgreSQL database, several
API processes and worker replicas, and a few things outside the database: an
object storage, message providers, an in-process cache.  Handlers keep no
state between requests.  What is hard is therefore what happens *between the
statements and transactions* of handlers that run at the same time, fail half
way, or are retried.  Next to them stand two things that run alone and are hard
for another reason: a matching pipeline of pure functions with many
interacting rules, and a chain of migrations whose order and inverses must fit.

## Inventory

| component | state | operations | interacts with | what makes it hard |
|---|---|---|---|---|
| Meetings (`routers/meetings.py`) | slot counters, meeting row with version, candidate slots, contact share, lead, history, in-process idempotency cache | create, cancel, respond, decide, record outcome, buyer summary | buyers' and partners' clients, consent policy | slot counters under concurrency; two handlers read without a lock; the cache is outside the transaction |
| Outbox (`services/notification_delivery.py`, `worker/jobs/notification_outbox.py`, `worker/runner.py`) | delivery, outbox row, attempt rows | enqueue, claim, dispatch along channels, mark, retry, give up | providers (not transactional), replicas | a pass is one transaction around many external effects |
| Inbox (`services/notification/service.py`) | notification, channel deliveries, attempts, preferences | handle a business event, e-mail, mark read | e-mail adapter, consent | every repository call is a transaction of its own |
| Documents (`services/document`) | document, version, job and log rows; bytes in object storage | upload, delete, process, token, download, publish mark | object storage (not transactional), parsing worker | order of bytes and commit; no locks |
| Authentication (`routers/auth.py`, `core/auth.py`) | magic links, MFA challenges, recovery codes, sessions, rate limits | issue and exchange a link, enroll, step up, verify, log out | mail | one-time use under row locks of several tables; the session is read before and written after |
| Visitor profile (`routers/profile.py`) | profile, attribute rows, versions with snapshots | seven forms, each makes a version | conversation, learning, runs | read without a lock, If-Match, a unique version number |
| Conversation (`routers/conversation.py`) | dialogue, proposed extractions | propose, confirm, reject | profile | a confirmation is one more form |
| Behaviour learning (`services/behavior_learning.py`) | signals, inferred scores, adjustments | learn from an event | profile (locked), interaction events | replays; what the visitor states wins |
| Recommendation run (`services/matching/orchestrator.py`, `profile_resolver.py`, `result_store.py`) | session and result rows | resolve, rank, store | all matching stages, profile | three reads of a profile that moves |
| Matching stages (`services/matching`, `src/meet_ai`) | none | hard filter and its shadow, candidates, features, scores, context, reasons, slate, cold start | catalogue, embedding provider | missing data, ties, caps that several fallbacks must respect |
| Concept catalogue (`src/meet_ai/ontology`) | published concepts | ancestors, relations, bands | matching stages | numeric bands |
| Schema and migrations (`apps/api/alembic`, `app/models`) | the database's shape, the seeded policies | 31 upgrades, 31 downgrades | everything that is stored | immutable rows and disabled triggers; classes against tables |
| Consent (`routers/consent.py`) | append-only consents, privacy requests | grant, withdraw | Inbox, Meetings | the latest by `occurred_at` counts |
| Extraction and review (`services/extraction`) | extraction runs, field reviews | extract, approve, reject, apply | Documents, Indexing | nothing in the services commits |
| Event messages (`services/event_message`) | message with `row_version` | draft, preview, approve, schedule, publish, cancel | Inbox | optimistic check without a lock |
| Indexing (`services/indexing`, worker job) | chunks, index jobs | gather, write, supersede | Extraction | gather-then-write staleness |
| Interaction events | events, dedupe claims | ingest | learning | idempotency inside and outside of the savepoint |
| Buyer profile, buyer match, exhibitor preference | profiles, match results | edit, score, store | matching stages | validation |
| Kiosk | Redis sessions, handoff codes | open, hand off, close | Redis | one-time handoff in a store of its own |
| Imports and webhooks | sync jobs, upserts | import rows in savepoints | source systems | one row of many failing |
| Analytics, data quality, cache invalidation | aggregates | recompute, upsert | - | recomputation only |
| Search and embeddings | vectors, advisory locks | embed, search | provider | numeric |
| Front ends | client state | - | all routers | retries, several tabs |

`PROJECT.json` lists the same components with what is modelled of each, and
every hazard at the line where it bites.

## Modules

### Meeting (`Meeting.tla`, `MCMeeting.tla`, `MeetingProofs.tla`)

One action per database transaction of `routers/meetings.py`.

* Slots: `reserved_count`, `slot_status` and `started` are
  `availability_slot.reserved_count`, `.status` and "start_at is past".
  `_reserve_slot` and `_release_slot` are conditional UPDATEs: `Reservable` is
  the WHERE clause of the first, `StatusAfterReserve` and `StatusAfterRelease`
  are the CASE expressions, `MoveSlots` applies a set of each.
* Meetings: the columns of `meeting`, `slot_request` for the
  `meeting_slot_request` rows, `contact_share` as the set of gates passed,
  `lead`, and `history`, each entry of which also records (a ghost field) the
  status that the caller had in view.
* Handlers with the row lock: `BuyerCancel`, `RespondAccept`,
  `RespondDecline`, `DecideAccept`, `DecideCounter`, `DecideReject`.  Callers
  name any version up to the current one; `Current` is the version and status
  check.  The two EXCLUDE constraints are the guard `NoOverlap`.
* Handlers without it: `OutcomeRead`/`OutcomeCommit`/`OutcomeDuplicate` and
  `SummaryRead`/`SummaryCommit`; `task` is what the handler has read.
* Creation: `BeginCreate` (replay lookup), `CommitCreate` or `RefuseCreate`,
  `StoreCreate` (store the response).  `Restart` loses the cache and all
  requests in progress.
* Environment: an operator blocks a slot, a slot's start time comes.

Left out: listings, the free text and topic of a meeting, consent snapshots,
`follow_up_action` rows, the row locks *inside* a transaction (two decisions
may deadlock on slot rows; the database aborts one, which is `RefuseCreate` or
no step at all here).

### Outbox (`Outbox.tla`, `Delivery.tla`, `MCOutbox.tla`, `OutboxProofs.tla`)

`Delivery` is the promise: a queued message ends sent or given up on, for
good; it is recorded as sent only if a provider accepted it, and accepted
again only if the record was lost.  `Outbox` is the implementation: workers
claim due rows (`Claim`, SKIP LOCKED), offer each to the channels in order
(`BeginDispatch`, `ChannelSent`, `ChannelFails`), and `Commit` marks all rows
of the pass at once.  A crash or an uncaught exception (`Crash`, `Raise`)
rolls the pass back but not what the providers accepted.  The uncommitted
writes of a pass are variables of the worker (`new_attempts`, `verdict`),
because nobody else sees them; the states PROCESSING and `locked_until` of the
code never become visible and are not modelled.  `DeliveryPromise` is the
refinement, with the mapping in `PromisedState` and `Unrecorded`.

`gate` belongs to the environment (`SetGate`): at this commit no caller hands
over a release gate (`runner.py:77`, `recommendations.py:412`), the default is
closed, and no commit follows the enqueueing call in its request, so that the
deployed program writes no row and sends nothing.  The module allows what the
same code does once a gate is configured and the producer commits; what it
finds (finding 1, `Settles`) is latent until then.

### Inbox (`Inbox.tla`, `MCInbox.tla`, `InboxProofs.tla`)

`handle_business_event` one repository call at a time (`FindDuplicate`,
`CountForDay`, `InsertNotification`, `CheckPreference`, `CheckConsent`,
`InsertDelivery`, `SendEmail`, `InsertAttempt`, `UpdateDelivery`), because each
call opens and commits a session of its own; `Abandon` ends a handler between
any two.  The recipient's settings change and the UTC day ends at any time.
`ReadUnread`/`WriteRead` are `mark_read` and `mark_all_read`: rows are read,
and their `read_at` written at the flush.

### Documents (`Documents.tla`, `MCDocuments.tla`, `DocumentsProofs.tla`)

A request reads, has at most one effect on the storage, and commits; `Fail`
ends it in between.  The order is the code's: an upload puts the bytes first
(`PutBytes`, `CommitUpload`), a deletion erases them first (`EraseBytes`,
`CommitDelete`), nothing is locked.  `CommitDelete` is refused when a job was
added since the session loaded the jobs (the foreign key), `CommitProcess` when
the document is gone.

### Auth (`Auth.tla`, `MCAuth.tla`, `AuthProofs.tla`)

Personal links, sessions and the second factor of one user.  `core/auth.py`
and `routers/auth.py` lock the link, the challenge and the recovery code, never
the session: a request reads the session when it begins and writes from what
it read, and SQLAlchemy writes only the columns that differ (`Flushed`), which
is why a verification that overlaps a logout does not revive the session.
Time is a counter up to `MaxTime`; each lifetime of the code (link, idle,
absolute, challenge, freshness of a factor) is a constant.  A proof is right or
wrong; the rate limiter, when it refuses, changes nothing and is left out.

### Visitor (`Visitor.tla`, `MCVisitor.tla`, `VisitorProofs.tla`)

One profile and everything that writes it.  A form reads the profile and
compares the If-Match tag (`BeginForm`) and commits later (`CommitForm`, a
disjunct per form), in between anything else may commit; its version number is
the one it has read plus one, and the unique key (`Unclaimed`) refuses it if
that is taken.  `BumpVersion` is the common end of the forms: profile row,
attribute rows, snapshot, scalars carried over from `Latest`.  The decision on
what a dialogue extracted is one more form.  `BeginLearn` is the look-up that
answers a replay, `CommitLearn` everything under the lock of the profile.
`BeginRun`, `ReadAttributes` and `ReadVersion` are the three reads of
`resolve_profile`, `StoreRecommendation` is the commit at the end.  `Abandon`
ends any request before its commit.  `adjustments.event`, `adjustments.place`,
`extraction.applied` and `declared` are there for the properties to look at.

A profile begins with its first version row if `get_or_create` made it and
without one if it is a guest's (`POST /sessions`): `Init` allows both.  Until
the first form or event a guest has nothing a run could be tied to, and
`RefuseStore` is the answer of `_persist`.  `FormAt` counts the state of a new
profile (`Created`) as version 1 in either case.

The targets of an event are a list a client sends; `Reports` gives the lists
each event may be reported with, a code twice in one list included, and the
first report that is processed wins.  The strength of a target after decay and
propagation is part of the list.  `Preferences` is the loop over it: the second
place of a code goes on from the first (the row in the session is the one the
first has changed), unless the code had no row, when the flush of two inserts
is refused and the whole event rolled back (`InsertedOnce`, autoflush being
off).  The cap of `learning_policy.py` bounds each place (`Moved`), not the
event.  A score is a whole number here: the column keeps four decimals, so
that `previous` of a row and `new` of the one before agree in the code up to
that rounding.

### The matching stages

Pure functions, so each module is a set of operators and a companion module
`...Props` that holds their cases and properties:

| module | code | companion |
|---|---|---|
| `Ontology` | `meet_ai/ontology/catalog.py`: ancestors, relations, bands | (used by all) |
| `Eligibility` | `hard_filter.py`; the shadow evaluator of `meet_ai/engine` and its gate | `EligibilityProps` |
| `Candidates` | `candidate_generator.py`, `profile_semantic_recall.py`, `semantic_search.py` | `CandidatesProps` |
| `Features`, `Scoring` | `feature_builder.py`, `scoring/engine.py`, `engine/facade.py`, `base_scoring.py`, `reciprocal_matching.py` | `PresentingProps` |
| `Presenting` | `context_reranker.py`, `context_policy.py`, `explanation_generator.py` | `PresentingProps` |
| `Slate`, `ColdStart` | `slate_policy.py`, `diversity_policy.py`, `cold_start_policy.py`, `cold_start_runtime.py` | `SlateProps` |
| `Ranking` | `sorted(..., key=...)` as the services use it: the elements of a set in an order | (used by `Candidates`, `Features`, `Slate`) |

A behaviour of `MCMatching` takes one case (`task`), computes its result in one
step (`result`, of module `Stage`), and an invariant relates the two.  A
case carries a whole input, or two neighbouring inputs where the property
compares them.  Percentages, thousandths and hundredths stand for the code's
fractions; divisions round down where the code keeps the rest, and the
properties that compare two scores compare them with that rounding on both
sides.  `SelectionProofs` has the proofs about the catalogue, the filter, the
shadow and its gate, what a subject said and the pool of candidates,
`MatchingProofs` those about the scores, the reasons and the slate.

### Schema (`SchemaOps.tla`, `MigFoundation.tla`, `MigMatching.tla`, `MigPlatform.tla`, `Classes.tla`, `Schema.tla`, `SchemaProps.tla`, `MCSchema.tla`)

`SchemaOps` says what one statement does to a database and whether PostgreSQL
accepts it (create and drop of schemas, tables, columns, keys, triggers; the
seeds; a delete that a foreign key or an immutability trigger refuses; a
foreign key that the rows which are there do not keep).  The
`Mig...` modules write each of the 31 revisions as its upgrade and downgrade, in
the order of its statements.  `Classes` has the table, keys and foreign keys of
every class of `app/models`.  `Schema` moves a database along the chain, each
command in one transaction that is rolled back when a statement is refused,
while the application serves recommendations, operators bind policies to
events, write their own, register an exhibitor and give its staff a role, and
models have audited runs.

## Runs

The bounds are the constants of each `.cfg`.  No cfg but `MCSchema`'s checks
deadlock: every other bound (meetings, rows, requests) is used up in the end,
and the system may really be idle.

| run | bounds and what it shows |
|---|---|
| `MCMeetingBooking` | Two meetings, two buyers, two overlapping slots (capacities 1 and 2, the second without a host), one may be blocked.  Two meetings are the smallest number that compete for a seat, overlap in time and leak a seat to each other; versions go up to 3.  `SlotAccounting`, `HeldMatchesStatus`, `NoDoubleBooking`. |
| `MCMeetingLife` | One meeting with everything around it: two exhibitors, three slots, three staff members (two of the same exhibitor, so that two outcomes or an outcome and a summary overlap), a key, restarts.  `DisclosureGated`, `HistoryEndsInStatus`, `DecidedOnCurrentView`: all of them about a single meeting. |
| `MCOutboxSafety` | Two replicas, two rows, two channels, two attempts, one crash; one row may raise and has no address for the first channel.  `RecordsAgree`, `SendsAccounted`, `AttemptCap` and the refinement `DeliveryPromise`.  Two replicas and a batch of two rows are what it takes to share a row and to roll back a neighbour; two attempts of two channels make attempt numbers go on over passes.  `AttemptCap` is about the recorded tries: those of a pass that was rolled back are not counted (finding 1). |
| `MCOutboxLive` | `Settles` under fairness, with a crash and a gate that opens and closes, and no row that raises. |
| `MCOutboxPoison` | Violated: `Settles`, with a row that raises (finding 1). |
| `MCInboxEmail` | Two firings of one event and a third event of the same day and type, all for one user, two days, a tab of that user and one of another, whose calls must touch nothing.  `OncePerEvent`, `RecordsTruthful`, `EmailGated`. |
| `MCDocumentsSafety` | Five requests about two documents of the same content: an upload, and a deletion that races a job, a download with a token and a second deletion.  `BytesBehindRows`, `LogTellsFate`, `NeverServedAfterDeletion`. |
| `MCAuth` | Two links, sessions, challenges, recovery codes and overlapping requests, every lifetime of one or two ticks, one wrong answer per challenge: 1,056,536 states.  Two of each are what it takes to use one thing twice at a time or to mix up two.  `OneSessionPerLink`, `FactorBehindAal2`, `RecoveryOnce`, `AttemptsBounded`, `RevokedIsFinal`. |
| `MCMatching` | 113,158 states, each a case or its result.  Every invariant is the conjunction of the properties of the stages that promise the same thing: `MissingDataNeutral`, `ShadowGateSound`, `StatementsBind`, `RecallContained`, `OrderConfined`, `WorseNeverScoresHigher`, `ReasonsTruthful`, `SlateContained`, `EvidenceOnlyHelps`.  The cases of the filter are a base candidate with up to two fields changed (an interaction of three fields is not looked for), those of the pool six candidates, of two exhibitors and of none, over a cap of four, those of the slate lists that force each fallback. |
| `MCSchema` | Every order of single-step and full upgrades and downgrades over all 31 revisions, between servings, bindings, own policies, audited runs, exhibitors and their staff, for a database made when `ALL_SCHEMAS` named 13 schemas and for one made now: 10,518 states.  `RoundTrip` (shape, disabled triggers and seeds; not the namespaces), `UpgradeBlockedOnlyByStaff`, `DowngradeBlockedOnlyByUse`, `DatabaseServesClasses`. |
| `MCVisitor` | Three overlapping requests, a profile with and without its first version row, a goal, a category and a code the ontology does not have, one price, two events that together pass the end of the scale and of which one is reported with two lists, one naming a code twice: 890,282 states.  Three requests allow a form that is overtaken by another form and by an event, and a run with two commits between its reads.  `VersionsSerial`, `SnapshotFaithful`, `LearnedOnce`, `RunBracketed`, `ExplicitWins`. |
| `MCVisitorScalars` | Violated: `ScalarsSurvive` (finding 2): a form states a price, an event is learned from, the next form finds no price to carry over. |

Each property of a passing run has a mutant: a definition (`*Mutant:*` in the
comment) that changes an operation the way a plausible bug would, with which
TLC finds the property violated.

The modules with state carry a `TypeOK`.  It is proved for Meeting, Outbox,
Inbox, Documents, Auth and Visitor; no run lists it.

### Findings

1. An uncaught exception in a dispatch takes back the attempt counter of the
   whole batch, so that the row is never given up on
   (`notification_outbox.py:206`).
2. The version that learning makes has a snapshot without the visitor's
   scalars, which are stored nowhere else; the next form loses them
   (`behavior_learning.py:321`).

### Observations

Met while modelling; each is either behaviour no document of the repository
speaks against, or one that a run once showed and that gave way to runs with
more to say.

* Meetings: `record_meeting_outcome` writes `completed` over a cancellation
  that committed after its unlocked read (`meetings.py:1604`); two overlapping
  creations with one Idempotency-Key make two meetings, and so does a retry
  after a restart (`:880`); two decisions that move meetings between the same
  two slots in opposite directions lock them in opposite order (`:1439`), which
  the database resolves by aborting one; a retried outcome adds its follow-up
  actions again (`:1586`).
* Inbox: the daily cap is counted and used in two transactions without a lock
  (`service.py:1078`); no worker retries failed e-mails, although two comments
  speak of a sweep (`:1226`); the notification of a stored recommendation is
  enqueued after its commit (`recommendations.py:412`).
* Outbox: a closed release gate uses up the attempts of the rows it holds
  (`notification_outbox.py:222`).
* Documents: a document published while it is being deleted is deleted
  (`service.py:251`); a deletion that fails after erasing the bytes leaves a row
  without a file (`:269`).
* Matching: where the rows of an exhibitor's trade conditions disagree, its
  statuses depend on the order in which the database returns them, which no
  ORDER BY fixes (`candidate_generator.py:213`, `StatusReadings`); a dearer
  product may score higher for a buyer, whose side then comes nearer to the
  exhibitor's (`scoring/engine.py:450`); a concept that conflicts with a required one counts as related to
  it (`catalog.py:301`); `preferred_buyer_json` is read with `list()`, which of
  an object gives its keys (`candidate_generator.py:124`); the reconstruction
  of a slate may end with no card although candidates are eligible
  (`slate_policy.py:708`).
* Schema: the foreign key that ties `SupplyProfileAttribute.attribute_code` to
  its concept is in no migration (`exhibitor.py:1764`); a downgrade below 0005
  cannot be taken back once an exhibitor's staff has a role: the role outlives
  the exhibitor, and 0005 is refused (`db/migrations/0002_exhibition.sql:448`).
* Visitor: an event whose target list names a code twice moves its score by up
  to twice the cap that docs/17-behavior-learning-implementation.md:12 and :52
  call that of a single event (`behavior_learning.py:217`), and fails as a whole
  if the code had no score; a guest gets no recommendation before the first form
  or learned event has made a version row (`result_store.py:214`);
  two first requests of a visitor may both try to create the profile,
  and one fails; a run in flight while recommendations are invalidated is stored
  ACTIVE; an extraction that was confirmed can still be rejected by a request
  that read it before; nothing enforces `daily_automatic_cap`.

## Fairness

`Outbox!FairSpec` assumes weak fairness of every worker's own steps
(`run_forever` polls for ever, catches every exception, and every provider call
returns) and of the end of a backoff (time passes).  Nothing is assumed of
operators, of crashes (bounded by `MaxCrashes`; a worker that always crashes
settles nothing) or of what a provider answers.  `MaxSends` bounds how often a
provider accepts; under `MCOutboxLive` it cannot be exhausted before the row
is given up on without a crash.  No other module has a liveness property: a
request handler that never returns is its client's problem, not an obligation
of the code.

## Proofs

Five of the forty checked properties of the passing runs have no theorem (see
"Only model-checked"); all others hold for every value of the constants that
satisfies the named assumptions of the modules, whatever the number of
requests, workers, rows or cases.

### Meeting (`ConstantsAssumption`)

| theorem | property |
|---|---|
| `TypeCorrect`, `AuditTrailCorrect` | `TypeOK`, `HistoryEndsInStatus` |
| `SeatsCorrect`, `SlotStatusCorrect`, `HoldingCorrect` | `SlotAccounting`, `StatusMatchesCount`, `HeldMatchesStatus` |
| `ViewCurrent`, `ContactGated` | `DecidedOnCurrentView`, `DisclosureGated` |
| `CalendarCorrect` | `NoDoubleBooking` |

The first inductive invariant, `CoreInv`, is `TypeOK` with what the handlers
rely on across transactions: an id whose creation has not committed has no row
(`Fresh`), the history has one entry per version and ends in the status
(`Logged`), and a pending outcome was read from a meeting that was accepted
(`OutcomePending`); without the last one the unlocked `OutcomeCommit` could
write `completed` over a meeting that does not exist.

The second, `SlotInv`, is the three slot properties together with
`ConfirmedUnset` (a meeting without a decision has no confirmed slot).  They
are inductive only together: a release gives back the held slots *and* the
confirmed one, which is one seat and not two because of `HeldMatchesStatus`;
the conditional UPDATE of the release wants a positive count, which holds
because of `SlotAccounting`; and a reservation respects the capacity because of
`StatusMatchesCount`.  The lemmas about `MoveSlots` say what it does to the
counters and the holders for any two disjoint sets of slots; each handler then
needs only to say which sets it moves.

The third, `GateInv`, adds `SummaryPending`: the summary handler decides to
disclose from a read without a lock, and what it has read were the gates of a
meeting that had been accepted.  That stays true although the meeting moves on,
because agreements are never taken back and the history only grows.

`NoDoubleBooking` needs no strengthening beyond `CoreInv`: `CalendarStep` shows
that a step either makes no meeting accepted (`NoneAccepted`) or accepts one,
with its slot and staff member, past the two EXCLUDE constraints (`Accepting`).

### Outbox (`OutboxAssumption`)

| theorem | property |
|---|---|
| `OutboxTypeCorrect` | `TypeOK` |
| `AttemptsCapped`, `SendsAccountedFor` | `AttemptCap`, `SendsAccounted` |
| `AllRecordsAgree` | `RecordsAgree` |
| `OutboxImplementsDelivery` | `DeliveryPromise` |

The inductive invariant `IInv` says what a pass may rely on between its claim
and its commit (`PassInv`): what it still has to do is claimed, the claimed
rows stay due, and it has a verdict only on claimed rows it is through with.
That, with `NoSharedRow`, gives every row at most one open pass that has sent
it (`OneSender`, `NoSender`), on which the account of the acceptances and the
`Accept` step of the refinement rest.  `FreshRows` (what an uncommitted row
looks like) makes `AttemptCap` inductive: a due row has an attempt left.
`RecordsAgree` has a second invariant, `LogInv`, on top of `IInv`: the attempts
of a pass carry on the stored numbers (`PassLog`, `Numbered`), whether the pass
is over with the row (`SentLast`, `Unsent`), at it (`Dispatching`) or has not
come to it, and no two rows have one rank (`Ordered`), so that a pass is at one
row at a time.  In the refinement `Enqueue` is `Queue`, `ChannelSent` is `Accept`, `Commit` is
`Record`, `Raise` and `Crash` are `Forget`, and every other step stutters.

### Inbox (`InboxAssumption`)

| theorem | property |
|---|---|
| `InboxTypeCorrect` | `TypeOK` |
| `OneNotification`, `TruthfulRecords`, `GatedEmail` | `OncePerEvent`, `RecordsTruthful`, `EmailGated` |

Every repository call is a transaction of its own, so what it commits is all
the next call can rely on.  `Progressed` says, for each call a handler may be
about to make, which rows it has left behind and how often the adapter has been
called; `GatesSeen` that a gate that is open now is on record as having been
open since the insert, which is what a handler that looks at two gates in two
transactions has: each was open at some time, never both at one.

### Documents (`DocumentsAssumption`)

| theorem | property |
|---|---|
| `DocumentsTypeCorrect` | `TypeOK` |
| `BytesKept`, `LogTrusted`, `DeletionFinal` | `BytesBehindRows`, `LogTellsFate`, `NeverServedAfterDeletion` |

Nothing is locked.  What keeps requests apart is that the log of a document is
empty exactly until its upload commits and never again (`UploadedOnce`,
`Begun`), and that the storage is written first (`StorageFirst`): an upload that
is about to commit has put its bytes, a deletion has erased them.  A second
deletion, or a job that overlaps one, finds the row gone.

### Auth (`AuthAssumption`)

| theorem | property |
|---|---|
| `AuthTypeCorrect` | `TypeOK` |
| `LinkOnce`, `CodeOnce`, `AttemptsLimited` | `OneSessionPerLink`, `RecoveryOnce`, `AttemptsBounded` |
| `Aal2Earned`, `RevocationFinal` | `FactorBehindAal2`, `RevokedIsFinal` |

The argument is that of the row locks: a link that is being exchanged is still
active and is exchanged by one request (`LinksHeld`), a challenge that is being
verified is unconsumed, has an attempt left and is verified by one request
(`ChallengesHeld`).  The session is not locked, and the invariant says nothing
about what was read of it: `FlushedRow` shows that a write from a stale read
leaves the revocation alone and raises the level only with a factor, because
only the columns that differ are written.

### Visitor (`VisitorAssumption`)

| theorem | property |
|---|---|
| `VisitorTypeCorrect` | `TypeOK` |
| `VersionsAreSerial`, `SnapshotsAreFaithful`, `RunsAreBracketed` | `VersionsSerial`, `SnapshotFaithful`, `RunBracketed` |
| `LearnsOnce`, `StatementsWin` | `LearnedOnce`, `ExplicitWins` |

No form locks the profile, so `VersionsSerial` is not inductive: what a form
holds while it is under way must be known.  `IInv` adds `FormsSeen` (it has
seen a version that exists, the tag is of that version) and `AppliedOnce` (a
decision that has seen the current version concerns a proposal nobody has
applied).  The argument is in the lemma `Bumped`: a form whose number is free
has seen the current version, because the numbers are `1..current_version`
without gap (`Created` counted for a guest, who has no row 1); so it adds the next one (`LineExtended`), and after it no form
under way has seen the current version any more (`FormsAfterBump`), which is
why a second decision can not apply the proposal again.

`HistoryInv` adds what a run relies on, which reads the profile three times
while it moves: at every version a form was in force, and the form in force at
a version does not change when later ones are added, so what was read at one
moment stays bracketed by versions.  `Tied` says that what a run is tied to, or
will be, is a row that is there: no run of a guest without one gets that far.
`LearnInv` says that there is one adjustment for each place of the list an event
was processed with (`Placed`), and that each starts from the score the ones before
it left of its code (`Led`, `ScoreOf`), the last one leading to the score as it is.
An event that is delivered twice finds its signal under the lock.  The loop over
the places of one list is a recursive function; what it has done after some
places is shown by a smallest place at which it has not (`PreferencesAre`).

### Eligibility and matching

The stages are functions, and the theorems are about the operators for every
catalogue, candidate and profile.  Where a run checks an invariant of the cases,
the theorem states it of a behaviour over *any* set of cases (`StageSpec`,
`Stages`), with a hypothesis that says what a case looks like.

| theorem | what it says | hypotheses about the cases |
|---|---|---|
| `StrengthsBounded` | the strength of a match lies in 0..1000 | - |
| `StatedOnceConstrains` | what was not settled constrains nothing | - |
| `NotKnowingNeverRejects`, `NotKnowingNeverAdmits` | whatever is forgotten of a candidate, and however much at once (`ForgetsStated`, `ForgetsObserved`), it is not rejected and not admitted for it | waits and minutes are numbers or unknown; what is required or excluded is in the catalogue and no booth service |
| `PassesOnDistinct` | the gate counts a comparison once however often it is delivered | - |
| `ShadowReproduces`, `ShadowSound` | `ShadowGateSound` | codes are in the catalogue; the two types of user |
| `StatementsBindAll` | `StatementsBind` | a term states one of the three requirements |
| `EvidenceOnlyHelpsAll` | `EvidenceOnlyHelps`, with any number of counts growing at once | counts are naturals, and of one kind of subject |
| `ForgettingKeepsScore` | a component that counted for no more than the score can be forgotten without lowering it, in any weighted mean | weights are positive |
| `MissingNeverCounts` | `MissingDataNeutral` | candidates have their fields; prices and trust are numbers or unknown; tastes weigh percentages |
| `ReasonsAlwaysTruthful` | `ReasonsTruthful` | candidates, subjects and situations have their fields (`PresentsOne`) |
| `SlateAlwaysContained` | `SlateContained` | a finite pool of cards, no two with one identity, none of which the quality gate has marked; the times exhibitors were shown are counted (`AsksSlate`) |
| `OrderAlwaysConfined` | `OrderConfined` | rows of conditions say whether they are common, and give a least order or none; the candidates are any permutation of the first numbers, with whole scores (`InAnyOrder`) |
| `RecallAlwaysContained` | `RecallContained` | a finite pool of numbered candidates, whose relevance, quality and date and whose participations' scores are whole numbers; texts and the answer's results, if it answered, are lists (`RecallCase`) |
| `WorseNeverHigher` | `WorseNeverScoresHigher` | candidates, subjects and situations have their fields, and what they say of themselves is not negative (`ShowsOne`); a pair is two scores out of 10000, three percentages, and the cap of an exhibitor that declared no preference, or none (`JoinsPair`); no score is JSON null (`NullIsNoScore`) |

What the codes of booth services are excluded for: they are derived from
statuses, and a status that is not known reads as a service not offered.

`MatchStrength` recurses along ancestors and decays with the distance, and sums
over finite sets are folds, which choose the order of their elements.  Neither
can be unfolded by induction with a rule of the library (those take an operator
as a parameter); both are proved instead by a smallest counterexample.  A
recursive function is shown to be *a* solution of its equation on every set of
concepts (`Acyclic`, `Solves`), by taking a smallest set without one; a sum
(`Sums`, `SumIs`) is shown not to depend on the order by taking a smallest
subset at which it would.  On these rest the lemmas that say that sums are
monotone, scale, and split off an element.

`ReasonsTruthful` is about the claims a candidate's features and context make:
each has a rank of its own, so the best of any set of claims is one claim
(`EveryRankTaken`), the three best are three, and a set that makes no claim
falls back to one reason.  The claim that offers a meeting is in the set only
under the guard of `slots`.

`SlateContained` is an invariant of a fold.  `CappedLists` is the set of lists
that respect the caps: of an exhibitor among five, ten and all cards, of
newcomers, of explorations, no identity twice.  `FillKeepsCaps` and
`PassWithinCaps` show that a slot filled and a candidate reconsidered lead from
one such list to another, whichever of the fallbacks picked the card, and a fold
whose every step keeps a set ends in it (`FoldWithin`, by a smallest
counterexample).  So the plan's list, the relaxed passes after it and the list by
relevance that replaces it when too much relevance was lost are all in it
(`SlateBuilt`).  The loss needs a second argument: a list that is kept passed the
comparison of averages, which `LossOf` turns into the sums that the property
compares.

`OrderConfined` is about lists that may come in any order.  The least order, the
channels and the regions of an exhibitor do not depend on it; a status does, where
two common rows disagree or, without a common row that says something, two rows
of products.  `StatusReadings` is what such rows leave open, and the property
says both that the status is one of these readings and that each of them is what
some order gives, so that nothing smaller could be promised.  The invariant of the
fold is `ReadInto`: what the profile says once a set of rows has been read, which
mentions no order; a row more keeps it (`RowRead`), and the capabilities read after
the rows touch no status.  That every reading is reached (`ReadingsReached`) takes
an order for each: a common row exchanged with the last one, a row of a product with
the first where there is no common row, and with the last, right behind the common
row that says nothing, where there is one (`Exchanged`, `StatusOfOrder`).  For the
ranking, `RankingOf` shows that the list is the one in which each
of those that passed stands behind exactly as many as score better, ties by
identity.  Sorting places and sorting identities come to the same
(`OrderPulledBack`), and an element's rank determines its place (`PlaceIsRank`),
so two such lists of one set are equal; that set is the same in any order
(`PassedInOrder`) and without one that did not pass (`PassedWithout`).

`RecallContained` follows a candidate through five folds that share one list and
one map of channels.  `Built` says what no channel takes away: `w` has the list
of `v` at its head, no candidate twice, and agrees with it on the marks of the
channels `T`; a candidate found keeps it (`FoundBuilds`), so every channel does
(`EnterBuilds`, `ChannelBuilds`) as long as it is not one of `T`.  `Marked` says
that a channel without a limit marks and lists exactly what it went through.
Taken together (`Grown`), the pool is the first channel's list, grown and cut at
the cap, so the part it shows of that channel depends on the cap alone
(`FirstStays`), and what the semantic channel marked is what it picked
(`PicksMarked`).  The picks are spread (`PicksSpread`) by the invariant
`Reached`, of the hits gone through so far: a hit before a picked one is picked
itself or its participation was full, and what is full stays full
(`FullStays`).  The folds are over the places of a list; each lemma of the form
`...Folded` takes a set of starts and a relation that one step keeps, and shows
by a smallest counterexample that the whole fold does.  The vectors of texts need
only that some place of the answer is the last with a given index
(`LastOfPlaces`).

The joint score of a pair is arithmetic: the harmonic mean never falls when a side
rises (`BaseMonotone`, which compares two quotients of different divisors), nor
does the gap between the sides widen while the weaker one rises up to the stronger
(`RawMonotone`), and the caps of a weaker pair are among those of a stronger one.
A match that both sides want has at least 4740 of 10000 left after the gap and
the least confidence, and the cap of one that a side does not want is 4500
(`MutualAbove`).

That a worse input scores no higher is one fact about weighted means, applied to
the score and to its context: of two lists of components of which the same are
known, the one of which nothing is more has the lower mean (`NoWorse`,
`DirectionalMonotone`, `PresentedMonotone`).  A liking moves the part for
behaviour alone (`OnlyBehaviorChanges`, `BehaviorMonotone`) and a price the part
for the price (`OnlyPriceChanges`, `DearerScoresLess`).  A slower booth (`Slower`)
is scored the same (`PlaceNotScored`), and four parts of its context fall together
(`SlowerContext`); the time that is spare needs that less time and a longer way
leave a smaller share of what is left (`SpareMonotone`).  For a buyer the score
must also be a number, which rests on both directions' scores and confidences not
being negative (`BuyerScoreType`).

The assumptions about the constants are those of the code: the parents of
concepts make no cycle (`TreesAssumption`, checked by the loader,
`catalog.py:139`), a relation's weight is in range and names concepts that exist
(`OntologyAssumption`), bands do not overlap (`BandsAssumption`), the codes that
rules name have the types the catalogue gives them (`NamedCodesAssumption`), the
policies and the limits of the channels are numbers (`PolicyAssumption`,
`LimitsAssumption`), and `None` is no number and no code
or status (`NullAssumption`, `AbsentAssumption`).  TLC evaluates all of them in
`MCMatching`.

### Only model-checked

* The properties of `MCSchema`: the chain of migrations has no parameter to
  generalise over, and TLC walks all of it.
* `Settles`: liveness.

## Not modelled

The whole project keeps to about a dozen runs and forty properties; what is
left out gave way to what is hard in the parts above.

* Read-only parts and recomputations: analytics, data quality, the listings of
  every router, the public catalogue.
* Parts whose services flush and never commit (`services/extraction`,
  `services/event_message`): `get_db` leaves the commit to the router, and no
  router of theirs commits.  Their workflows would be modelled against state
  that does not survive a request.
* Numeric parts: embeddings and vector search, one-time-password arithmetic,
  the decay of a signal.
* Forms of one owner at a time: buyer profile, exhibitor preference, partner
  portal, imports (row-wise upserts in savepoints).
* Stores outside the database: the kiosk's sessions in Redis.
* Front ends: clients; what matters of them, concurrent tabs and retries, is
  in the modules above.

## Plan

What a further extension of the project would take first: `Indexing` (gather
and write against changing sources, composed with `Documents`) and `Kiosk` (the
one-time handoff).
