# A TLA+ model of domainry-audit

domainry-audit is an embedded Go module that hosts link into their process. It
keeps an append-only trail of audit events in the host's SQL database, answers
history queries within the caller's data scope, and prepares and delivers CSV
exports. This directory models its core, checks the model on small instances
with TLC and proves its safety properties with TLAPS.

## Inventory

| Component | State | Operations | Talks to | Hard behaviour |
| --- | --- | --- | --- | --- |
| Event store (`database/audit/store.go`, `application/audit/service.go`) | `_audit_events`, key (workspace, id) | `AppendPrepared`, `AppendPreparedWithin`, replay lookup, `List*`, `Options` | the database, or the host's open transaction | races on one id, lost answers, retries, aborted host transactions, text comparison of JSON |
| Subject lifecycle (`subject_lifecycle.go`) | the same table | `EraseSubjectResources` (redact per predicate, anonymise, commit), preview, export | one own transaction | appends that commit between its statements, partial failure |
| Data authorization (`data_scope.go`, application and repository) | none; reads the principal's bundle | resolve, normalize, SQL predicate | identity SDK | combinations of policies, blanks, deny, guardrails, expiry |
| History queries (`audit_query_application_service.go`, `audit_query_service.go`) | the caller's cursor | plan, list, project | event store, host | paging over a table that changes, limits, retention, time as text |
| Export (`export_service.go`, `database/export/store.go`) | `_audit_export_artifacts`, token key | prepare, download, record download | event store (rows in, evidence out) | races on a key and on a token, expiry, key rotation, changed authorization, failure between two writes |
| Assembly and host binding (`factory.go`, `binding.go`) | schema version, adapters, token key, authorizer | `OpenModule`, `BindApplicationHost`, `ConfigureExport`, `HTTPAdapters` | host migration runner, export service, requests | unsynchronised writes, overlapping bindings, adapters that outlive them, a stop between migrations |
| Migrations and profiles | schema | built and applied when the module opens | host migration runner | a failure between two versions |
| HTTP handlers | none | decode, resolve the principal, call, encode | application services of the host they were made for | stale adapters |
| OpenAPI and capability documents | none | none | none | none |

What makes them correct: an acknowledged event is durable and is what was given;
evidence is never replaced, only erased; erasure is whole; an exact retry is a
replay; one idempotency key has one artifact, one token and one recorded
creation; a download is recorded once, delivers what was prepared to whom it was
prepared for, and leaves evidence; a query shows exactly what the policies grant,
in a stable order, completely, within the retention, and ends; a request is served
only by a module that is migrated and bound, under a key of full length, and with
the authorization of the host whose adapter it came through.

## Modules

| Module | Models |
| --- | --- |
| `AuditEventStore` | appending, replaying and erasing, one SQL statement a step |
| `AuditLog` | what the event store promises: atomic appends and atomic erasures |
| `AuditEventStoreProofs` | the event store's inductive invariant; evidence, acknowledgements, erasure |
| `AuditLogProofs` (extends `AuditEventStoreProofs`) | where an erasure stands; complete erasures, recognised retries, the refinement of `AuditLog` |
| `ExportLifecycle` | prepare and download, one repository call a step |
| `ExportContract` | what exports promise for each key: prepared, recorded, issued, downloaded, recorded |
| `ExportLifecycleProofs` | every property of exports, and the refinement of `ExportContract` |
| `DataScope` | policies to data scope to SQL predicate, and their meaning on a row |
| `DataScopeProofs` | the translation proved exact |
| `AuditQuery` (extends `DataScope`) | planned pages over a changing table, and the caller that follows the cursor |
| `AuditQueryProofs` (extends `AuditQuery`, `DataScopeProofs`) | the order of keys, the first rows of a table, and every safety property of a walk |
| `HostBinding` | opening, migrating, binding hosts, and export requests that read the binding |
| `HostBindingProofs` | every property of the binding |
| `MCAuditEventStore`, `MCExportLifecycle`, `MCDataScope`, `MCAuditQuery`, `MCHostBinding` | instances for TLC |

A definition whose comment begins with "Variant" is a deliberately wrong form of
the definition after it. It is used by no specification; it serves to confirm
that a property fails when the code is wrong in that way.

### AuditEventStore

`rows` is the committed table, `buf[p]` what goroutine p's open transaction has
written, `tx[p]` that transaction (none, open, writing, aborted), `pc`, `call`
and `step` where p is in its call. `told` and `acked` record acknowledgements:
inside a host transaction a success counts only once the host commits.

`insert` is two statements: the INSERT (`InsertStores`, `InsertLosesAnswer`,
`InsertDuplicate`, `InsertFails`) and, after any error, the lookup
(`LookupMatches`, `LookupDiffers`, `LookupFails`). `EraseSubjectResources` runs
`RedactStatement` for the actor and for each declared resource, then
`AnonymiseStatement`, then `CommitErase`; `EraseFails` is the deferred rollback.
The constant `Dialect` selects what statements wait for: SQLite has one writing
transaction; PostgreSQL (READ COMMITTED) blocks on a key or a row that another
transaction has written, every statement sees what is committed by then, and a
failed statement aborts its transaction. A row is abstracted to event, record,
actor (and whether it is the pseudonym), role with organization, body (summary,
metadata, before, after) and time. In PostgreSQL a JSONB column gives back the
inserted text only for documents such as `{}` and `null` (`PlainBodies`).

`AuditLog` has no transactions, statements or retries: events enter the log as
given, one or several at once, acknowledgements are of events in the log, and an
erasure changes all events of its subject in one step. `ImplementsAuditLog` maps
the log to the committed table: on SQLite every step of the store is one of these
or none. On PostgreSQL it is not (finding 1).

### ExportLifecycle

Preparers and downloaders are request goroutines with a program counter. The
store is `artifacts` by slot (user and key, which is what the artifact id
hashes); `evidence` and `conflicts` count the export events in the event store;
`issued` is the set of tokens given to callers. The host moves the clock,
replaces the key (`ConfigureExport`), changes authorization, appends business
events and erases their subjects (`ledger`). Each repository call is a step, each
may fail, and an INSERT or a commit may succeed with its answer lost. The rows of
a file are those the listing gives within scope and limit, and then the result
filter. Hashes are taken to be collision free and an HMAC to need its key.
`PrepareScope` and `DownloadScope` give the data scope of a
user at an authorization revision: the export service compares revisions, not
scopes, so a host that changes policies must change the revision.

A conflict is told (`AnswerConflict`) only after its event is on record under the id
of the request (`ConflictRecorded`). The event store refuses an id that stands for
another artifact or authorization (`ConflictEventFits`), and the caller then gets
the internal error, one of the failures of `PrepareFails`.

`ExportContract` is the life of a key without requests: a file is prepared once,
the preparation recorded, the token issued only then, the download marked once
and recorded once. `ImplementsContract` maps file and stage to the artifact row
and the trail to the evidence.

### DataScope

A policy says whether it is for the permission asked for, its effect, its scopes
and its predicate; `canonicalAuditScopePredicate` is the predicate that scopes
stand for. `NeverWidens` and `NeverNarrows` compare the SQL predicate with
`Allows` and `Forbids`, which evaluate the policies' own predicates on the row.

### AuditQuery

`events` and `pending` are rows stored and rows built but not committed: an
event takes its time when it is built, so rows appear late. The reader starts a
walk, and each page resolves the scope, plans (`PlanQuery`: class, retention,
page size, the extra row), lists (`list`: order, cursor, limit, scope) and
projects (`ProjectQuery`: truncation and next cursor). `owed` records the events
stored at the start that stayed in retention and were granted to the caller on each
page. A page keeps for whom and when its request resolved the scope (`as`, `at`):
the rows are read later, while authorization changes, so `PageWithinGrant` judges
them by the policies of that moment, and not by the scope in the plan. A
`created_from` is an instant with an offset; the text that the database compares
is the local time, instant + offset. The equality filters and `created_to` are
left out; they narrow every page alike.

### HostBinding

`schema` is the number of applied migrations and survives a crash; `phase` is the
process. A binder makes the application service (which refuses a short key),
writes the key and then the authorizer of the shared export service, and
publishes the adapter under the lock. The code guards the key by nothing, so a
slice is two words, its bytes and its length, written in either order and read as
found: a request may see the bytes of one key with the length of another. Keys of
equal length are then whole keys again (`Value`); a length over no bytes panics
(`Readable`). Requests come through an adapter that some host fetched at some
time, with that host's callback, or through the Exporter port, with whatever
authorizer the service holds; the latter may also be configured past the binding
(`ConfigureExportDirectly`). They read the key up to three times: for its length,
for the new token and for the token of the artifact that `CreateOrGetExport` gives
back. That is the artifact of this request or, for a replay, the one stored before,
perhaps under another key; then the last check fails and no token is given out.
`stored` and `issued` survive a crash. A host is taken to return the same key
on both calls that a binding makes. `ExportLifecycle` replaces the key in one step;
what a torn key can do to a request is the question of this module alone.

Bindings that overlap may leave a key, an authorizer and adapters of different
hosts, and a key whose words stay mixed. `OwnHostAuthorizes`, `WeakKeyNeverSigns`
and `StaysUsable` say what holds even then; `BoundTogether` is about bindings in
turn.

## Runs

| Run | Bounds | Result |
| --- | --- | --- |
| `EventStoreSqlite` | 2 appenders, 1 eraser, requests that share an id and a record, host transactions | all seven properties hold, the refinement of `AuditLog` among them |
| `EventStorePostgres` | the same, PostgreSQL | acknowledgements durable, evidence never replaced |
| `EventStorePostgresErase` | an appender and an eraser | violated, finding 1 |
| `EventStorePostgresReplay` | appenders only | violated, finding 2 |
| `ExportPrepareRace` | 2 preparers on one key, a filter whose bound moves with the clock, 2 results, 2 revisions, 1 request id or none, 1 tick, key set and unset, 2 events | holds |
| `ExportDownloadRace` | 1 preparer, 2 downloaders, 2 users, 2 revisions of one of them, an erasure, 1 tick | holds, the refinement of `ExportContract` among it |
| `ExportLostEvidence` | 1 preparer, 1 or 2 downloads in turn | violated, finding 3 |
| `ExportRetryConflict` | 1 preparer, 1 tick | violated, finding 4 |
| `DataScopeTranslation` | 309 principals: up to 2 policies, up to 2 scopes each, guardrails, blanks, 2 ticks | holds |
| `QueryWalk` | 2 business events of two actors and 1 governance event stored, 1 new one, with ids below and above, page sizes 1 and 2, 2 ticks, 2 authorizations, erasure | holds, and the walk ends |
| `QueryOffset` | a created_from with a negative offset | violated, finding 5 |
| `HostBinding` | 3 hosts (keys of 16, 32 and 15 bytes), 2 binders, 1 request, crashes at any time | holds |

The bounds let every interesting case happen: two goroutines are enough for each
race, since every conflict is on one id, one key or one token; two page sizes
give walks of several pages and a truncated last-but-one page; two ticks let a
row leave the retention and a bundle expire, and one tick an artifact expire and a
retry compute another cutoff. One request is enough in `HostBinding`, since
requests share nothing there but the artifact and the token made last. Symmetry is used for goroutines
only, in runs without liveness. All bounds are guards (`MaxTime`, `MaxEvents`)
or finite constants.

Fairness is assumed in `QueryWalk` alone: a caller that holds a cursor asks for
the next page, and an accepted request is read (its goroutine runs). The caller
may also give up at any time, which ends the walk too.

## Findings

1. **Erasure on PostgreSQL** (`subject_lifecycle.go:83-107`). An event committed
   between the redacting and the anonymising UPDATE loses its actor and keeps its
   snapshots; no later erasure of the subject alone can find it, only one that
   declares the record. On SQLite this is proved impossible
   (`ErasureWhole`, `ErasuresAreComplete`), and it is the only thing that keeps the
   store on PostgreSQL from being the atomic log (`StoreImplementsLog`).
2. **Replay on JSON columns** (`store.go:113`). JSON is compared as text, so the
   exact retry of an event with non-empty documents is refused on PostgreSQL.
   Where the text comes back, `RetriesAreRecognised` proves that it never is.
3. **Download evidence** (`export_service.go:173-181`). The download is recorded
   before its event; once that append fails, later downloads leave no event.
4. **Retry of a prepare** (`export_filter.go:41-44`). The cutoff of now enters the
   compared hash, so the same request a second later is a conflict.
5. **Time bounds with an offset** (`audit_query_service.go:67-69`). The caller's
   text is compared with UTC text. A negative offset shows too much; a positive one
   hides events, and then `WalkComplete` fails. Each of the two theorems that depend
   on this names the sign it needs.

Behaviour worth knowing that no line of the repository contradicts: a retry after
the subject was erased is refused; a key whose artifact expired returns the
expired token for ever; a conflict event whose request id is reused fails the
request with an internal error (`ConflictRecorded` holds for those who are told of
the conflict); an artifact keeps the names of a subject erased
after it was prepared, for as long as it can be downloaded (`ErasedNamesExpire`
bounds this by the time to live); the result filter of an export comes after the
row limit; governance and operations pages that reach their limit are cut without
a cursor (`WalkComplete` holds for the shorter ones); bindings that overlap may
leave the key of one host with the adapters of another (`BoundTogether` holds
without overlap), and a request that entered the Exporter port before the first
binding finished may be served without an authorizer (`ExporterClosedOnceBound`
confines this to such requests); a host whose `ProjectAuditEvents` drops rows would make a
cut business page look complete.

## Proofs

TLC checks each property on an instance; the theorems hold for every value of the
constants that the named assumptions admit: any number of goroutines, events,
hosts, users, keys, principals and rows. Every property of every passing run has a
theorem but `WalkEnds`. Each inductive invariant was checked with TLC before it
was proved.

### Event store

The assumptions, in `AuditEventStore`: sentinels are not values, requests are rows
that are not erased, erasures name actors. The dialect is either one unless said.

- `TypeCorrect`: `TypeOK` is not inductive by itself: a step needs to know that a
  goroutine at "insert" serves a request and an eraser at "redact" an erasure whose
  `step` is within its resources (`CallsOK`).
- `SafeAlways`: the invariant behind the rest. Besides types it says that an idle
  eraser has no transaction (`Idle`), who may hold the write lock (`Locks`), and
  what a buffer may hold: an appender's only new rows of its own requests, an
  eraser's only erased forms of committed rows (`Buffers`). Every action then has
  one of six shapes (quiet, drop, store now, store in the buffer, publish,
  erase), and each property is proved once per shape.
- `EvidenceKept`: publishing a buffer keeps evidence because buffers hold new ids
  or erased forms.
- `AcksDurable`: `AckedDurable`, strengthened to what is told inside open
  transactions and to rows losing the role only together with the actor
  (`Histories`).
- `ErasureWhole`: with SQLite's lock, `AnonymisedIsRedacted`, strengthened to the
  rows in buffers and to the fact that at the anonymising statement all rows of
  the subject are redacted (`SubjectRedacted`); under PostgreSQL the last part
  fails, which is finding 1.

`AuditLogProofs` adds to this what an eraser's transaction sees (`Erasing`): the
table with the UPDATEs run so far applied, row by row (`Stage`). Under SQLite the
table cannot move before the commit, since the first UPDATE takes the write lock, and
so the commit is one whole erasure (`CommitIsWhole`). With `FromRequests` (what
host transactions hold back are requests) this gives

- `ErasuresAreComplete` (under SQLite), `EraseComplete`;
- `RetriesAreRecognised`, `ExactReplayAccepted`, where documents come back as
  inserted (`TextKept`: SQLite, or documents that JSONB does not reformat);
- `StoreImplementsLog`, the refinement `ImplementsAuditLog`, under SQLite or when
  nobody erases. An INSERT outside a transaction, whether or not its answer is lost,
  and the commit of a host transaction append; a matching lookup acknowledges;
  an erasure's commit erases; every other step stutters.

Runs `EventStorePostgresErase` and `EventStorePostgresReplay` are the
counterexamples without these hypotheses.

### Exports

`ExportLifecycleProofs` needs `ConstantAssumption` and `SentinelAssumption` (the
sentinel for "no artifact" is neither an artifact nor what a caller sees of one).
The invariant (`InvAlways`) is `Typed` and `Safe`:

- `CallsOK`: each request holds what its program counter says, an artifact is in its
  own slot, and an admitted download is of a stored artifact;
- `StoredOK`, `PrepareOK`, `DownloadOK`: a token names its artifact's slot and its
  rows are in the scope it was prepared under; an answered preparer holds the stored
  token, and after "evidence" its preparation is recorded; an admitted downloader
  holds the content and token that are stored, for its user and revision;
- `OnceEach`: who is about to record a creation or a first download is alone with
  that slot, and none is recorded yet. Without this `RecordedOnce` is not
  inductive: two preparers could both be about to record a creation;
- with `DatesOK`, an artifact expires at most `exportTTL` after the erasure of
  anyone it names, because what is listed at or after an erasure shows the pseudonym.

The tables only grow (`Grows`), so a request that stands still stays right
(`PrepareFrame`, `DownloadFrame`), and each step is proved for the request that takes
it. From this follow `TypeCorrect`, `OneAnswerPerKey`, `TokensAreRecorded`,
`EvidenceOnce`, `EvidenceTrue`, `DeliveriesSound`, `ArtifactsAreImmutable`,
`ErasedNamesDoExpire`, `ConflictsAreRecorded` (conflict events stay under their id,
`ConflictsStay`) and `ExportImplementsContract`. That a download leaves evidence
(`DeliveryHasEvidence`) and that a retry is a replay (`RetryIsReplay`) are not among
them: the code violates both (findings 3 and 4).

### Data authorization

`DataScopeProofs` holds for every set of principals whose scopes are sequences
(`PrincipalAssumption`): `CanonicalMeans` and `PolicyMeans` show what a canonical
predicate says, `UnionMeans` that the union of scopes is the union of policies,
`ResolvedMeans` that resolving, normalizing and the SQL predicate select exactly
that union, on any row (`GrantFollows`: whatever is selected is granted). `ScopeTyped`, `ScopeNeverWidens` and `ScopeNeverNarrows` follow.

### History queries

`AuditQueryProofs` adds `QueryAssumption` (the maximum leaves room for the extra
row) and `StoredAssumption` (the first table is finite and keyed by id). Its
invariant says that ids are unique among stored and pending rows and the table is
finite (`Keyed`), that the plan of a page is that of the walk's request
(`Planned`), and that the cursor is the last key delivered (`Ordered`).

The order of (created_at, id) is total on a table (`BelowTotal`), and a finite
table has a first and a last event (`TableTop`, `TableBottom`). These are proved
without induction, from the library's theorem that strict inclusion is well founded
on finite sets: the first event is the one whose set of events before it is
smallest. From them: what `First` leaves out comes after what it returns, a result
that leaves something out is full, and a full page has a last row (`FirstThenRest`,
`FirstFull`, `AnswerMeans`).

- `TypeCorrect`; in particular the limit in the SQL is positive and within the
  store's maximum, extra row included;
- `PagesWithinGrant`: `PageWithinGrant`, from the invariant `Granted` (a plan holds
  the scope of its principal at its time) and `GrantFollows`;
- `PagesKeepOrder`: `StableOrder`, for any table that changes meanwhile;
- `BoundIsKept`: `LowerBoundKept`, if no created_from has a negative offset (run
  `QueryOffset` shows that this is needed);
- `WalksAreComplete`: `WalkComplete`, if no created_from has a positive offset,
  from the further invariant `Ahead`: what the walk owes is delivered or lies
  beyond the cursor. Neither condition restricts callers that use UTC or no bound.

### Host binding

`HostBindingProofs` needs `BindingAssumption`. What runs, runs in an open module
with its whole schema (`Opened`). The length of the key is written before any adapter
is published and is never unset (`KeySet`); without direct configuration every
length is that of a host whose key was accepted (`KeyStrong`), and this is why a
torn key is never weak: a mixed read has the length of some accepted key. A request asks
the host of its adapter, and finds an authorizer if it began after a binding
(`Authority`). How far the only binder has come (`Staged`) gives `BoundTogether`; what a binding
that has returned leaves behind (`Usable`) gives `StaysUsable`.
The theorems are `TypeCorrect`, `HostsAuthorizeTheirOwn`, `ExporterCloses`,
`WeakKeysNeverSign`, `AdaptersReady`, `HostsAreBoundTogether` and
`ServiceStaysUsable`.

### Only model-checked

`WalkEnds`, the one liveness property: it rests on fairness and ENABLED, which the
prover does not handle. The runs that expect a violation check properties that the
code lacks under the constants of those runs. That the assumptions and the instances are not empty is what
the passing runs show: TLC evaluates every assumption on them.

## Not modelled

MySQL's locking; several workspaces (every statement carries the workspace, and
no state crosses it); hash collisions; clock steps backwards; PreviewSubject,
ExportSubject, ListSystem and Options (reads); CSV, HTTP and OpenAPI encoding and
the mapping of errors to statuses (stateless); secret redaction; results that an
event's name states, which erasure does not take away; the SQL that the
migrations render; physical deletion of events (the code has none). The format
of `created_at` comes from the SDK, outside this repository; it is taken to order
as time does. MySQL is accepted by `NewEngine` and has no locking model.

## Plan

The safety properties of the runs are proved. What is left:

1. `ExportLifecycle` on top of `DataScope` instead of its own scope operators, so
   that the rows of a file are those that the policies grant.
2. The equality filters and `created_to` of the listing, and theorems that they only
   narrow a page.
3. MySQL's locking as a third dialect.
