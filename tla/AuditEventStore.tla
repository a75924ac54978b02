-------------------------- MODULE AuditEventStore --------------------------
(***************************************************************************)
(* The event store of the Audit module: the table _audit_events, the       *)
(* idempotent append (store.go), alone or inside a transaction the host    *)
(* owns, and the erasure of a data subject (subject_lifecycle.go).         *)
(*                                                                         *)
(* One workspace is modelled: every statement carries the workspace in its *)
(* predicate, so workspaces do not meet.  A statement is atomic; what a    *)
(* transaction wrote stays in its buffer until it commits.  The database   *)
(* is external and is modelled from how the store uses it:                 *)
(*   "sqlite"    one writing transaction at a time, JSON columns return    *)
(*               the text that was stored, a failed statement leaves the   *)
(*               transaction usable;                                       *)
(*   "postgres"  row locks and READ COMMITTED (the default that            *)
(*               BeginTx(ctx, nil) asks for), JSONB columns return the     *)
(*               document in the engine's own spacing, a failed statement  *)
(*               aborts its transaction.                                   *)
(***************************************************************************)
EXTENDS Naturals, Sequences

CONSTANTS
  Ids, Events, Records, Actors, Roles, Bodies, Stamps,  \* column values
  PlainBodies,   \* bodies whose documents are all {} or null
  NoRole,        \* actor_org_id NULL or "" and role_key ""
  Erased,        \* summary "[erased]", metadata {}, before and after null
  NoRow,         \* the id is not in the table
  NoRecord,      \* a blank object_key or record_id
  NoCall,        \* the goroutine is serving no call
  Requests,      \* prepared events that hosts append: [id, row]
  Erasures,      \* EraseSubjectResources calls: [identity, resources]
  Appenders,     \* goroutines of hosts that append
  Erasers,       \* goroutines of hosts that erase subjects
  Dialect        \* "sqlite" or "postgres"

\* A row without its key.  The stored actor_id is the pair (actor, anon): with
\* anon it is "erased-" followed by a hash of the workspace and the identity,
\* one string per identity and never an identity.
Row == [event : Events, rec : Records \cup {NoRecord}, actor : Actors,
        anon : BOOLEAN, role : Roles \cup {NoRole},
        body : Bodies \cup {Erased}, at : Stamps]

Goroutines == Appenders \cup Erasers

ASSUME DialectAssumption == Dialect \in {"sqlite", "postgres"}

ASSUME SentinelAssumption ==
  /\ NoRow \notin Row
  /\ NoCall \notin Requests
  /\ NoCall \notin Erasures
  /\ Erased \notin Bodies
  /\ PlainBodies \subseteq Bodies
  /\ Appenders \cap Erasers = {}

ASSUME RequestAssumption ==
  \A e \in Requests : /\ e.id \in Ids
                      /\ e.row \in Row
                      /\ ~e.row.anon
                      /\ e.row.body \in Bodies

ASSUME ErasureAssumption ==
  \A e \in Erasures : /\ e.identity \in Actors
                      /\ e.resources \in Seq(Records \cup {NoRecord})

VARIABLES
  rows,     \* the committed table, by id
  buf,      \* what each open transaction has written, by id
  tx,       \* the transaction of each goroutine
  pc,       \* where each goroutine is in its call
  call,     \* the call it serves
  step,     \* the predicate an erasure redacts next: 0 the actor, k resource k
  told,     \* history: events acknowledged inside the open host transaction
  acked     \* history: events acknowledged and, within a host transaction, committed

vars == <<rows, buf, tx, pc, call, step, told, acked>>

Empty == [i \in Ids |-> NoRow]

\* A table seen through a transaction's own writes.
Overlay(t, b) == [i \in Ids |-> IF b[i] # NoRow THEN b[i] ELSE t[i]]

Visible(p) == Overlay(rows, buf[p])

Init ==
  /\ rows = Empty
  /\ buf = [p \in Goroutines |-> Empty]
  /\ tx = [p \in Goroutines |-> "none"]
  /\ pc = [p \in Goroutines |-> "idle"]
  /\ call = [p \in Goroutines |-> NoCall]
  /\ step = [q \in Erasers |-> 0]
  /\ told = [p \in Appenders |-> {}]
  /\ acked = {}

-----------------------------------------------------------------------------
(* The database: what a statement waits for, and what a failed one leaves. *)

\* SQLite has one writing transaction: every other write waits for its end.
WriteLockFree(p) ==
  Dialect = "sqlite" => \A o \in Goroutines \ {p} : tx[o] # "writing"

\* PostgreSQL makes an INSERT wait for an uncommitted row with its key.
KeyFree(p, i) ==
  Dialect = "postgres" => \A o \in Appenders \ {p} : buf[o][i] = NoRow

\* PostgreSQL makes an UPDATE wait for rows another transaction has updated.
RowsFree(q, ids) ==
  Dialect = "postgres" =>
    \A o \in Erasers \ {q} : \A i \in ids : buf[o][i] = NoRow

\* What a failed statement may leave of the transaction it ran in.
TxAfterError(p) ==
  IF tx[p] = "none" THEN {"none"}
  ELSE IF Dialect = "postgres" THEN {"aborted"}
  ELSE {tx[p], "aborted"}

StatementFails(p) ==
  \E t \in TxAfterError(p) :
    /\ tx' = [tx EXCEPT ![p] = t]
    /\ buf' = [buf EXCEPT ![p] = IF t = "aborted" THEN Empty ELSE @]
    /\ told' = [told EXCEPT ![p] = IF t = "aborted" THEN {} ELSE @]

-----------------------------------------------------------------------------
(* Store.insert, on the database or on the host's transaction. *)

\* The call returns.  Which result it returns is told by the action.
Return(p) ==
  /\ pc' = [pc EXCEPT ![p] = "idle"]
  /\ call' = [call EXCEPT ![p] = NoCall]

\* Success told to the caller: final outside a transaction, and inside one
\* only if the host commits it.
Acknowledge(p) ==
  /\ Return(p)
  /\ IF tx[p] = "none"
     THEN acked' = acked \cup {call[p]} /\ UNCHANGED told
     ELSE told' = [told EXCEPT ![p] = @ \cup {call[p]}] /\ UNCHANGED acked

StartInsert(p, e) ==
  /\ pc' = [pc EXCEPT ![p] = "insert"]
  /\ call' = [call EXCEPT ![p] = e]
  /\ UNCHANGED <<rows, buf, tx, step, told, acked>>

AppendPrepared(p, e) == pc[p] = "idle" /\ tx[p] = "none" /\ StartInsert(p, e)

\* Without a transaction the call is refused and nothing changes.
AppendPreparedWithin(p, e) == pc[p] = "idle" /\ tx[p] # "none" /\ StartInsert(p, e)

CanWrite(p) ==
  /\ pc[p] = "insert"
  /\ tx[p] # "aborted"
  /\ WriteLockFree(p)
  /\ KeyFree(p, call[p].id)

\* The effect of an INSERT: at once, or in the transaction's buffer.
StoreRow(p) ==
  /\ IF tx[p] = "none"
     THEN rows' = [rows EXCEPT ![call[p].id] = call[p].row] /\ UNCHANGED <<buf, tx>>
     ELSE /\ buf' = [buf EXCEPT ![p] = [@ EXCEPT ![call[p].id] = call[p].row]]
          /\ tx' = [tx EXCEPT ![p] = "writing"]
          /\ UNCHANGED rows
  /\ Acknowledge(p)
  /\ UNCHANGED step

\* Variant: an upsert, INSERT ... ON CONFLICT DO UPDATE.
InsertStoresUpsert(p) == CanWrite(p) /\ StoreRow(p)

InsertStores(p) == CanWrite(p) /\ Visible(p)[call[p].id] = NoRow /\ StoreRow(p)

\* The row is committed and the answer is lost (connection, deadline).
InsertLosesAnswer(p) ==
  /\ CanWrite(p)
  /\ tx[p] = "none"
  /\ rows[call[p].id] = NoRow
  /\ rows' = [rows EXCEPT ![call[p].id] = call[p].row]
  /\ pc' = [pc EXCEPT ![p] = "lookup"]
  /\ UNCHANGED <<buf, tx, call, step, told, acked>>

\* The key exists.  The statement took the write lock before it failed.
InsertDuplicate(p) ==
  /\ CanWrite(p)
  /\ Visible(p)[call[p].id] # NoRow
  /\ pc' = [pc EXCEPT ![p] = "lookup"]
  /\ IF Dialect = "sqlite" /\ tx[p] # "none"
     THEN tx' = [tx EXCEPT ![p] = "writing"] /\ UNCHANGED <<buf, told>>
     ELSE StatementFails(p)
  /\ UNCHANGED <<rows, call, step, acked>>

\* Any other error: busy, deadlock victim, connection, cancelled context.
InsertFails(p) ==
  /\ pc[p] = "insert"
  /\ pc' = [pc EXCEPT ![p] = "lookup"]
  /\ StatementFails(p)
  /\ UNCHANGED <<rows, call, step, acked>>

\* Variant: JSON text compared after the engine reformatted it.
SameTextReformatted(stored, given) == stored = given /\ given \in PlainBodies

\* The replay test: every column but created_at, the JSON columns as text.
SameText(stored, given) ==
  stored = given /\ (Dialect = "sqlite" \/ given \in PlainBodies)

\* Variant: the replay test leaves out the snapshots.
SameStoredButBody(s, g) ==
  s.event = g.event /\ s.rec = g.rec /\ s.actor = g.actor /\ ~s.anon /\ s.role = g.role

SameStored(s, g) ==
  /\ s.event = g.event
  /\ s.rec = g.rec
  /\ s.actor = g.actor /\ ~s.anon
  /\ s.role = g.role
  /\ SameText(s.body, g.body)

CanLookUp(p) ==
  /\ pc[p] = "lookup"
  /\ tx[p] # "aborted"
  /\ Visible(p)[call[p].id] # NoRow

LookupMatches(p) ==
  /\ CanLookUp(p)
  /\ SameStored(Visible(p)[call[p].id], call[p].row)
  /\ Acknowledge(p)
  /\ UNCHANGED <<rows, buf, tx, step>>

LookupDiffers(p) ==
  /\ CanLookUp(p)
  /\ ~SameStored(Visible(p)[call[p].id], call[p].row)
  /\ Return(p)
  /\ UNCHANGED <<rows, buf, tx, step, told, acked>>

\* The lookup finds no row or fails: the error of the INSERT is returned.
LookupFails(p) ==
  /\ pc[p] = "lookup"
  /\ Return(p)
  /\ StatementFails(p)
  /\ UNCHANGED <<rows, step, acked>>

-----------------------------------------------------------------------------
(* The host's transaction (external): it begins, commits or rolls back. *)

BeginHostTx(p) ==
  /\ pc[p] = "idle" /\ tx[p] = "none"
  /\ tx' = [tx EXCEPT ![p] = "open"]
  /\ UNCHANGED <<rows, buf, pc, call, step, told, acked>>

CommitHostTx(p) ==
  /\ pc[p] = "idle" /\ tx[p] \in {"open", "writing"}
  /\ rows' = Visible(p)
  /\ acked' = acked \cup told[p]
  /\ tx' = [tx EXCEPT ![p] = "none"]
  /\ buf' = [buf EXCEPT ![p] = Empty]
  /\ told' = [told EXCEPT ![p] = {}]
  /\ UNCHANGED <<pc, call, step>>

RollbackHostTx(p) ==
  /\ pc[p] = "idle" /\ tx[p] # "none"
  /\ tx' = [tx EXCEPT ![p] = "none"]
  /\ buf' = [buf EXCEPT ![p] = Empty]
  /\ told' = [told EXCEPT ![p] = {}]
  /\ UNCHANGED <<rows, pc, call, step, acked>>

-----------------------------------------------------------------------------
(* EraseSubjectResources: one UPDATE for each predicate, then one for the  *)
(* actor columns, in one transaction.                                      *)

\* A call with a blank resource is refused before the transaction begins.
EraseSubjectResources(q, e) ==
  /\ pc[q] = "idle"
  /\ \A k \in 1..Len(e.resources) : e.resources[k] # NoRecord
  /\ pc' = [pc EXCEPT ![q] = "redact"]
  /\ tx' = [tx EXCEPT ![q] = "open"]
  /\ call' = [call EXCEPT ![q] = e]
  /\ UNCHANGED <<rows, buf, step, told, acked>>

IsActor(r, identity) == r.actor = identity /\ ~r.anon

\* Variant: the list of predicates starts without the actor.
PredicateResourcesOnly(q, r) ==
  step[q] # 0 /\ r.rec = call[q].resources[step[q]]

Predicate(q, r) == IF step[q] = 0 THEN IsActor(r, call[q].identity)
                   ELSE r.rec = call[q].resources[step[q]]

\* Variant: redaction clears the record the event is about.
RedactTarget(r) == [r EXCEPT !.body = Erased, !.rec = NoRecord]

Redact(r) == [r EXCEPT !.body = Erased]

\* Variant: the role column gets the summary's marker.
AnonymiseRole(r) == [r EXCEPT !.anon = TRUE, !.role = Erased]

Anonymise(r) == [r EXCEPT !.anon = TRUE, !.role = NoRole]

\* UPDATE ... SET ... WHERE: new has the rows WHERE selects, as SET leaves them.
Update(q, new) ==
  /\ WriteLockFree(q)
  /\ RowsFree(q, DOMAIN new)
  /\ buf' = [buf EXCEPT ![q] =
       [i \in Ids |-> IF i \in DOMAIN new THEN new[i] ELSE @[i]]]
  /\ tx' = [tx EXCEPT ![q] = "writing"]

RedactTargets(q) ==
  {i \in Ids : Visible(q)[i] # NoRow /\ Predicate(q, Visible(q)[i])}

\* The loop over the predicates goes on, or is done.
Advance(q, done) ==
  IF done THEN pc' = [pc EXCEPT ![q] = "anonymise"] /\ UNCHANGED step
  ELSE step' = [step EXCEPT ![q] = @ + 1] /\ UNCHANGED pc

\* Variant: the loop stops before the last predicate.
RedactStatementShort(q) ==
  /\ pc[q] = "redact"
  /\ Update(q, [i \in RedactTargets(q) |-> Redact(Visible(q)[i])])
  /\ Advance(q, step[q] + 1 >= Len(call[q].resources))
  /\ UNCHANGED <<rows, call, told, acked>>

\* Variant: every redaction is a transaction of its own.
RedactStatementAlone(q) ==
  /\ pc[q] = "redact"
  /\ WriteLockFree(q)
  /\ rows' = [i \in Ids |-> IF i \in RedactTargets(q) THEN Redact(rows[i]) ELSE rows[i]]
  /\ Advance(q, step[q] = Len(call[q].resources))
  /\ UNCHANGED <<buf, tx, call, told, acked>>

RedactStatement(q) ==
  /\ pc[q] = "redact"
  /\ Update(q, [i \in RedactTargets(q) |-> Redact(Visible(q)[i])])
  /\ Advance(q, step[q] = Len(call[q].resources))
  /\ UNCHANGED <<rows, call, told, acked>>

AnonymiseTargets(q) ==
  {i \in Ids : Visible(q)[i] # NoRow /\ IsActor(Visible(q)[i], call[q].identity)}

AnonymiseStatement(q) ==
  /\ pc[q] = "anonymise"
  /\ Update(q, [i \in AnonymiseTargets(q) |-> Anonymise(Visible(q)[i])])
  /\ pc' = [pc EXCEPT ![q] = "commit"]
  /\ UNCHANGED <<rows, call, step, told, acked>>

EndErase(q) ==
  /\ Return(q)
  /\ tx' = [tx EXCEPT ![q] = "none"]
  /\ buf' = [buf EXCEPT ![q] = Empty]
  /\ step' = [step EXCEPT ![q] = 0]
  /\ UNCHANGED <<told, acked>>

CommitErase(q) ==
  /\ pc[q] = "commit"
  /\ rows' = Visible(q)
  /\ EndErase(q)

\* Any statement, or the commit, fails: the deferred Rollback runs.
EraseFails(q) ==
  /\ pc[q] # "idle"
  /\ EndErase(q)
  /\ UNCHANGED rows

-----------------------------------------------------------------------------
AppendNext(p) ==
  \/ \E e \in Requests : AppendPrepared(p, e) \/ AppendPreparedWithin(p, e)
  \/ InsertStores(p) \/ InsertLosesAnswer(p)
  \/ InsertDuplicate(p) \/ InsertFails(p)
  \/ LookupMatches(p) \/ LookupDiffers(p) \/ LookupFails(p)

HostTxNext(p) == BeginHostTx(p) \/ CommitHostTx(p) \/ RollbackHostTx(p)

EraseNext(q) ==
  \/ \E e \in Erasures : EraseSubjectResources(q, e)
  \/ RedactStatement(q) \/ AnonymiseStatement(q)
  \/ CommitErase(q) \/ EraseFails(q)

Next == \/ \E p \in Appenders : AppendNext(p) \/ HostTxNext(p)
        \/ \E q \in Erasers : EraseNext(q)

Spec == Init /\ [][Next]_vars

-----------------------------------------------------------------------------
(* Properties *)

MaybeRow == Row \cup {NoRow}

\* Every variable holds values of its kind (the shape of the two tables, the
\* transactions and the calls of store.go and subject_lifecycle.go).
TypeOK ==
  /\ rows \in [Ids -> MaybeRow]
  /\ buf \in [Goroutines -> [Ids -> MaybeRow]]
  /\ tx \in [Goroutines -> {"none", "open", "writing", "aborted"}]
  /\ pc \in [Goroutines -> {"idle", "insert", "lookup",
                            "redact", "anonymise", "commit"}]
  /\ call \in [Goroutines -> Requests \cup Erasures \cup {NoCall}]
  /\ step \in [Erasers -> Nat]
  /\ told \in [Appenders -> SUBSET Requests]
  /\ acked \in SUBSET Requests

\* An event whose actor was anonymised by an erasure has lost its personal
\* snapshots too (EraseSubjectResources redacts, then anonymises).  An event
\* that escapes this can never be erased again: its actor is no longer known.
AnonymisedIsRedacted ==
  \A i \in Ids : rows[i] # NoRow /\ rows[i].anon => rows[i].body = Erased

\* What a committed event may become: itself, or itself erased in part or whole.
ErasedForms(r) ==
  {r, [r EXCEPT !.body = Erased], [r EXCEPT !.anon = TRUE, !.role = NoRole],
   [r EXCEPT !.body = Erased, !.anon = TRUE, !.role = NoRole]}

\* A committed event is never deleted or overwritten, by a replay, a conflict,
\* a host commit or an erasure: it keeps its identity, target and time, and
\* what it says can only be erased, never replaced and never restored.
EvidenceOnlyErased ==
  [][\A i \in Ids : rows[i] # NoRow => rows'[i] \in ErasedForms(rows[i])]_vars

\* When EraseSubjectResources reports success, no committed event names the
\* subject and no event of a declared record keeps its snapshots.
EraseComplete ==
  [][\A q \in Erasers :
       CommitErase(q) =>
         \A i \in Ids : rows'[i] # NoRow =>
           /\ ~IsActor(rows'[i], call[q].identity)
           /\ (\E k \in 1..Len(call[q].resources) :
                 rows'[i].rec = call[q].resources[k]) => rows'[i].body = Erased]_vars

\* The stored row says what was appended, or what erasure left of it.
\* created_at is that of the first append.
RecordsIt(stored, given) ==
  /\ stored.event = given.event
  /\ stored.rec = given.rec
  /\ stored.actor = given.actor
  /\ stored.role \in {given.role, NoRole}
  /\ stored.body \in {given.body, Erased}

\* Every event the store acknowledged (and, within a host transaction, whose
\* transaction committed) is in the table with the payload that was given:
\* no acknowledgement is lost, and two different payloads under one id are
\* never both accepted, however appends, retries, commits and erasures meet.
AckedDurable ==
  \A e \in acked : rows[e.id] # NoRow /\ RecordsIt(rows[e.id], e.row)

\* Repeating exactly an event that was acknowledged is answered with success
\* (or with a failure of the database), never as a conflict, unless an erasure
\* has removed what the retry is compared with.
ExactReplayAccepted ==
  [][\A p \in Appenders :
       LookupDiffers(p) /\ call[p] \in acked \cup told[p] =>
         \/ Visible(p)[call[p].id].anon
         \/ Visible(p)[call[p].id].body = Erased]_vars

Log == INSTANCE AuditLog WITH log <- rows

\* Where writers are serialised, the store behaves as the atomic log of module
\* AuditLog: whatever statements, transactions, retries and failures an append
\* or an erasure is made of, readers of committed rows see it happen at once
\* and whole, or not at all.
ImplementsAuditLog == Log!Spec
=============================================================================
