----------------------------- MODULE AuditQuery -----------------------------
(***************************************************************************)
(* Reading audit history page by page: AuditQueryApplicationService plans  *)
(* a query (retention, limits, data scope), the event store answers it in  *)
(* the order (created_at, id) descending, and the caller follows the       *)
(* cursor, while other goroutines append events and erase subjects.        *)
(*                                                                         *)
(* An event takes its time when it is built and becomes visible when its   *)
(* insert or its host transaction commits, so rows appear late and out of  *)
(* order.  Ids are numbers only to give them an order; created_at is text  *)
(* in UTC whose order is that of time.  The host's ProjectAuditEvents is   *)
(* taken to rewrite fields and to keep the rows.                           *)
(***************************************************************************)
EXTENDS DataScope, Integers, FiniteSets

CONSTANTS
  Kinds,               \* event classes: "business" and others
  Retention,           \* retention period of each class
  BusinessMaxPageSize, \* 200
  DefaultLimit,        \* 200
  MaxLimit,            \* 1000, of the plan and of the store
  Limits,              \* page sizes that callers ask for
  Froms,               \* created_from: [instant, offset] or NoTime
  NoTime,
  Erased,              \* the pseudonym of erased subjects
  EventIds, OrgOf,     \* ids of new events; actor_org_id of an actor's events
  FirstEvents,         \* events stored at the start
  NoCursor, NoPlan,
  MaxEvents            \* bound of the model

ASSUME QueryAssumption ==
  /\ "business" \in Kinds
  /\ Retention \in [Kinds -> Nat]
  /\ {BusinessMaxPageSize, DefaultLimit, MaxLimit} \subseteq Nat \ {0}
  /\ DefaultLimit <= BusinessMaxPageSize /\ BusinessMaxPageSize < MaxLimit
  /\ Limits \subseteq Int
  /\ NoTime \notin [instant : Int, offset : Int]
  /\ Froms \subseteq [instant : Int, offset : Int] \cup {NoTime}

Event == [id : Int, at : Int, actor : Identities \cup {Blank, Erased},
          org : Orgs \cup {Blank}, kind : Kinds]

\* The id is the table's primary key; every new event has an id and an actor.
ASSUME StoredAssumption ==
  /\ FirstEvents \subseteq Event /\ IsFiniteSet(FirstEvents)
  /\ \A e, f \in FirstEvents : e.id = f.id => e = f
  /\ EventIds \subseteq Int
  /\ \A a \in DOMAIN OrgOf : /\ a \in Identities \cup {Blank}
                             /\ OrgOf[a] \in Orgs \cup {Blank}
  /\ NoCursor \notin [at : Int, id : Int]

VARIABLES
  events,     \* _audit_events
  pending,    \* built events whose insert has not committed
  rpc,        \* the reader: "idle", "between" two pages, "reading"
  asked,      \* its request: [kind, limit, from]
  cursor,     \* the cursor of the next page
  plan,       \* of the page that is read: its scope and query, and the principal
              \* and the time that these were made of
  page,       \* the last page: [items, truncated, least, as, at], where least is
              \* the lower bound that page had to respect, and as and at are the
              \* principal and the time that its own request began with
  delivered,  \* keys of the events of this walk's pages
  owed,       \* ids stored when the walk began and in its reach on every page
  outcome     \* how the last walk ended

storeVars == <<events, pending>>
walkVars == <<rpc, asked, cursor, plan, page, delivered, owed, outcome>>
vars == <<scopeVars, storeVars, walkVars>>

NoPage == [items |-> {}, truncated |-> FALSE, least |-> 0, as |-> NoPlan, at |-> 0]

Init ==
  /\ ScopeInit
  /\ events = FirstEvents /\ pending = {}
  /\ rpc = "idle" /\ asked = NoPlan /\ cursor = NoCursor /\ plan = NoPlan
  /\ page = NoPage /\ delivered = {} /\ owed = {} /\ outcome = "none"

-----------------------------------------------------------------------------
(* Writers *)

\* Service.Append: the event is built now and inserted later, under a new id.
Build(id, a, k) ==
  /\ Cardinality(events) + Cardinality(pending) < MaxEvents
  /\ \A e \in events \cup pending : e.id # id
  /\ pending' = pending \cup
       {[id |-> id, at |-> now, actor |-> a, org |-> OrgOf[a], kind |-> k]}
  /\ UNCHANGED <<scopeVars, events, walkVars>>

Commit(e) ==
  /\ events' = events \cup {e}
  /\ pending' = pending \ {e}
  /\ UNCHANGED <<scopeVars, walkVars>>

AppendFails(e) ==
  /\ pending' = pending \ {e}
  /\ UNCHANGED <<scopeVars, events, walkVars>>

\* Variant: the pseudonym goes into both columns.
EraseSubjectBoth(a) ==
  /\ \E e \in events : e.actor = a
  /\ events' = {IF e.actor = a THEN [e EXCEPT !.actor = Erased, !.org = Erased] ELSE e :
                  e \in events}
  /\ UNCHANGED <<scopeVars, pending, walkVars>>

\* EraseSubject, as far as queries see it: identity and time stay.
EraseSubject(a) ==
  /\ \E e \in events : e.actor = a
  /\ events' = {IF e.actor = a THEN [e EXCEPT !.actor = Erased, !.org = Blank] ELSE e :
                  e \in events}
  /\ UNCHANGED <<scopeVars, pending, walkVars>>

-----------------------------------------------------------------------------
(* PlanQuery, list, ProjectQuery *)

Cutoff(kind) == now - Retention[kind]

\* Variant: only a created_from that does not parse is replaced.
CreatedFromUnclamped(kind, from) ==
  IF from = NoTime THEN Cutoff(kind) ELSE from.instant + from.offset

\* The text that created_at is compared with: the cutoff in UTC, or the
\* caller's own text, whose digits are the local time of its offset.
CreatedFrom(kind, from) ==
  IF from = NoTime \/ from.instant < Cutoff(kind)
  THEN Cutoff(kind)
  ELSE from.instant + from.offset

PageSize(kind, limit) ==
  LET capped == IF kind = "business" /\ limit > BusinessMaxPageSize
                THEN BusinessMaxPageSize ELSE limit
  IN  IF capped <= 0 \/ capped > MaxLimit THEN DefaultLimit ELSE capped

PlanQuery(request) ==
  LET size == PageSize(request.kind, request.limit)
  IN  [kind |-> request.kind, pageSize |-> size,
       limit |-> IF request.kind = "business" THEN size + 1 ELSE size,
       from |-> CreatedFrom(request.kind, request.from)]

\* The order of the answer: e comes after f.
Below(e, f) == e.at < f.at \/ (e.at = f.at /\ e.id < f.id)

\* Variant: continues at the time of the cursor, whatever the id.
BeyondCursorByTime(e, c) == c = NoCursor \/ e.at <= c.at

BeyondCursor(e, c) == c = NoCursor \/ Below(e, c)

\* The first n events of a set in that order.
First(n, S) == {e \in S : Cardinality({f \in S : Below(e, f)}) < n}

\* The class predicates: LIKE patterns over event and object_key.
OfClass(e, kind) == e.kind = kind

list(q, scope, c) ==
  LET limit == IF q.limit > MaxLimit THEN MaxLimit ELSE q.limit
  IN  First(limit, {e \in events : /\ OfClass(e, q.kind)
                                   /\ e.at >= q.from
                                   /\ BeyondCursor(e, c)
                                   /\ auditEventDataScopePredicate(scope, e)})

\* Variant: the cursor is the extra event that showed there is more.
ProjectQueryExtra(found, q) ==
  LET truncated == q.kind = "business" /\ Cardinality(found) > q.pageSize
      last == CHOOSE e \in found : \A f \in found : e = f \/ Below(e, f)
  IN  [items |-> IF truncated THEN First(q.pageSize, found) ELSE found,
       truncated |-> truncated,
       next |-> IF truncated THEN [at |-> last.at, id |-> last.id] ELSE NoCursor]

ProjectQuery(found, q) ==
  LET truncated == q.kind = "business" /\ Cardinality(found) > q.pageSize
      items == IF truncated THEN First(q.pageSize, found) ELSE found
      last == CHOOSE e \in items : \A f \in items : e = f \/ Below(e, f)
  IN  [items |-> items, truncated |-> truncated,
       next |-> IF truncated /\ items # {} THEN [at |-> last.at, id |-> last.id]
                ELSE NoCursor]

-----------------------------------------------------------------------------
(* The reader: one caller that asks for page after page *)

StartWalk(kind, limit, from) ==
  /\ rpc = "idle"
  /\ rpc' = "between"
  /\ asked' = [kind |-> kind, limit |-> limit, from |-> from]
  /\ cursor' = NoCursor /\ page' = NoPage /\ delivered' = {} /\ outcome' = "none"
  /\ owed' = {e.id : e \in events}
  /\ UNCHANGED <<scopeVars, storeVars, plan>>

EndWalk(how) == rpc' = "idle" /\ outcome' = how /\ cursor' = NoCursor /\ plan' = NoPlan

\* An error answers the request: the walk is given up.
GiveUp(how) == /\ EndWalk(how)
               /\ asked' = NoPlan /\ page' = NoPage /\ delivered' = {} /\ owed' = {}
               /\ UNCHANGED <<scopeVars, storeVars>>

\* Variant: a page that continues a walk keeps the authorization of the one before.
BeginPageKept ==
  /\ rpc = "between"
  /\ LET holder == IF cursor = NoCursor THEN principal ELSE page.as
         scope == resolveAuditDataScope(holder, now)
     IN  /\ scope # Denied
         /\ plan' = [query |-> PlanQuery(asked), scope |-> scope, as |-> principal, at |-> now]
  /\ rpc' = "reading"
  /\ UNCHANGED <<scopeVars, storeVars, asked, cursor, page, delivered, owed, outcome>>

\* BusinessEvents and its siblings: the scope, then the plan.
BeginPage ==
  /\ rpc = "between"
  /\ LET scope == resolveAuditDataScope(principal, now)
     IN  /\ scope # Denied
         /\ plan' = [query |-> PlanQuery(asked), scope |-> scope, as |-> principal, at |-> now]
  /\ rpc' = "reading"
  /\ UNCHANGED <<scopeVars, storeVars, asked, cursor, page, delivered, owed, outcome>>

PageDenied ==
  /\ rpc = "between" /\ resolveAuditDataScope(principal, now) = Denied
  /\ GiveUp("denied")

\* What the page had to respect: the request's bound and the retention.
Least ==
  LET cutoff == plan.at - Retention[asked.kind]
  IN  IF asked.from = NoTime \/ asked.from.instant < cutoff THEN cutoff
      ELSE asked.from.instant

ReadPage ==
  /\ rpc = "reading"
  /\ LET result == ProjectQuery(list(plan.query, plan.scope, cursor), plan.query)
     IN  /\ page' = [items |-> result.items, truncated |-> result.truncated,
                     least |-> Least, as |-> plan.as, at |-> plan.at]
         /\ delivered' = delivered \cup {[at |-> e.at, id |-> e.id] : e \in result.items}
         /\ owed' = {e.id : e \in {e \in events :
                              /\ e.id \in owed
                              /\ e.kind = asked.kind
                              /\ e.at >= Least
                              /\ MaySee(plan.as, plan.at, e)}}
         /\ \/ /\ result.truncated
               /\ rpc' = "between" /\ cursor' = result.next /\ plan' = NoPlan
               /\ UNCHANGED outcome
            \/ ~result.truncated /\ EndWalk("complete")
  /\ UNCHANGED <<scopeVars, storeVars, asked>>

\* The host refuses the record, or it, the store or the connection fails.
PageFails ==
  /\ rpc \in {"between", "reading"}
  /\ GiveUp("failed")

-----------------------------------------------------------------------------
Host == ScopeNext /\ UNCHANGED <<storeVars, walkVars>>

Writer == \/ \E id \in EventIds, a \in DOMAIN OrgOf, k \in Kinds : Build(id, a, k)
          \/ \E e \in pending : Commit(e) \/ AppendFails(e)
          \/ \E a \in Identities : EraseSubject(a)

Reader == \/ \E k \in Kinds, l \in Limits, f \in Froms : StartWalk(k, l, f)
          \/ BeginPage \/ PageDenied \/ ReadPage \/ PageFails

Next == Host \/ Writer \/ Reader

Spec == Init /\ [][Next]_vars

\* A caller that has a cursor asks for the next page, and a request that has
\* been accepted is answered.
FairSpec == Spec /\ WF_vars(BeginPage \/ PageDenied) /\ WF_vars(ReadPage)

-----------------------------------------------------------------------------
\* One type invariant.
TypeOK ==
  /\ ScopeTypeOK
  /\ events \subseteq Event /\ pending \subseteq Event
  /\ rpc \in {"idle", "between", "reading"}
  /\ asked \in [kind : Kinds, limit : Limits, from : Froms] \cup {NoPlan}
  /\ cursor \in [at : Int, id : Int] \cup {NoCursor}
  /\ rpc = "reading" => plan.query.limit \in 1..MaxLimit
  /\ page.items \subseteq Event
  /\ delivered \subseteq [at : Int, id : Int]
  /\ outcome \in {"none", "complete", "denied", "failed"}

\* Every page lies strictly below all that the walk has already returned, so
\* no event comes twice and the order never turns back, whatever is appended,
\* committed late or erased between two pages ("stable keyset continuation",
\* audit_openapi.go:24; the keyset test in module/integration_test.go).
StableOrder ==
  [][rpc = "reading" /\ page' # page =>
       \A e \in page'.items : \A d \in delivered : Below(e, d)]_vars

\* A business walk that ends without a cursor, and a governance or operations
\* answer shorter than the page size (these have no cursor), has returned every
\* event that was stored when it began and that stayed in the principal's scope,
\* as it was when the page's own request began, and inside the retention on each
\* of its pages: no concurrent append, erasure
\* or change of authorization makes the pages skip it.
WalkComplete ==
  /\ outcome = "complete"
  /\ \/ asked.kind = "business"
     \/ Cardinality(page.items) < PageSize(asked.kind, asked.limit)
  => \A id \in owed : \E d \in delivered : d.id = id

\* No page returns an event older than the retention of its class or than the
\* caller's created_from ("Inclusive RFC3339 lower time bound subject to
\* retention", audit_openapi.go:69).
LowerBoundKept == \A e \in page.items : e.at >= page.least

\* A page holds only rows that the policies granted to the principal at the
\* moment the page's own request began, whatever the pages before it were
\* granted, and whatever is appended, erased or revoked before the rows are read:
\* every request resolves its principal and scope anew (BusinessEvents and its
\* siblings), and the scope goes into the SQL that reads the rows.
PageWithinGrant ==
  \A e \in page.items :
    HasBundle(page.as, page.at) /\ Allows(page.as, e) /\ ~Forbids(page.as, e)

\* A walk ends, although the table grows while it runs.
WalkEnds == rpc # "idle" ~> rpc = "idle"
=============================================================================
