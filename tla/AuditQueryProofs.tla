-------------------------- MODULE AuditQueryProofs --------------------------
(***************************************************************************)
(* Pages of audit history, proved for every table, every set of principals *)
(* and every page size: what a walk returns, in which order, and that it   *)
(* skips nothing.                                                          *)
(***************************************************************************)
EXTENDS AuditQuery, DataScopeProofs, FiniteSetTheorems, TLAPS

(***************************************************************************)
(* The inductive invariant                                                 *)
(***************************************************************************)

\* The table and the inserts under way never share an id, and the table is
\* finite: below it every page has a last event.
Keyed ==
  /\ IsFiniteSet(events)
  /\ \A e \in events : \A f \in events : e.id = f.id => e = f
  /\ \A e \in pending : \A f \in pending : e.id = f.id => e = f
  /\ \A e \in events : \A f \in pending : e.id # f.id

Request == [kind : Kinds, limit : Limits, from : Froms]

\* The lower bound of a plan made at time t.
FromAt(request, t) ==
  IF request.from = NoTime \/ request.from.instant < t - Retention[request.kind]
  THEN t - Retention[request.kind]
  ELSE request.from.instant + request.from.offset

\* A walk that goes on has a request and no outcome, and the plan of the page
\* that it reads is the one its request had when that page began.
Planned ==
  /\ rpc # "idle" => asked \in Request /\ outcome = "none"
  /\ outcome = "complete" => asked \in Request
  /\ rpc = "reading" =>
       LET size == PageSize(asked.kind, asked.limit)
       IN  /\ plan.at \in Int
           /\ plan.query = [kind |-> asked.kind, pageSize |-> size,
                            limit |-> IF asked.kind = "business" THEN size + 1 ELSE size,
                            from |-> FromAt(asked, plan.at)]

\* The scope of that plan is what its principal's policies resolve to, and the
\* last page holds rows that they grant.
Granted ==
  /\ rpc = "reading" => /\ plan.as \in Principals
                        /\ plan.scope = resolveAuditDataScope(plan.as, plan.at)
                        /\ plan.scope # Denied
  /\ PageWithinGrant

\* The cursor is the last key of the walk: all others come before it.
Ordered ==
  rpc # "idle" =>
    IF cursor = NoCursor THEN delivered = {}
    ELSE \A d \in delivered : d = cursor \/ Below(cursor, d)

\* What the walk owes was delivered, or its event lies beyond the cursor.
Ahead ==
  rpc # "idle" =>
    \A id \in owed : \/ \E d \in delivered : d.id = id
                     \/ \E e \in events : e.id = id /\ BeyondCursor(e, cursor)

Typed ==
  /\ Ranges
  /\ events \subseteq Event /\ pending \subseteq Event
  /\ rpc \in {"idle", "between", "reading"}
  /\ asked \in Request \cup {NoPlan}
  /\ cursor \in [at : Int, id : Int] \cup {NoCursor}
  /\ page.items \subseteq Event
  /\ delivered \subseteq [at : Int, id : Int]
  /\ outcome \in {"none", "complete", "denied", "failed"}

Inv == Typed /\ Keyed /\ Planned /\ Ordered

(***************************************************************************)
(* The order (created_at, id), and First                                   *)
(***************************************************************************)

\* The order is a strict order on keys.
LEMMA BelowTransitive ==
  ASSUME NEW e, NEW f, NEW g, e.at \in Int, e.id \in Int, f.at \in Int, f.id \in Int,
         g.at \in Int, g.id \in Int, Below(e, f), Below(f, g)
  PROVE  Below(e, g)
BY DEF Below

\* No key comes after itself.
LEMMA BelowIrreflexive ==
  ASSUME NEW e, e.at \in Int, e.id \in Int
  PROVE  ~Below(e, e)
BY DEF Below

\* Of two keys at most one comes after the other.
LEMMA BelowAsymmetric ==
  ASSUME NEW e, NEW f, e.at \in Int, e.id \in Int, f.at \in Int, f.id \in Int, Below(e, f)
  PROVE  ~Below(f, e) /\ e # f
BY DEF Below

\* Finite sets of events with distinct ids: what a query sees.
Table(S) == /\ S \subseteq Event /\ IsFiniteSet(S)
            /\ \A e \in S : \A f \in S : e.id = f.id => e = f

\* Two different events of a table are ordered.
LEMMA BelowTotal ==
  ASSUME NEW S, Table(S), NEW e \in S, NEW f \in S
  PROVE  e = f \/ Below(e, f) \/ Below(f, e)
<1>1. e.at \in Int /\ e.id \in Int /\ f.at \in Int /\ f.id \in Int
  BY DEF Table, Event
<1>2. CASE e.id = f.id
  BY <1>2 DEF Table
<1>3. CASE e.id # f.id
  BY <1>1, <1>3 DEF Below
<1> QED BY <1>2, <1>3

\* Events have keys that the order compares.
LEMMA EventKeys ==
  ASSUME NEW S, S \subseteq Event
  PROVE  \A e \in S : e.at \in Int /\ e.id \in Int
BY DEF Event

\* A part of a table is a table.
LEMMA SubTable ==
  ASSUME NEW S, Table(S), NEW T, T \subseteq S
  PROVE  Table(T)
BY FS_Subset DEF Table

\* A table that is not empty has an event that comes before all others: the
\* one with the fewest events before it.
LEMMA TableTop ==
  ASSUME NEW S, Table(S), S # {}
  PROVE  \E top \in S : \A e \in S : e = top \/ Below(e, top)
<1> DEFINE Before(e) == {f \in S : Below(e, f)}
           Befores == {Before(e) : e \in S}
<1>1. IsWellFoundedOn(StrictSubsetOrdering(S), FiniteSubsetsOf(S))
  BY FS_StrictSubsetOrderingWellFounded
<1>2. Befores \subseteq FiniteSubsetsOf(S) /\ Befores # {}
  <2>1. \A T \in SUBSET S : IsFiniteSet(T)
    BY FS_Subset DEF Table
  <2>2. Befores \subseteq SUBSET S
    OBVIOUS
  <2>3. Befores # {}
    OBVIOUS
  <2> HIDE DEF Befores
  <2> QED BY <2>1, <2>2, <2>3 DEF FiniteSubsetsOf
<1>3. PICK B \in Befores : \A C \in Befores : <<C, B>> \notin StrictSubsetOrdering(S)
  <2> HIDE DEF Befores
  <2> QED BY <1>1, <1>2, WFMin
<1>4. PICK top \in S : B = Before(top)
  BY <1>3
<1>5. Before(top) = {}
  <2> SUFFICES ASSUME NEW f \in Before(top) PROVE FALSE
    OBVIOUS
  <2>1. f \in S /\ Below(top, f)
    OBVIOUS
  <2>2. Before(f) \subseteq Before(top)
    BY <2>1, BelowTransitive, EventKeys DEF Table
  <2>3. f \notin Before(f)
    BY <2>1, BelowIrreflexive, EventKeys DEF Table
  <2>4. Before(f) # Before(top)
    BY <2>3
  <2>5. <<Before(f), Before(top)>> \in StrictSubsetOrdering(S)
    BY <2>2, <2>4 DEF StrictSubsetOrdering
  <2> QED BY <1>3, <1>4, <2>1, <2>5
<1>6. \A e \in S : e = top \/ Below(e, top)
  BY <1>5, BelowTotal
<1> QED BY <1>6

\* It also has one that comes after all others: the last of a page.
LEMMA TableBottom ==
  ASSUME NEW S, Table(S), S # {}
  PROVE  \E last \in S : \A e \in S : last = e \/ Below(last, e)
<1> DEFINE After(e) == {f \in S : Below(f, e)}
           Afters == {After(e) : e \in S}
<1>1. IsWellFoundedOn(StrictSubsetOrdering(S), FiniteSubsetsOf(S))
  BY FS_StrictSubsetOrderingWellFounded
<1>2. Afters \subseteq FiniteSubsetsOf(S) /\ Afters # {}
  <2>1. \A T \in SUBSET S : IsFiniteSet(T)
    BY FS_Subset DEF Table
  <2>2. Afters \subseteq SUBSET S
    OBVIOUS
  <2>3. Afters # {}
    OBVIOUS
  <2> HIDE DEF Afters
  <2> QED BY <2>1, <2>2, <2>3 DEF FiniteSubsetsOf
<1>3. PICK B \in Afters : \A C \in Afters : <<C, B>> \notin StrictSubsetOrdering(S)
  <2> HIDE DEF Afters
  <2> QED BY <1>1, <1>2, WFMin
<1>4. PICK last \in S : B = After(last)
  BY <1>3
<1>5. After(last) = {}
  <2> SUFFICES ASSUME NEW f \in After(last) PROVE FALSE
    OBVIOUS
  <2>1. f \in S /\ Below(f, last)
    OBVIOUS
  <2>2. After(f) \subseteq After(last)
    BY <2>1, BelowTransitive, EventKeys DEF Table
  <2>3. f \notin After(f)
    BY <2>1, BelowIrreflexive, EventKeys DEF Table
  <2>4. After(f) # After(last)
    BY <2>3
  <2>5. <<After(f), After(last)>> \in StrictSubsetOrdering(S)
    BY <2>2, <2>4 DEF StrictSubsetOrdering
  <2> QED BY <1>3, <1>4, <2>1, <2>5
<1>6. \A e \in S : last = e \/ Below(last, e)
  BY <1>5, BelowTotal
<1> QED BY <1>6

\* The answer of a query is part of the rows that match.
LEMMA FirstWithin == \A n, S : First(n, S) \subseteq S
BY DEF First

\* What comes before a row of the answer is in the answer too.
LEMMA FirstUpward ==
  ASSUME NEW S, Table(S), NEW n \in Nat, NEW i \in First(n, S), NEW e \in S, Below(i, e)
  PROVE  e \in First(n, S)
<1> DEFINE beforeI == {f \in S : Below(i, f)}
           beforeE == {f \in S : Below(e, f)}
<1>1. i \in S /\ Cardinality(beforeI) < n
  BY DEF First
<1>2. beforeE \subseteq beforeI
  BY <1>1, BelowTransitive, EventKeys DEF Table
<1>3. IsFiniteSet(beforeI) /\ beforeE \in SUBSET beforeI
  BY <1>2, FS_Subset DEF Table
<1>4. /\ Cardinality(beforeE) <= Cardinality(beforeI)
      /\ Cardinality(beforeE) \in Nat /\ Cardinality(beforeI) \in Nat
  <2> HIDE DEF beforeE, beforeI
  <2> QED BY <1>3, FS_Subset, FS_CardinalityType
<1>5. Cardinality(beforeE) < n
  <2> HIDE DEF beforeE, beforeI
  <2> QED BY <1>1, <1>4
<1> QED BY <1>5 DEF First

\* A row that matches and is not in the answer comes after all of the answer.
LEMMA FirstThenRest ==
  ASSUME NEW S, Table(S), NEW n \in Nat, NEW i \in First(n, S), NEW e \in S,
         e \notin First(n, S)
  PROVE  Below(e, i)
BY BelowTotal, FirstUpward, FirstWithin

\* An answer that leaves a row out is full.
LEMMA FirstFull ==
  ASSUME NEW S, Table(S), NEW n \in Nat, NEW e \in S, e \notin First(n, S)
  PROVE  Cardinality(First(n, S)) >= n
<1> DEFINE rest == S \ First(n, S)
<1>1. Table(rest) /\ rest # {}
  BY SubTable
<1>2. PICK top \in rest : \A f \in rest : f = top \/ Below(f, top)
  <2> HIDE DEF rest
  <2> QED BY <1>1, TableTop
<1> DEFINE before == {f \in S : Below(top, f)}
<1>3. before \subseteq First(n, S)
  <2> SUFFICES ASSUME NEW f \in S, Below(top, f), f \notin First(n, S) PROVE FALSE
    OBVIOUS
  <2>1. f = top \/ Below(f, top)
    BY <1>2
  <2>2. top \in S /\ top.at \in Int /\ top.id \in Int /\ f.at \in Int /\ f.id \in Int
    BY EventKeys DEF Table
  <2> QED BY <2>1, <2>2, BelowAsymmetric
<1>4. IsFiniteSet(First(n, S)) /\ IsFiniteSet(before) /\ before \in SUBSET First(n, S)
  BY <1>3, FirstWithin, FS_Subset DEF Table
<1>5. ~(Cardinality(before) < n)
  BY DEF First
<1>6. /\ Cardinality(before) \in Nat /\ Cardinality(First(n, S)) \in Nat
      /\ Cardinality(before) <= Cardinality(First(n, S))
  <2> HIDE DEF before
  <2> QED BY <1>4, FS_Subset, FS_CardinalityType
<1> QED
  <2> HIDE DEF before
  <2> QED BY <1>5, <1>6

\* The first rows of a table that has some are at least one.
LEMMA FirstNotEmpty ==
  ASSUME NEW S, Table(S), S # {}, NEW n \in Nat, n > 0
  PROVE  First(n, S) # {}
<1>1. PICK e : e \in S
  OBVIOUS
<1>2. CASE First(n, S) = {}
  <2>1. Cardinality(First(n, S)) >= n
    BY <1>1, <1>2, FirstFull
  <2>2. Cardinality(First(n, S)) = 0
    BY <1>2, FS_EmptySet
  <2> QED BY <2>1, <2>2
<1> QED BY <1>2

(***************************************************************************)
(* One page                                                                *)
(***************************************************************************)

\* The size of a page is within the store's limit, and a business page leaves
\* room below it for the row that shows there is more.
LEMMA PageSizes ==
  ASSUME NEW kind \in Kinds, NEW limit \in Limits
  PROVE  /\ PageSize(kind, limit) \in 1..MaxLimit
         /\ kind = "business" => PageSize(kind, limit) + 1 \in 1..MaxLimit
BY QueryAssumption DEF PageSize

\* ProjectQuery cuts a business answer that is longer than its page, and the
\* next cursor is then the last row that the page shows.
LEMMA ProjectMeans ==
  ASSUME NEW found, Table(found), NEW q, q.pageSize \in Nat, q.pageSize > 0
  PROVE  LET result == ProjectQuery(found, q)
         IN  IF q.kind = "business" /\ Cardinality(found) > q.pageSize
             THEN /\ result.truncated = TRUE
                  /\ result.items = First(q.pageSize, found)
                  /\ \E last \in result.items :
                       /\ result.next = [at |-> last.at, id |-> last.id]
                       /\ \A e \in result.items : last = e \/ Below(last, e)
             ELSE result.truncated = FALSE /\ result.items = found
<1> DEFINE items == First(q.pageSize, found)
           last == CHOOSE e \in items : \A f \in items : e = f \/ Below(e, f)
<1>1. CASE ~(q.kind = "business" /\ Cardinality(found) > q.pageSize)
  BY <1>1 DEF ProjectQuery
<1>2. CASE q.kind = "business" /\ Cardinality(found) > q.pageSize
  <2>1. found # {}
    BY <1>2, FS_EmptySet
  <2>2. items # {} /\ Table(items)
    BY <2>1, FirstNotEmpty, FirstWithin, SubTable
  <2>3. last \in items /\ \A f \in items : last = f \/ Below(last, f)
    <3>1. \E e \in items : \A f \in items : e = f \/ Below(e, f)
      <4> HIDE DEF items
      <4> QED BY <2>2, TableBottom
    <3> HIDE DEF items
    <3> QED BY <3>1
  <2>4. ProjectQuery(found, q) = [items |-> items, truncated |-> TRUE,
                                  next |-> [at |-> last.at, id |-> last.id]]
    BY <1>2, <2>2 DEF ProjectQuery
  <2> HIDE DEF items, last
  <2>5. items = First(q.pageSize, found)
    BY DEF items
  <2> QED BY <1>2, <2>3, <2>4, <2>5
<1> QED BY <1>1, <1>2

\* The rows that match the plan of the page that is read.
Matching ==
  {e \in events : /\ OfClass(e, plan.query.kind)
                  /\ e.at >= plan.query.from
                  /\ BeyondCursor(e, cursor)
                  /\ auditEventDataScopePredicate(plan.scope, e)}

Answer == ProjectQuery(list(plan.query, plan.scope, cursor), plan.query)

\* What ReadPage finds: a page holds rows that match; a cursor is the last of
\* them, and every other row that matches comes after it; and an answer that
\* is complete, or not full, leaves no such row out.
LEMMA AnswerMeans ==
  ASSUME Typed, Keyed, Planned, rpc = "reading"
  PROVE  /\ Answer.items \subseteq Matching
         /\ Answer.truncated \in BOOLEAN
         /\ Answer.truncated =>
              \E last \in Answer.items :
                /\ Answer.next = [at |-> last.at, id |-> last.id]
                /\ \A e \in Matching : e \in Answer.items \/ Below(e, last)
                /\ \A e \in Answer.items : last = e \/ Below(last, e)
         /\ /\ ~Answer.truncated
            /\ \/ asked.kind = "business"
               \/ Cardinality(Answer.items) < PageSize(asked.kind, asked.limit)
            => Matching \subseteq Answer.items
<1> DEFINE size == PageSize(asked.kind, asked.limit)
           limit == plan.query.limit
           found == First(limit, Matching)
           full == plan.query.kind = "business" /\ Cardinality(found) > plan.query.pageSize
<1>1. /\ asked.kind \in Kinds /\ asked.limit \in Limits
      /\ plan.query.kind = asked.kind /\ plan.query.pageSize = size
      /\ limit = IF asked.kind = "business" THEN size + 1 ELSE size
  BY DEF Planned, Request
<1>2. size \in Nat /\ size > 0 /\ limit \in Nat /\ ~(limit > MaxLimit)
  BY <1>1, PageSizes, QueryAssumption
<1>3. Table(Matching)
  <2>1. Table(events)
    BY DEF Typed, Keyed, Table
  <2>2. Matching \subseteq events
    BY DEF Matching
  <2> QED BY <2>1, <2>2, SubTable
<1>4. Table(found) /\ found \subseteq Matching
  BY <1>3, FirstWithin, SubTable
<1>5. list(plan.query, plan.scope, cursor) = found
  BY <1>2 DEF list, Matching
<1>6. Cardinality(found) \in Nat
  BY <1>4, FS_CardinalityType DEF Table
<1>7. \A e \in Matching \ found : Cardinality(found) >= limit
  BY <1>2, <1>3, FirstFull
<1>8. CASE full
  <2>1. /\ Answer.truncated = TRUE
        /\ Answer.items = First(size, found)
        /\ \E last \in Answer.items :
             /\ Answer.next = [at |-> last.at, id |-> last.id]
             /\ \A e \in Answer.items : last = e \/ Below(last, e)
    <3> HIDE DEF found, size
    <3> QED BY <1>1, <1>2, <1>4, <1>5, <1>8, ProjectMeans DEF Answer
  <2>2. \A e \in Matching, i \in Answer.items : e \in Answer.items \/ Below(e, i)
    <3> SUFFICES ASSUME NEW e \in Matching, NEW i \in Answer.items,
                        e \notin First(size, found)
                 PROVE  Below(e, i)
      BY <2>1
    <3>1. i \in First(size, found) /\ i \in found
      BY <2>1, FirstWithin
    <3>2. CASE e \in found
      <4> HIDE DEF found, size
      <4> QED BY <1>2, <1>4, <3>1, <3>2, FirstThenRest
    <3>3. CASE e \notin found
      <4> HIDE DEF limit
      <4> QED BY <1>2, <1>3, <3>1, <3>3, FirstThenRest
    <3> QED BY <3>2, <3>3
  <2>3. Answer.items \subseteq Matching
    BY <2>1, <1>4, FirstWithin
  <2> QED BY <2>1, <2>2, <2>3
<1>9. CASE ~full
  <2>1. Answer.truncated = FALSE /\ Answer.items = found
    <3>1. /\ plan.query.pageSize \in Nat /\ plan.query.pageSize > 0
          /\ ~(plan.query.kind = "business" /\ Cardinality(found) > plan.query.pageSize)
      BY <1>1, <1>2, <1>9
    <3> HIDE DEF found, size, full
    <3>2. ProjectQuery(found, plan.query).truncated = FALSE
          /\ ProjectQuery(found, plan.query).items = found
      BY <1>4, <3>1, ProjectMeans, Zenon
    <3> QED BY <1>5, <3>2 DEF Answer
  <2>2. ASSUME NEW e \in Matching \ found,
               asked.kind = "business" \/ Cardinality(found) < size
        PROVE  FALSE
    <3>1. Cardinality(found) >= limit
      BY <1>7
    <3> HIDE DEF found, size, limit
    <3>2. CASE asked.kind = "business"
      <4>1. limit = size + 1 /\ Cardinality(found) > size
        BY <1>1, <1>2, <1>6, <3>1, <3>2
      <4> QED BY <1>1, <1>9, <3>2, <4>1
    <3>3. CASE asked.kind # "business" /\ Cardinality(found) < size
      BY <1>1, <1>2, <1>6, <3>1, <3>3
    <3> QED BY <2>2, <3>2, <3>3
  <2> HIDE DEF found
  <2> QED BY <1>4, <2>1, <2>2
<1> QED BY <1>8, <1>9

(***************************************************************************)
(* The invariant holds at the start and in every step                      *)
(***************************************************************************)

\* The invariant holds when the reader and the host start.
LEMMA InitInv == Init => Inv
<1> SUFFICES ASSUME Init PROVE Inv
  OBVIOUS
<1>1. Typed
  BY ScopeAssumption, StoredAssumption
     DEF Init, ScopeInit, Ranges, Typed, NoPage
<1>2. Keyed
  BY StoredAssumption DEF Init, Keyed
<1>3. Planned /\ Ordered
  BY DEF Init, Planned, Ordered
<1> QED BY <1>1, <1>2, <1>3 DEF Inv

\* A step of the host or of a writer leaves the walk as it is.
LEMMA WalkKept ==
  ASSUME Planned, Ordered, UNCHANGED walkVars
  PROVE  Planned' /\ Ordered'
<1>1. Planned'
  BY DEF Planned, walkVars, FromAt, PageSize
<1>2. Ordered'
  BY DEF Ordered, walkVars, Below
<1> QED BY <1>1, <1>2

\* Time and authorization move; the table and the walk stay.
LEMMA HostStep ==
  ASSUME Inv, Host
  PROVE  Inv'
<1>1. Typed'
  BY ScopeAssumption
     DEF Inv, Typed, Host, ScopeNext, Tick, ChangeAuthorization, Ranges, storeVars, walkVars
<1>2. Keyed'
  BY DEF Inv, Keyed, Host, storeVars
<1>3. Planned' /\ Ordered'
  BY WalkKept DEF Inv, Host
<1> QED BY <1>1, <1>2, <1>3 DEF Inv

\* A new event takes an id that no row and no pending insert has.
LEMMA BuildStep ==
  ASSUME Inv, NEW id \in EventIds, NEW a \in DOMAIN OrgOf, NEW k \in Kinds, Build(id, a, k)
  PROVE  Inv'
<1> DEFINE new == [id |-> id, at |-> now, actor |-> a, org |-> OrgOf[a], kind |-> k]
<1>1. new \in Event /\ new.id = id
  BY StoredAssumption, ScopeAssumption DEF Inv, Typed, Ranges, Event
<1>2. pending' = pending \cup {new} /\ events' = events
  BY DEF Build
<1>3. \A e \in events \cup pending : e.id # new.id
  BY DEF Build
<1> HIDE DEF new
<1>4. Typed'
  BY <1>1, <1>2 DEF Inv, Typed, Ranges, Build, scopeVars, walkVars
<1>5. Keyed'
  BY <1>2, <1>3 DEF Inv, Keyed
<1>6. Planned' /\ Ordered'
  BY WalkKept DEF Inv, Build
<1> QED BY <1>4, <1>5, <1>6 DEF Inv

\* A row that was built is stored, or lost, and its id stays unique.
LEMMA CommitStep ==
  ASSUME Inv, NEW e \in pending, Commit(e) \/ AppendFails(e)
  PROVE  Inv'
<1>1. Typed'
  BY DEF Inv, Typed, Ranges, Commit, AppendFails, scopeVars, walkVars
<1>2. Keyed'
  <2>1. IsFiniteSet(events \cup {e})
    BY FS_AddElement DEF Inv, Keyed
  <2>2. CASE Commit(e)
    BY <2>1, <2>2 DEF Inv, Keyed, Commit
  <2>3. CASE AppendFails(e)
    BY <2>3 DEF Inv, Keyed, AppendFails
  <2> QED BY <2>2, <2>3
<1>3. Planned' /\ Ordered'
  BY WalkKept DEF Inv, Commit, AppendFails
<1> QED BY <1>1, <1>2, <1>3 DEF Inv

\* An erasure rewrites rows one by one and keeps their keys.
LEMMA ErasureMeans ==
  ASSUME Typed, NEW a, EraseSubject(a)
  PROVE  \E f \in Surjection(events, events') :
           \A e \in events : /\ f[e] \in Event /\ f[e].id = e.id
                             /\ f[e].at = e.at /\ f[e].kind = e.kind
<1> DEFINE f == [e \in events |->
                   IF e.actor = a THEN [e EXCEPT !.actor = Erased, !.org = Blank] ELSE e]
<1>1. f \in Surjection(events, events')
  BY DEF EraseSubject, Surjection
<1>2. ASSUME NEW e \in events
      PROVE  /\ f[e] \in Event /\ f[e].id = e.id /\ f[e].at = e.at /\ f[e].kind = e.kind
  <2>1. e \in Event
    BY DEF Typed
  <2> QED BY <2>1 DEF Event
<1> HIDE DEF f
<1> QED BY <1>1, <1>2

\* An erasure keeps ids, times and kinds, so the table stays keyed.
LEMMA EraseStep ==
  ASSUME Inv, NEW a, EraseSubject(a)
  PROVE  Inv'
<1>1. PICK f \in Surjection(events, events') :
        \A e \in events : f[e] \in Event /\ f[e].id = e.id
  BY ErasureMeans DEF Inv
<1>2. \A g \in events' : \E e \in events : g = f[e]
  BY DEF Surjection
<1>3. IsFiniteSet(events')
  BY FS_Surjection DEF Inv, Keyed
<1>4. Typed'
  <2>1. events' \subseteq Event
    BY <1>1, <1>2
  <2> QED BY <2>1 DEF Inv, Typed, Ranges, EraseSubject, scopeVars, walkVars
<1>5. Keyed'
  <2>1. \A g \in events' : \A h \in events' : g.id = h.id => g = h
    BY <1>1, <1>2 DEF Inv, Keyed
  <2>2. \A g \in events' : \A h \in pending : g.id # h.id
    BY <1>1, <1>2 DEF Inv, Keyed
  <2>3. pending' = pending
    BY DEF EraseSubject
  <2> QED BY <1>3, <2>1, <2>2, <2>3 DEF Inv, Keyed
<1>6. Planned' /\ Ordered'
  BY WalkKept DEF Inv, EraseSubject
<1> QED BY <1>4, <1>5, <1>6 DEF Inv

\* A walk starts with a request, without a cursor and with nothing delivered.
LEMMA StartWalkStep ==
  ASSUME Inv, NEW k \in Kinds, NEW l \in Limits, NEW m \in Froms, StartWalk(k, l, m)
  PROVE  Inv'
<1>1. asked' \in Request
  BY DEF StartWalk, Request
<1>2. Typed'
  BY <1>1 DEF Inv, Typed, Ranges, StartWalk, scopeVars, storeVars, NoPage, Request
<1>3. Keyed'
  BY DEF Inv, Keyed, StartWalk, storeVars
<1>4. Planned'
  BY <1>1 DEF Planned, StartWalk, Request
<1>5. Ordered'
  BY DEF Ordered, StartWalk
<1> QED BY <1>2, <1>3, <1>4, <1>5 DEF Inv

\* The plan of a page is made of the request at the time the page begins.
LEMMA BeginPageStep ==
  ASSUME Inv, BeginPage
  PROVE  Inv'
<1>1. Typed'
  BY DEF Inv, Typed, Ranges, BeginPage, scopeVars, storeVars, Request
<1>2. Keyed'
  BY DEF Inv, Keyed, BeginPage, storeVars
<1>3. Planned'
  <2>1. /\ plan'.at = now /\ plan'.query = PlanQuery(asked)
        /\ asked' = asked /\ rpc = "between" /\ rpc' = "reading" /\ outcome' = outcome
    BY DEF BeginPage
  <2>2. now \in Int
    BY ScopeAssumption DEF Inv, Typed, Ranges
  <2>3. asked \in Request /\ outcome = "none"
    BY <2>1 DEF Inv, Planned
  <2>4. PlanQuery(asked) =
          [kind |-> asked.kind, pageSize |-> PageSize(asked.kind, asked.limit),
           limit |-> IF asked.kind = "business" THEN PageSize(asked.kind, asked.limit) + 1
                     ELSE PageSize(asked.kind, asked.limit),
           from |-> FromAt(asked, now)]
    BY DEF PlanQuery, CreatedFrom, FromAt, Cutoff
  <2> QED BY <2>1, <2>2, <2>3, <2>4 DEF Planned, FromAt, PageSize, Request
<1>4. Ordered'
  BY DEF Inv, Ordered, BeginPage, Below
<1> QED BY <1>1, <1>2, <1>3, <1>4 DEF Inv

\* A request that is refused or fails ends the walk.
LEMMA GiveUpStep ==
  ASSUME Inv, PageDenied \/ PageFails
  PROVE  Inv'
<1>1. PICK how \in {"denied", "failed"} : GiveUp(how)
  BY DEF PageDenied, PageFails
<1>2. Typed'
  BY <1>1 DEF Inv, Typed, Ranges, GiveUp, EndWalk, scopeVars, storeVars, NoPage
<1>3. Keyed'
  BY <1>1 DEF Inv, Keyed, GiveUp, storeVars
<1>4. Planned' /\ Ordered'
  BY <1>1 DEF Planned, Ordered, GiveUp, EndWalk
<1> QED BY <1>2, <1>3, <1>4 DEF Inv

\* What ReadPage does, in terms of its answer.
LEMMA ReadPageMeans ==
  ASSUME ReadPage
  PROVE  /\ rpc = "reading"
         /\ page' = [items |-> Answer.items, truncated |-> Answer.truncated, least |-> Least,
                      as |-> plan.as, at |-> plan.at]
         /\ delivered' = delivered \cup {[at |-> e.at, id |-> e.id] : e \in Answer.items}
         /\ owed' = {e.id : e \in {e \in events :
                              /\ e.id \in owed
                              /\ e.kind = asked.kind
                              /\ e.at >= Least
                              /\ MaySee(plan.as, plan.at, e)}}
         /\ \/ /\ Answer.truncated
               /\ rpc' = "between" /\ cursor' = Answer.next /\ outcome' = outcome
            \/ /\ ~Answer.truncated
               /\ rpc' = "idle" /\ cursor' = NoCursor /\ outcome' = "complete"
         /\ asked' = asked
         /\ UNCHANGED <<scopeVars, storeVars>>
BY DEF ReadPage, EndWalk, Answer

\* The key of an event is a possible cursor.
LEMMA KeyTyped ==
  ASSUME NEW e \in Event
  PROVE  [at |-> e.at, id |-> e.id] \in [at : Int, id : Int]
BY DEF Event

\* All that a page shows comes after all that the walk has delivered.
LEMMA PageBelow ==
  ASSUME Inv, rpc = "reading", NEW e \in Answer.items, NEW d \in delivered
  PROVE  Below(e, d)
<1>1. e \in Matching /\ e \in events
  BY AnswerMeans DEF Inv, Matching
<1>2. BeyondCursor(e, cursor)
  BY <1>1 DEF Matching
<1>3. cursor # NoCursor /\ (d = cursor \/ Below(cursor, d))
  BY DEF Inv, Ordered
<1>4. Below(e, cursor)
  BY <1>2, <1>3 DEF BeyondCursor
<1>5. /\ e.at \in Int /\ e.id \in Int /\ d.at \in Int /\ d.id \in Int
      /\ cursor.at \in Int /\ cursor.id \in Int
  BY <1>1, <1>3 DEF Inv, Typed, Event
<1> QED BY <1>3, <1>4, <1>5, BelowTransitive

\* A page is read: what it adds to the walk comes after all the rest, and its
\* last key is the cursor.
LEMMA ReadPageStep ==
  ASSUME Inv, ReadPage
  PROVE  Inv'
<1>1. Answer.items \subseteq events
  BY ReadPageMeans, AnswerMeans DEF Inv, Matching
<1>2. asked \in Request
  BY ReadPageMeans DEF Inv, Planned
<1>3. ASSUME Answer.truncated
      PROVE  \E last \in Answer.items :
               /\ Answer.next = [at |-> last.at, id |-> last.id]
               /\ \A e \in Answer.items : last = e \/ Below(last, e)
  BY <1>3, ReadPageMeans, AnswerMeans DEF Inv
<1>4. Typed'
  <2>1. page'.items \subseteq Event
    BY <1>1, ReadPageMeans DEF Inv, Typed
  <2>2. delivered' \subseteq [at : Int, id : Int]
    BY <1>1, ReadPageMeans, KeyTyped DEF Inv, Typed
  <2>3. cursor' \in [at : Int, id : Int] \cup {NoCursor}
    BY <1>1, <1>3, ReadPageMeans, KeyTyped DEF Inv, Typed
  <2>4. /\ rpc' \in {"idle", "between", "reading"}
        /\ outcome' \in {"none", "complete", "denied", "failed"}
        /\ asked' = asked /\ UNCHANGED <<scopeVars, storeVars>>
    BY ReadPageMeans DEF Inv, Typed
  <2> QED BY <2>1, <2>2, <2>3, <2>4 DEF Inv, Typed, Ranges, scopeVars, storeVars, Request
<1>5. Keyed'
  BY ReadPageMeans DEF Inv, Keyed, storeVars
<1>6. Planned'
  BY <1>2, ReadPageMeans DEF Inv, Planned, Request
<1>7. Ordered'
  <2>1. CASE ~Answer.truncated
    BY <2>1, ReadPageMeans DEF Ordered
  <2>2. CASE Answer.truncated
    <3>1. PICK last \in Answer.items :
            /\ Answer.next = [at |-> last.at, id |-> last.id]
            /\ \A e \in Answer.items : last = e \/ Below(last, e)
      BY <1>3, <2>2
    <3>2. cursor' = [at |-> last.at, id |-> last.id] /\ cursor' # NoCursor
      BY <1>1, <2>2, <3>1, ReadPageMeans, KeyTyped, StoredAssumption DEF Inv, Typed
    <3>3. ASSUME NEW d \in delivered'
          PROVE  d = cursor' \/ Below(cursor', d)
      <4>1. CASE d \in delivered
        BY <3>2, <4>1, PageBelow, ReadPageMeans DEF Below
      <4>2. CASE d \notin delivered
        <5>1. PICK e \in Answer.items : d = [at |-> e.at, id |-> e.id]
          BY <4>2, ReadPageMeans
        <5> QED BY <3>1, <3>2, <5>1 DEF Below
      <4> QED BY <4>1, <4>2
    <3> QED BY <3>2, <3>3 DEF Ordered, Below
  <2> QED BY <2>1, <2>2
<1> QED BY <1>4, <1>5, <1>6, <1>7 DEF Inv

\* Every step keeps the invariant, by the actions of Next.
LEMMA StepInv == Inv /\ [Next]_vars => Inv'
<1> SUFFICES ASSUME Inv, [Next]_vars PROVE Inv'
  OBVIOUS
<1>1. CASE Host
  BY <1>1, HostStep
<1>2. CASE Writer
  <2>1. CASE \E id \in EventIds, a \in DOMAIN OrgOf, k \in Kinds : Build(id, a, k)
    BY <2>1, BuildStep
  <2>2. CASE \E e \in pending : Commit(e) \/ AppendFails(e)
    BY <2>2, CommitStep
  <2>3. CASE \E a \in Identities : EraseSubject(a)
    BY <2>3, EraseStep
  <2> QED BY <1>2, <2>1, <2>2, <2>3 DEF Writer
<1>3. CASE Reader
  <2>1. CASE \E k \in Kinds, l \in Limits, f \in Froms : StartWalk(k, l, f)
    BY <2>1, StartWalkStep
  <2>2. CASE BeginPage
    BY <2>2, BeginPageStep
  <2>3. CASE PageDenied \/ PageFails
    BY <2>3, GiveUpStep
  <2>4. CASE ReadPage
    BY <2>4, ReadPageStep
  <2> QED BY <1>3, <2>1, <2>2, <2>3, <2>4 DEF Reader
<1>4. CASE UNCHANGED vars
  <2>1. Typed'
    BY <1>4 DEF Inv, Typed, Ranges, vars, scopeVars, storeVars, walkVars, Request
  <2>2. Keyed'
    BY <1>4 DEF Inv, Keyed, vars, storeVars
  <2>3. Planned' /\ Ordered'
    BY <1>4, WalkKept DEF Inv, vars
  <2> QED BY <2>1, <2>2, <2>3 DEF Inv
<1> QED BY <1>1, <1>2, <1>3, <1>4 DEF Next

\* The invariant holds at all times, whatever is appended, committed late or
\* erased between two pages.
THEOREM InvAlways == Spec => []Inv
BY InitInv, StepInv, PTL DEF Spec

\* Every state of the reader and the store is well typed; in particular the
\* limit that goes into the SQL is positive and within the store's maximum.
THEOREM TypeCorrect == Spec => []TypeOK
<1>1. Inv => TypeOK
  <2> SUFFICES ASSUME Inv PROVE TypeOK
    OBVIOUS
  <2>1. ScopeTypeOK
    BY TypesFollow DEF Inv, Typed
  <2>2. rpc = "reading" => plan.query.limit \in 1..MaxLimit
    <3> SUFFICES ASSUME rpc = "reading" PROVE plan.query.limit \in 1..MaxLimit
      OBVIOUS
    <3> DEFINE size == PageSize(asked.kind, asked.limit)
    <3>1. asked.kind \in Kinds /\ asked.limit \in Limits
      BY DEF Inv, Planned, Request
    <3>2. plan.query.limit = IF asked.kind = "business" THEN size + 1 ELSE size
      BY DEF Inv, Planned
    <3>3. size \in 1..MaxLimit /\ (asked.kind = "business" => size + 1 \in 1..MaxLimit)
      BY <3>1, PageSizes
    <3> HIDE DEF size
    <3> QED BY <3>2, <3>3
  <2> QED BY <2>1, <2>2 DEF Inv, Typed, TypeOK, Request
<1> QED BY <1>1, InvAlways, PTL

\* The pages of a walk never turn back or repeat an event, for any number of
\* pages, page sizes, events at one moment and writers in between.
THEOREM PagesKeepOrder == Spec => StableOrder
<1>1. Inv /\ [Next]_vars =>
        (rpc = "reading" /\ page' # page =>
           \A e \in page'.items : \A d \in delivered : Below(e, d))
  <2> SUFFICES ASSUME Inv, [Next]_vars, rpc = "reading", page' # page
               PROVE  \A e \in page'.items : \A d \in delivered : Below(e, d)
    OBVIOUS
  <2>1. ReadPage \/ PageFails
    BY DEF Next, Host, Writer, Reader, Build, Commit, AppendFails, EraseSubject, StartWalk,
           BeginPage, PageDenied, vars, walkVars
  <2>2. CASE ReadPage
    BY <2>2, ReadPageMeans, PageBelow
  <2>3. CASE PageFails
    BY <2>3 DEF PageFails, GiveUp, NoPage
  <2> QED BY <2>1, <2>2, <2>3
<1>2. Inv /\ [Next]_vars =>
        [rpc = "reading" /\ page' # page =>
           \A e \in page'.items : \A d \in delivered : Below(e, d)]_vars
  BY <1>1
<1> QED BY <1>2, InvAlways, PTL DEF Spec, StableOrder

(***************************************************************************)
(* What the principal was granted                                          *)
(***************************************************************************)

\* Only the steps of a walk's own pages change its plan and its page.
LEMMA PagesMove ==
  ASSUME [Next]_vars
  PROVE  \/ UNCHANGED <<rpc, plan, page>> \/ BeginPage \/ ReadPage
         \/ rpc' # "reading" /\ page' = NoPage
BY DEF Next, Host, Writer, Reader, Build, Commit, AppendFails, EraseSubject, StartWalk,
       PageDenied, PageFails, GiveUp, EndWalk, vars, walkVars

\* A page is read with the scope of the principal that its request began with.
LEMMA GrantedStep == Inv /\ Granted /\ [Next]_vars => Granted'
<1> SUFFICES ASSUME Inv, Granted, [Next]_vars PROVE Granted'
  OBVIOUS
<1>1. CASE UNCHANGED <<rpc, plan, page>>
  BY <1>1 DEF Granted, PageWithinGrant
<1>2. CASE BeginPage
  <2>1. /\ plan'.as = principal /\ plan'.at = now
        /\ plan'.scope = resolveAuditDataScope(principal, now) /\ plan'.scope # Denied
        /\ page' = page
    BY <1>2 DEF BeginPage
  <2>2. principal \in Principals
    BY DEF Inv, Typed, Ranges
  <2>3. PageWithinGrant'
    BY <2>1 DEF Granted, PageWithinGrant
  <2> QED BY <2>1, <2>2, <2>3 DEF Granted
<1>3. CASE ReadPage
  <2>1. /\ rpc = "reading" /\ rpc' # "reading"
        /\ page'.items = Answer.items /\ page'.as = plan.as /\ page'.at = plan.at
    BY <1>3, ReadPageMeans
  <2>2. ASSUME NEW e \in Answer.items
        PROVE  HasBundle(plan.as, plan.at) /\ Allows(plan.as, e) /\ ~Forbids(plan.as, e)
    <3>1. auditEventDataScopePredicate(plan.scope, e)
      BY <2>1, AnswerMeans DEF Inv, Matching
    <3>2. plan.as \in Principals /\ MaySee(plan.as, plan.at, e)
      BY <2>1, <3>1 DEF Granted, MaySee
    <3> QED BY <3>2, GrantFollows
  <2> QED BY <2>1, <2>2 DEF Granted, PageWithinGrant
<1>4. CASE rpc' # "reading" /\ page' = NoPage
  BY <1>4 DEF Granted, PageWithinGrant, NoPage
<1> QED BY <1>1, <1>2, <1>3, <1>4, PagesMove

\* What a page shows was granted when its request began, at all times.
LEMMA GrantedAlways == Spec => []Granted
<1>1. Init => Granted
  BY DEF Init, Granted, PageWithinGrant, NoPage
<1> QED BY <1>1, GrantedStep, InvAlways, PTL DEF Spec

\* A page shows only rows that the policies granted to the principal when the
\* page's own request began, for every set of principals, policies and pages.
THEOREM PagesWithinGrant == Spec => []PageWithinGrant
<1>1. Granted => PageWithinGrant
  BY DEF Granted
<1> QED BY <1>1, GrantedAlways, PTL

(***************************************************************************)
(* The lower bound                                                         *)
(*                                                                         *)
(* created_at is compared with the caller's own text, whose digits are     *)
(* local time.  An offset that is not behind UTC never shows too much; one *)
(* that is not ahead of it never hides too much.                           *)
(***************************************************************************)

OffsetsNotBehind == \A f \in Froms : f # NoTime => f.offset >= 0
OffsetsNotAhead == \A f \in Froms : f # NoTime => f.offset <= 0

\* How the bound in the SQL compares with the one the page has to respect.
LEMMA BoundsCompared ==
  ASSUME Planned, rpc = "reading"
  PROVE  /\ plan.query.from \in Int /\ Least \in Int
         /\ OffsetsNotBehind => plan.query.from >= Least
         /\ OffsetsNotAhead => plan.query.from <= Least
<1> DEFINE cutoff == plan.at - Retention[asked.kind]
<1>1. plan.at \in Int /\ asked.kind \in Kinds /\ asked.from \in Froms
  BY DEF Planned, Request
<1>2. cutoff \in Int
  BY <1>1, QueryAssumption
<1>3. plan.query.from = IF asked.from = NoTime \/ asked.from.instant < cutoff THEN cutoff
                        ELSE asked.from.instant + asked.from.offset
  BY DEF Planned, FromAt
<1>4. Least = IF asked.from = NoTime \/ asked.from.instant < cutoff THEN cutoff
              ELSE asked.from.instant
  BY DEF Least
<1>5. asked.from # NoTime => asked.from.instant \in Int /\ asked.from.offset \in Int
  BY <1>1, QueryAssumption
<1> HIDE DEF cutoff
<1> QED BY <1>1, <1>2, <1>3, <1>4, <1>5 DEF OffsetsNotBehind, OffsetsNotAhead

\* When no caller's created_from has a negative offset, no page shows an event
\* older than the retention of its class or than created_from.  (Run
\* QueryOffset shows that the condition is needed.)
THEOREM BoundIsKept == OffsetsNotBehind => (Spec => []LowerBoundKept)
<1> SUFFICES ASSUME OffsetsNotBehind PROVE Spec => []LowerBoundKept
  OBVIOUS
<1>1. Init => LowerBoundKept
  BY DEF Init, NoPage, LowerBoundKept
<1>2. Inv /\ LowerBoundKept /\ [Next]_vars => LowerBoundKept'
  <2> SUFFICES ASSUME Inv, LowerBoundKept, [Next]_vars PROVE LowerBoundKept'
    OBVIOUS
  <2>1. CASE page' = page
    BY <2>1 DEF LowerBoundKept
  <2>2. CASE page' = NoPage
    BY <2>2 DEF NoPage, LowerBoundKept
  <2>3. CASE ReadPage
    <3>1. rpc = "reading" /\ page'.items = Answer.items /\ page'.least = Least
      BY <2>3, ReadPageMeans
    <3>2. ASSUME NEW e \in Answer.items PROVE e.at >= Least
      <4>1. e \in events /\ e.at >= plan.query.from
        BY <3>1, AnswerMeans DEF Inv, Matching
      <4>2. e.at \in Int
        BY <4>1 DEF Inv, Typed, Event
      <4> QED BY <3>1, <4>1, <4>2, BoundsCompared DEF Inv
    <3> QED BY <3>1, <3>2 DEF LowerBoundKept
  <2>4. page' = page \/ page' = NoPage \/ ReadPage
    BY DEF Next, Host, Writer, Reader, Build, Commit, AppendFails, EraseSubject, StartWalk,
           BeginPage, PageDenied, PageFails, GiveUp, vars, walkVars
  <2> QED BY <2>1, <2>2, <2>3, <2>4
<1> QED BY <1>1, <1>2, InvAlways, PTL DEF Spec

(***************************************************************************)
(* Nothing is skipped                                                      *)
(***************************************************************************)

\* The host and the writers keep the keys of the rows, so what the walk owes
\* stays where it is.
LEMMA OwedKept ==
  ASSUME Ahead, WalkComplete, UNCHANGED walkVars,
         \A e \in events : \E g \in events' : g.id = e.id /\ g.at = e.at
  PROVE  Ahead' /\ WalkComplete'
<1>1. Ahead'
  <2>1. \A e \in events : \E g \in events' :
          g.id = e.id /\ (BeyondCursor(e, cursor) => BeyondCursor(g, cursor))
    BY DEF BeyondCursor, Below
  <2>2. /\ rpc' = rpc /\ owed' = owed /\ delivered' = delivered /\ cursor' = cursor
    BY DEF walkVars
  <2>3. rpc # "idle" =>
          \A id \in owed : \/ \E d \in delivered : d.id = id
                           \/ \E g \in events' : g.id = id /\ BeyondCursor(g, cursor)
    BY <2>1 DEF Ahead
  <2> QED BY <2>2, <2>3 DEF Ahead, BeyondCursor, Below
<1>2. WalkComplete'
  BY DEF WalkComplete, walkVars, PageSize
<1> QED BY <1>1, <1>2

\* A page delivers what the walk still owes, or leaves it beyond its cursor.
LEMMA OwedRead ==
  ASSUME OffsetsNotAhead, Inv, Granted, Ahead, ReadPage
  PROVE  Ahead' /\ WalkComplete'
<1>1. rpc = "reading"
  BY ReadPageMeans
<1>2. ASSUME NEW id \in owed', ~\E d \in delivered : d.id = id
      PROVE  \E e \in Matching : e.id = id
  <2>1. PICK e \in events : /\ e.id = id /\ e.id \in owed /\ e.kind = asked.kind
                            /\ e.at >= Least
                            /\ auditEventDataScopePredicate(plan.scope, e)
    BY <1>1, ReadPageMeans DEF MaySee, Granted
  <2>2. PICK f \in events : f.id = id /\ BeyondCursor(f, cursor)
    BY <1>1, <1>2, <2>1 DEF Ahead
  <2>3. e = f
    BY <2>1, <2>2 DEF Inv, Keyed
  <2>4. e.at >= plan.query.from
    <3>1. e.at \in Int
      BY <2>1 DEF Inv, Typed, Event
    <3> QED BY <1>1, <2>1, <3>1, BoundsCompared DEF Inv
  <2>5. OfClass(e, plan.query.kind)
    BY <1>1, <2>1 DEF OfClass, Inv, Planned
  <2> QED BY <2>1, <2>2, <2>3, <2>4, <2>5 DEF Matching
<1>3. \A e \in Answer.items : \E d \in delivered' : d.id = e.id
  <2> SUFFICES ASSUME NEW e \in Answer.items PROVE \E d \in delivered' : d.id = e.id
    OBVIOUS
  <2> DEFINE key == [at |-> e.at, id |-> e.id]
  <2>1. key \in delivered' /\ key.id = e.id
    BY ReadPageMeans
  <2> QED BY <2>1
<1>4. delivered \subseteq delivered'
  BY ReadPageMeans
<1>5. CASE Answer.truncated
  <2>1. PICK last \in Answer.items :
          /\ Answer.next = [at |-> last.at, id |-> last.id]
          /\ \A e \in Matching : e \in Answer.items \/ Below(e, last)
    BY <1>1, <1>5, AnswerMeans DEF Inv
  <2>2. rpc' = "between" /\ cursor' = [at |-> last.at, id |-> last.id]
        /\ outcome' = outcome /\ events' = events
    BY <1>5, <2>1, ReadPageMeans DEF storeVars
  <2>3. ASSUME NEW id \in owed', ~\E d \in delivered' : d.id = id
        PROVE  \E e \in events : e.id = id /\ BeyondCursor(e, cursor')
    <3>1. PICK e \in Matching : e.id = id
      BY <1>2, <1>4, <2>3
    <3>2. e \notin Answer.items
      BY <1>3, <2>3, <3>1
    <3> QED BY <2>1, <2>2, <3>1, <3>2 DEF Matching, BeyondCursor, Below
  <2>4. Ahead'
    BY <2>2, <2>3 DEF Ahead, BeyondCursor, Below
  <2>5. outcome' # "complete"
    BY <1>1, <2>2 DEF Inv, Planned
  <2> QED BY <2>4, <2>5 DEF WalkComplete
<1>6. CASE ~Answer.truncated
  <2>1. /\ rpc' = "idle" /\ asked' = asked
        /\ page'.items = Answer.items
    BY <1>6, ReadPageMeans
  <2>2. ASSUME \/ asked.kind = "business"
               \/ Cardinality(Answer.items) < PageSize(asked.kind, asked.limit)
        PROVE  \A id \in owed' : \E d \in delivered' : d.id = id
    <3>1. Matching \subseteq Answer.items
      BY <1>1, <1>6, <2>2, AnswerMeans DEF Inv
    <3> QED BY <1>2, <1>3, <1>4, <3>1
  <2> QED BY <2>1, <2>2 DEF Ahead, WalkComplete, PageSize
<1> QED BY <1>5, <1>6


\* No step loses sight of an owed event that was not delivered.
LEMMA OwedStep ==
  ASSUME OffsetsNotAhead, Inv, Granted, Ahead, WalkComplete, [Next]_vars
  PROVE  Ahead' /\ WalkComplete'
<1>1. CASE UNCHANGED walkVars
  <2>1. \A e \in events : \E g \in events' : g.id = e.id /\ g.at = e.at
    <3>1. CASE events \subseteq events'
      BY <3>1
    <3>2. CASE \E a \in Identities : EraseSubject(a)
      <4>1. PICK a \in Identities : EraseSubject(a)
        BY <3>2
      <4>2. PICK f \in Surjection(events, events') :
              \A e \in events : f[e].id = e.id /\ f[e].at = e.at
        BY <4>1, ErasureMeans DEF Inv
      <4> QED BY <4>2 DEF Surjection
    <3>3. events \subseteq events' \/ \E a \in Identities : EraseSubject(a)
      BY DEF Next, Host, Writer, Reader, Build, Commit, AppendFails, StartWalk, BeginPage,
             PageDenied, PageFails, GiveUp, ReadPage, vars, storeVars
    <3> QED BY <3>1, <3>2, <3>3
  <2> QED BY <1>1, <2>1, OwedKept
<1>2. CASE \E k \in Kinds, l \in Limits, f \in Froms : StartWalk(k, l, f)
  BY <1>2 DEF StartWalk, storeVars, Ahead, WalkComplete, BeyondCursor
<1>3. CASE BeginPage
  <2>1. /\ rpc = "between" /\ outcome = "none" /\ outcome' = outcome
    BY <1>3 DEF BeginPage, Inv, Planned
  <2>2. UNCHANGED <<events, owed, delivered, cursor>>
    BY <1>3 DEF BeginPage, storeVars
  <2> QED BY <2>1, <2>2 DEF Ahead, WalkComplete, BeyondCursor, Below
<1>4. CASE PageDenied \/ PageFails
  BY <1>4 DEF PageDenied, PageFails, GiveUp, EndWalk, Ahead, WalkComplete
<1>5. CASE ReadPage
  BY <1>5, OwedRead
<1> QED
  BY <1>1, <1>2, <1>3, <1>4, <1>5
     DEF Next, Host, Writer, Reader, Build, Commit, AppendFails, EraseSubject, vars

\* When no caller's created_from is ahead of UTC, a walk that runs to its end
\* has delivered every event that was stored when it began and stayed in
\* reach, for any number of pages, of writers between them and of events at
\* one moment: the keyset continuation skips nothing.
THEOREM WalksAreComplete == OffsetsNotAhead => (Spec => []WalkComplete)
<1> SUFFICES ASSUME OffsetsNotAhead PROVE Spec => []WalkComplete
  OBVIOUS
<1>1. Init => Ahead /\ WalkComplete
  BY DEF Init, Ahead, WalkComplete
<1>2. Inv /\ Granted /\ Ahead /\ WalkComplete /\ [Next]_vars => Ahead' /\ WalkComplete'
  BY OwedStep
<1> QED BY <1>1, <1>2, InvAlways, GrantedAlways, PTL DEF Spec
=============================================================================
