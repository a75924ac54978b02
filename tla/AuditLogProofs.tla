--------------------------- MODULE AuditLogProofs ---------------------------
(***************************************************************************)
(* The event store implements the atomic log of AuditLog, for every value  *)
(* of the constants: with SQLite always, with either dialect as long as    *)
(* nobody erases.  What this needs beyond the invariant of                 *)
(* AuditEventStoreProofs is where an erasure stands: what its transaction  *)
(* sees is the table with the statements so far applied, and the table     *)
(* cannot move under it because it holds the write lock.                   *)
(***************************************************************************)
EXTENDS AuditEventStoreProofs

Sqlite == Dialect = "sqlite"

\* An erasure that has run a statement.
Started(q) == pc[q] \in {"anonymise", "commit"} \/ (pc[q] = "redact" /\ step[q] # 0)

\* The rows that the redacting statements of q so far have selected.
Reached(q, r) ==
  \/ IsActor(r, call[q].identity)
  \/ \E k \in 1..Len(call[q].resources) :
       (pc[q] = "redact" => k < step[q]) /\ r.rec = call[q].resources[k]

\* A row of the table as the statements of q so far leave it.
Stage(q, r) ==
  IF r = NoRow \/ ~Started(q) \/ ~Reached(q, r) THEN r
  ELSE IF pc[q] = "commit" /\ IsActor(r, call[q].identity) THEN Anonymise(Redact(r))
  ELSE Redact(r)

Erasing(q) ==
  pc[q] # "idle" =>
    /\ pc[q] = "redact" => step[q] \in 0..Len(call[q].resources)
    /\ tx[q] = IF Started(q) THEN "writing" ELSE "open"
    /\ \A i \in Ids : Visible(q)[i] = Stage(q, rows[i])

\* What a host transaction holds back are events that the host gave.
FromRequests ==
  \A p \in Appenders : \A i \in Ids :
    buf[p][i] # NoRow => \E e \in Requests : e.id = i /\ e.row = buf[p][i]

LogInv ==
  /\ Safe /\ Histories /\ FromRequests
  /\ Sqlite => \A q \in Erasers : Erasing(q)

-----------------------------------------------------------------------------
(* Where an erasure stands. *)

\* The statements of an erasure leave untouched what selects a row.
LEMMA ReachedRow ==
  ASSUME NEW r \in Row
  PROVE  /\ Redact(r) \in Row /\ Anonymise(Redact(r)) \in Row
         /\ Redact(Redact(r)) = Redact(r)
         /\ \A identity : IsActor(Redact(r), identity) <=> IsActor(r, identity)
         /\ Redact(r).rec = r.rec
         /\ NoRow \notin {r, Redact(r), Anonymise(Redact(r))}
BY RedactRow, AnonymiseRow, ErasureAlgebra, SentinelAssumption DEF IsActor

\* A transaction that has just begun sees the table as it is.
LEMMA BeginErasing ==
  ASSUME Safe, NEW q \in Erasers, NEW e \in Erasures, EraseSubjectResources(q, e)
  PROVE  Erasing(q)'
<1>0. TypeOK /\ q \in Goroutines
  BY DEF Safe, Typed, Goroutines
<1>1. /\ pc'[q] = "redact" /\ step'[q] = 0 /\ call'[q] = e /\ tx'[q] = "open"
      /\ rows' = rows /\ buf' = buf
  BY <1>0 DEF EraseSubjectResources, Safe, Idle, TypeOK
<1>2. \A i \in Ids : buf[q][i] = NoRow
  BY <1>0 DEF EraseSubjectResources, Safe, Idle, Held, Locks
<1>3. Len(e.resources) \in Nat
  BY ErasureAssumption
<1>4. \A i \in Ids : Visible(q)'[i] = rows'[i]
  BY <1>1, <1>2 DEF Visible, Overlay
<1> QED BY <1>1, <1>3, <1>4 DEF Erasing, Started, Stage

\* One redacting UPDATE brings what the eraser sees to the next stage.
LEMMA RedactErasing ==
  ASSUME Safe, NEW q \in Erasers, Erasing(q), RedactStatement(q)
  PROVE  Erasing(q)'
<1> DEFINE last == Len(call[q].resources)
           v == Visible(q)
<1>0. TypeOK /\ q \in Goroutines /\ pc[q] = "redact" /\ call[q] \in Erasures
  BY DEF Safe, Typed, CallsOK, Goroutines, RedactStatement
<1>1. last \in Nat /\ step[q] \in 0..last
  BY <1>0, ErasureAssumption DEF Erasing
<1>2. /\ rows' = rows /\ call' = call /\ tx'[q] = "writing"
      /\ buf' = [buf EXCEPT ![q] = [i \in Ids |->
           IF i \in RedactTargets(q) THEN Redact(v[i]) ELSE buf[q][i]]]
  BY <1>0, RedactEffect DEF RedactStatement, Advance, TypeOK
<1>3. \/ step[q] = last /\ pc'[q] = "anonymise" /\ step'[q] = step[q]
      \/ step[q] # last /\ pc'[q] = "redact" /\ step'[q] = step[q] + 1
  BY <1>0 DEF RedactStatement, Advance, TypeOK
<1>4. Started(q)' /\ (pc'[q] = "redact" => step'[q] \in 0..last) /\ pc'[q] # "commit"
  BY <1>1, <1>3 DEF Started
<1>5. \A i \in RedactTargets(q) : v[i] \in Row /\ Redact(v[i]) # NoRow
  BY <1>0, VisibleType, ReachedRow DEF RedactTargets, MaybeRow
<1>6. \A i \in Ids : Visible(q)'[i] = IF i \in RedactTargets(q) THEN Redact(v[i]) ELSE v[i]
  <2>1. \A i \in Ids :
          buf'[q][i] = IF i \in RedactTargets(q) THEN Redact(v[i]) ELSE buf[q][i]
    BY <1>0, <1>2 DEF TypeOK
  <2>2. \A i \in Ids : Visible(q)'[i] = IF buf'[q][i] # NoRow THEN buf'[q][i] ELSE rows[i]
    BY <1>2 DEF Visible, Overlay
  <2>3. \A i \in Ids : v[i] = IF buf[q][i] # NoRow THEN buf[q][i] ELSE rows[i]
    BY DEF Visible, Overlay
  <2> HIDE DEF v
  <2> QED BY <1>5, <2>1, <2>2, <2>3
<1>7. ASSUME NEW i \in Ids PROVE Visible(q)'[i] = Stage(q, rows[i])'
  <2> DEFINE r == rows[i]
  <2>1. r \in Row \/ r = NoRow
    BY <1>0 DEF TypeOK, MaybeRow
  <2>2. v[i] = IF r = NoRow \/ ~Started(q) \/ ~Reached(q, r) THEN r ELSE Redact(r)
    BY <1>0 DEF Erasing, Stage
  <2>3. CASE r = NoRow
    BY <1>2, <1>6, <2>2, <2>3 DEF Stage, RedactTargets
  <2>4. CASE r \in Row
    <3>1. IsActor(v[i], call[q].identity) <=> IsActor(r, call[q].identity)
      BY <2>2, <2>4, ReachedRow
    <3>2. v[i].rec = r.rec /\ v[i] # NoRow /\ Redact(v[i]) = Redact(r)
      BY <2>2, <2>4, ReachedRow
    <3>3. i \in RedactTargets(q) <=> Predicate(q, v[i])
      BY <3>2 DEF RedactTargets
    <3>4. Predicate(q, v[i]) <=> IF step[q] = 0 THEN IsActor(r, call[q].identity)
                                 ELSE r.rec = call[q].resources[step[q]]
      BY <3>1, <3>2 DEF Predicate
    <3>5. Reached(q, r)' <=> \/ IsActor(r, call[q].identity)
                             \/ \E k \in 1..last : k <= step[q] /\ r.rec = call[q].resources[k]
      BY <1>1, <1>2, <1>3 DEF Reached, IsActor
    <3>6. Reached(q, r) /\ Started(q) <=>
            /\ step[q] # 0
            /\ \/ IsActor(r, call[q].identity)
               \/ \E k \in 1..last : k < step[q] /\ r.rec = call[q].resources[k]
      BY <1>0 DEF Reached, Started
    <3>7. Reached(q, r)' <=> (Reached(q, r) /\ Started(q)) \/ Predicate(q, v[i])
      <4>1. CASE step[q] = 0
        BY <1>1, <3>4, <3>5, <3>6, <4>1
      <4>2. CASE step[q] # 0
        BY <1>1, <3>4, <3>5, <3>6, <4>2
      <4> QED BY <4>1, <4>2
    <3>8. r # NoRow
      BY <2>4, SentinelAssumption
    <3>9. Stage(q, rows[i])' = IF Reached(q, r)' THEN Redact(r) ELSE r
      BY <1>2, <1>4, <3>8 DEF Stage, Redact
    <3> HIDE DEF v, r
    <3> QED BY <1>6, <2>2, <3>2, <3>3, <3>7, <3>8, <3>9
  <2> QED BY <2>1, <2>3, <2>4
<1> QED BY <1>2, <1>4, <1>7 DEF Erasing

\* The anonymising UPDATE brings what the eraser sees to the last stage.
LEMMA AnonymiseErasing ==
  ASSUME Safe, NEW q \in Erasers, Erasing(q), AnonymiseStatement(q)
  PROVE  Erasing(q)'
<1> DEFINE v == Visible(q)
<1>0. TypeOK /\ q \in Goroutines /\ pc[q] = "anonymise"
  BY DEF Safe, Typed, Goroutines, AnonymiseStatement
<1>1. /\ rows' = rows /\ call' = call /\ tx'[q] = "writing" /\ pc'[q] = "commit"
      /\ buf' = [buf EXCEPT ![q] = [i \in Ids |->
           IF i \in AnonymiseTargets(q) THEN Anonymise(v[i]) ELSE buf[q][i]]]
  BY <1>0, AnonymiseEffect DEF AnonymiseStatement, TypeOK
<1>2. \A i \in AnonymiseTargets(q) : v[i] \in Row /\ Anonymise(v[i]) # NoRow
  BY <1>0, VisibleType, AnonymiseRow, SentinelAssumption DEF AnonymiseTargets, MaybeRow
<1>3. \A i \in Ids : Visible(q)'[i] = IF i \in AnonymiseTargets(q) THEN Anonymise(v[i]) ELSE v[i]
  <2>1. \A i \in Ids :
          buf'[q][i] = IF i \in AnonymiseTargets(q) THEN Anonymise(v[i]) ELSE buf[q][i]
    BY <1>0, <1>1 DEF TypeOK
  <2>2. \A i \in Ids : Visible(q)'[i] = IF buf'[q][i] # NoRow THEN buf'[q][i] ELSE rows[i]
    BY <1>1 DEF Visible, Overlay
  <2>3. \A i \in Ids : v[i] = IF buf[q][i] # NoRow THEN buf[q][i] ELSE rows[i]
    BY DEF Visible, Overlay
  <2> HIDE DEF v
  <2> QED BY <1>2, <2>1, <2>2, <2>3
<1>4. ASSUME NEW i \in Ids PROVE Visible(q)'[i] = Stage(q, rows[i])'
  <2> DEFINE r == rows[i]
  <2>1. r \in Row \/ r = NoRow
    BY <1>0 DEF TypeOK, MaybeRow
  <2>2. v[i] = IF r = NoRow \/ ~Reached(q, r) THEN r ELSE Redact(r)
    BY <1>0 DEF Erasing, Stage, Started
  <2>3. CASE r = NoRow
    BY <1>1, <1>3, <2>2, <2>3 DEF Stage, AnonymiseTargets
  <2>4. CASE r \in Row
    <3>1. r # NoRow
      BY <2>4, SentinelAssumption
    <3>2. IsActor(v[i], call[q].identity) <=> IsActor(r, call[q].identity)
      BY <2>2, <2>4, ReachedRow
    <3>3. v[i] # NoRow
      BY <2>2, <2>4, ReachedRow
    <3>4. i \in AnonymiseTargets(q) <=> IsActor(r, call[q].identity)
      BY <3>2, <3>3 DEF AnonymiseTargets
    <3>5. Reached(q, r)' <=> Reached(q, r)
      BY <1>0, <1>1 DEF Reached, IsActor
    <3>6. IsActor(r, call[q].identity) => Reached(q, r)
      BY DEF Reached
    <3>7. Stage(q, rows[i])' = IF ~Reached(q, r) THEN r
                               ELSE IF IsActor(r, call[q].identity) THEN Anonymise(Redact(r))
                               ELSE Redact(r)
      BY <1>1, <3>1, <3>5 DEF Stage, Started, Redact, Anonymise, IsActor
    <3> HIDE DEF v, r
    <3> QED BY <1>3, <2>2, <3>1, <3>4, <3>6, <3>7
  <2> QED BY <2>1, <2>3, <2>4
<1> QED BY <1>0, <1>1, <1>4 DEF Erasing, Started

\* Nobody moves the table under an eraser that has written, and one that has
\* not written sees the table as it is.
LEMMA OthersErasing ==
  ASSUME Safe, Sqlite, [Next]_vars, NEW q \in Erasers, Erasing(q), ~EraseNext(q)
  PROVE  Erasing(q)'
<1>0. TypeOK /\ q \in Goroutines /\ Safe'
  BY SafeStep DEF Safe, Typed, Goroutines
<1>1. /\ tx'[q] = tx[q] /\ buf'[q] = buf[q]
      /\ pc'[q] = pc[q] /\ call'[q] = call[q] /\ step'[q] = step[q]
      /\ tx[q] = "writing" => rows' = rows
  BY OthersStep DEF Sqlite
<1>2. CASE pc[q] = "idle"
  BY <1>1, <1>2 DEF Erasing
<1>3. CASE pc[q] # "idle" /\ Started(q)
  <2>1. rows' = rows
    BY <1>1, <1>3 DEF Erasing
  <2>2. \A i \in Ids : Visible(q)'[i] = Visible(q)[i]
    BY <1>1, <2>1 DEF Visible, Overlay
  <2>3. \A i \in Ids : Stage(q, rows[i])' = Stage(q, rows[i])
    BY <1>1, <2>1 DEF Stage, Started, Reached, IsActor, Anonymise, Redact
  <2>4. Started(q)' /\ tx'[q] = "writing"
    BY <1>1, <1>3 DEF Started, Erasing
  <2> QED BY <1>1, <1>3, <2>2, <2>3, <2>4 DEF Erasing
<1>4. CASE pc[q] # "idle" /\ ~Started(q)
  <2>1. tx'[q] = "open" /\ ~Started(q)'
    BY <1>1, <1>4 DEF Started, Erasing
  <2>2. \A i \in Ids : buf'[q][i] = NoRow
    BY <1>0, <2>1 DEF Safe, Held, Locks
  <2>3. \A i \in Ids : Visible(q)'[i] = rows'[i]
    BY <2>2 DEF Visible, Overlay
  <2> QED BY <1>1, <1>4, <2>1, <2>3 DEF Erasing, Stage
<1> QED BY <1>2, <1>3, <1>4

\* Every step keeps an erasure where its statements have brought it.
LEMMA ErasingStep ==
  ASSUME Safe, Sqlite, [Next]_vars, NEW q \in Erasers, Erasing(q)
  PROVE  Erasing(q)'
<1>1. CASE ~EraseNext(q)
  BY <1>1, OthersErasing
<1>2. CASE \E e \in Erasures : EraseSubjectResources(q, e)
  BY <1>2, BeginErasing
<1>3. CASE RedactStatement(q)
  BY <1>3, RedactErasing
<1>4. CASE AnonymiseStatement(q)
  BY <1>4, AnonymiseErasing
<1>5. CASE CommitErase(q) \/ EraseFails(q)
  <2>1. pc'[q] = "idle"
    BY <1>5 DEF CommitErase, EraseFails, EndErase, Return, Safe, Typed, TypeOK, Goroutines
  <2> QED BY <2>1 DEF Erasing
<1> QED BY <1>1, <1>2, <1>3, <1>4, <1>5 DEF EraseNext

-----------------------------------------------------------------------------
(* The invariant. *)

\* What a step adds to what a host transaction holds back is its own call.
LEMMA FromRequestsStep ==
  ASSUME Safe, FromRequests, [Next]_vars
  PROVE  FromRequests'
<1>0. /\ Typed /\ Held /\ TypeOK
      /\ Appenders \subseteq Goroutines /\ Appenders \cap Erasers = {}
  BY SentinelAssumption DEF Safe, Typed, Goroutines
<1>1. ASSUME NEW p \in Appenders, NEW i \in Ids, buf'[p][i] # NoRow
      PROVE  \/ buf'[p][i] = buf[p][i]
             \/ InsertStores(p) /\ i = call[p].id /\ buf'[p][i] = call[p].row
  <2>1. ASSUME NEW o \in Appenders, InsertStores(o)
        PROVE  \/ buf'[p][i] = buf[p][i]
               \/ InsertStores(p) /\ i = call[p].id /\ buf'[p][i] = call[p].row
    BY <1>0, <2>1 DEF InsertStores, StoreRow, TypeOK
  <2>2. ASSUME NEW o \in Appenders, AppendNext(o) \/ HostTxNext(o), ~InsertStores(o)
        PROVE  buf'[p][i] = buf[p][i]
    BY <1>0, <1>1, <2>2 DEF AppendNext, HostTxNext, AppendPrepared, AppendPreparedWithin,
         StartInsert, InsertLosesAnswer, InsertDuplicate, InsertFails,
         LookupMatches, LookupDiffers, LookupFails, StatementFails, BeginHostTx,
         CommitHostTx, RollbackHostTx, TypeOK, Empty
  <2>3. ASSUME NEW q \in Erasers, EraseNext(q) PROVE buf'[p][i] = buf[p][i]
    BY <1>0, <2>3 DEF EraseNext, EraseSubjectResources, RedactStatement, Advance,
         AnonymiseStatement, Update, CommitErase, EraseFails, EndErase, TypeOK
  <2>4. CASE UNCHANGED vars
    BY <2>4 DEF vars
  <2> QED BY <2>1, <2>2, <2>3, <2>4 DEF Next
<1>2. ASSUME NEW p \in Appenders, InsertStores(p) PROVE call[p] \in Requests
  BY <1>0, <1>2 DEF InsertStores, CanWrite, Typed, CallsOK
<1> QED BY <1>1, <1>2 DEF FromRequests

\* Nothing is stored, told or under way at first.
LEMMA LogInit == Init => LogInv
<1> SUFFICES ASSUME Init PROVE LogInv
  OBVIOUS
<1>1. Histories
  BY DEF Init, Histories, ToldOK, AckedRecorded
<1>2. FromRequests
  BY DEF Init, Empty, FromRequests, Goroutines
<1>3. \A q \in Erasers : Erasing(q)
  BY DEF Init, Erasing, Goroutines
<1> QED BY <1>1, <1>2, <1>3, SafeInit DEF LogInv

\* Every step of the store keeps the invariant, by its four parts.
LEMMA LogStep == LogInv /\ [Next]_vars => LogInv'
<1> SUFFICES ASSUME LogInv, [Next]_vars PROVE LogInv'
  OBVIOUS
<1>1. Safe' /\ Histories' /\ FromRequests'
  BY SafeStep, HistoriesStep, FromRequestsStep DEF LogInv
<1>2. Sqlite => \A q \in Erasers : Erasing(q)'
  BY ErasingStep DEF LogInv
<1> QED BY <1>1, <1>2 DEF LogInv, Sqlite

\* In every state of every behaviour, what an erasure's transaction sees under
\* SQLite is the table after the UPDATEs of EraseSubjectResources it has run.
THEOREM LogInvAlways == Spec => []LogInv
BY LogInit, LogStep, PTL DEF Spec

-----------------------------------------------------------------------------
(* What an erasure and a retry are answered. *)

\* A row after a whole erasure with the call e.
ErasedBy(r, e) ==
  IF r = NoRow THEN NoRow
  ELSE IF IsActor(r, e.identity) THEN Anonymise(Redact(r))
  ELSE IF \E k \in 1..Len(e.resources) : r.rec = e.resources[k] THEN Redact(r)
  ELSE r

\* With SQLite a committed erasure is the whole of it, on every row.
LEMMA CommitIsWhole ==
  ASSUME LogInv, Sqlite, NEW q \in Erasers, CommitErase(q)
  PROVE  rows' = [i \in Ids |-> ErasedBy(rows[i], call[q])]
<1>1. Erasing(q) /\ pc[q] = "commit"
  BY DEF LogInv, CommitErase
<1>2. \A i \in Ids : Visible(q)[i] = ErasedBy(rows[i], call[q])
  BY <1>1 DEF Erasing, Started, Stage, Reached, ErasedBy
<1>3. rows' = [i \in Ids |-> Visible(q)[i]]
  BY DEF CommitErase, Visible, Overlay
<1> QED BY <1>2, <1>3

\* A committed row never names the subject of an erasure that has reported
\* success since, and no row of a declared record keeps its snapshots
\* (subject_lifecycle.go EraseSubjectResources), with any number of resources,
\* rows, appenders and other erasures under way.
THEOREM ErasuresAreComplete == Sqlite => (Spec => EraseComplete)
<1> SUFFICES ASSUME Sqlite PROVE Spec => EraseComplete
  OBVIOUS
<1>1. ASSUME LogInv, NEW q \in Erasers, CommitErase(q), NEW i \in Ids, rows'[i] # NoRow
      PROVE  /\ ~IsActor(rows'[i], call[q].identity)
             /\ (\E k \in 1..Len(call[q].resources) :
                   rows'[i].rec = call[q].resources[k]) => rows'[i].body = Erased
  <2>1. rows'[i] = ErasedBy(rows[i], call[q])
    BY <1>1, CommitIsWhole
  <2>2. rows[i] \in Row
    BY <1>1, <2>1 DEF ErasedBy, LogInv, Safe, Typed, TypeOK, MaybeRow
  <2>3. rows[i] # NoRow
    BY <2>2, SentinelAssumption
  <2> DEFINE r == rows[i]
             x == Redact(r)
  <2>4. x \in Row /\ x.body = Erased /\ x.rec = r.rec
        /\ (IsActor(x, call[q].identity) <=> IsActor(r, call[q].identity))
    BY <2>2, RedactRow, ReachedRow
  <2>5. Anonymise(x).anon /\ Anonymise(x).body = Erased
    BY <2>4, AnonymiseRow
  <2> HIDE DEF x
  <2>6. x = Redact(r)
    BY DEF x
  <2> QED BY <2>1, <2>3, <2>4, <2>5, <2>6 DEF ErasedBy, IsActor
<1>2. LogInv /\ [Next]_vars =>
        [\A q \in Erasers :
           CommitErase(q) =>
             \A i \in Ids : rows'[i] # NoRow =>
               /\ ~IsActor(rows'[i], call[q].identity)
               /\ (\E k \in 1..Len(call[q].resources) :
                     rows'[i].rec = call[q].resources[k]) => rows'[i].body = Erased]_vars
  BY <1>1
<1> QED BY <1>2, LogInvAlways, PTL DEF Spec, EraseComplete

\* The columns give back the documents that were inserted.
TextKept == Sqlite \/ \A e \in Requests : e.row.body \in PlainBodies

\* Where documents come back as inserted, with either dialect, an exact retry
\* of an acknowledged event is never told that it conflicts, unless an erasure
\* took away what it is compared with (store.go insert): nothing else that an
\* append, a host transaction or a failure does can make the stored row differ.
\* Run EventStorePostgresReplay shows that reformatted JSONB does.
THEOREM RetriesAreRecognised == TextKept => (Spec => ExactReplayAccepted)
<1> SUFFICES ASSUME TextKept PROVE Spec => ExactReplayAccepted
  OBVIOUS
<1>1. ASSUME LogInv, NEW p \in Appenders, LookupDiffers(p), call[p] \in acked \cup told[p]
      PROVE  Visible(p)[call[p].id].anon \/ Visible(p)[call[p].id].body = Erased
  <2> DEFINE s == Visible(p)[call[p].id]
             g == call[p].row
  <2>1. call[p] \in Requests /\ call[p].id \in Ids
    BY <1>1, RequestAssumption
       DEF LogInv, Safe, Typed, CallsOK, LookupDiffers, CanLookUp
  <2>2. s # NoRow /\ ~SameStored(s, g)
    BY <1>1 DEF LookupDiffers, CanLookUp
  <2>3. Keeps(s, g)
    <3>1. CASE call[p] \in told[p]
      BY <1>1, <3>1 DEF LogInv, Histories, ToldOK
    <3>2. CASE call[p] \in acked
      <4>1. rows[call[p].id] # NoRow /\ Keeps(rows[call[p].id], g)
        BY <1>1, <3>2 DEF LogInv, Histories, AckedRecorded
      <4>2. buf[p][call[p].id] = NoRow
        BY <1>1, <2>1, <4>1 DEF LogInv, Safe, Held, Buffers
      <4>3. s = rows[call[p].id]
        BY <2>1, <4>2 DEF Visible, Overlay
      <4> QED BY <4>1, <4>3
    <3> QED BY <1>1, <3>1, <3>2
  <2> HIDE DEF s, g
  <2>4. s.anon \/ s.body = Erased
    BY <2>1, <2>2, <2>3 DEF Keeps, RecordsIt, SameStored, SameText, TextKept, Sqlite, g
  <2> QED BY <2>4 DEF s
<1>2. LogInv /\ [Next]_vars =>
        [\A p \in Appenders :
           LookupDiffers(p) /\ call[p] \in acked \cup told[p] =>
             \/ Visible(p)[call[p].id].anon
             \/ Visible(p)[call[p].id].body = Erased]_vars
  BY <1>1
<1> QED BY <1>2, LogInvAlways, PTL DEF Spec, ExactReplayAccepted

-----------------------------------------------------------------------------
(* The store implements the log. *)

\* A row that keeps what was given says it.
LEMMA KeepsSays ==
  ASSUME NEW r, NEW g, r # NoRow, Keeps(r, g)
  PROVE  Log!Says(r, g)
BY DEF Keeps, RecordsIt, Log!Says

\* A whole erasure is the erasure of the log.
LEMMA ErasedByIs ==
  ASSUME NEW r \in MaybeRow, NEW e
  PROVE  ErasedBy(r, e) = Log!AfterErasure(r, e)
<1>1. CASE r = NoRow
  BY <1>1 DEF ErasedBy, Log!AfterErasure
<1>2. CASE r \in Row
  <2>1. Anonymise(Redact(r)) = [r EXCEPT !.body = Erased, !.anon = TRUE, !.role = NoRole]
    BY <1>2 DEF Redact, Anonymise, Row
  <2>2. Redact(r) = [r EXCEPT !.body = Erased]
    BY DEF Redact
  <2>3. IsActor(r, e.identity) <=> r.actor = e.identity /\ ~r.anon
    BY DEF IsActor
  <2> QED BY <1>2, <2>1, <2>2, <2>3 DEF ErasedBy, Log!AfterErasure
<1> QED BY <1>1, <1>2 DEF MaybeRow

\* An INSERT outside a transaction is an append of its event, acknowledged or
\* not.
LEMMA StoreNowAppends ==
  ASSUME LogInv, NEW p \in Appenders, StoreNow(p), call[p] \in Requests,
         acked' \in {acked, acked \cup {call[p]}}
  PROVE  \E new, acks \in SUBSET Requests : Log!AppendEvents(new, acks)
<1> DEFINE e == call[p]
           new == {e}
<1>0. TypeOK /\ e.id \in Ids
  BY RequestAssumption DEF LogInv, Safe, Typed
<1>1. rows[e.id] = NoRow /\ rows' = [rows EXCEPT ![e.id] = e.row] /\ e.row # NoRow
  BY SentinelAssumption DEF StoreNow
<1>2. rows' = [i \in Ids |-> IF \E f \in new : f.id = i
                             THEN (CHOOSE f \in new : f.id = i).row ELSE rows[i]]
  <2>1. \A i \in Ids : rows'[i] = IF \E f \in new : f.id = i
                                  THEN (CHOOSE f \in new : f.id = i).row ELSE rows[i]
    BY <1>0, <1>1 DEF TypeOK
  <2>2. rows' = [i \in Ids |-> rows'[i]]
    BY <1>0, <1>1 DEF TypeOK
  <2> HIDE DEF new
  <2> QED BY <2>1, <2>2
<1>3. Log!Says(rows'[e.id], e.row)
  BY <1>0, <1>1 DEF Log!Says, TypeOK
<1>4. PICK t \in {{}, {e}} : acked' = acked \cup t
  OBVIOUS
<1>5. Log!AppendEvents(new, t)
  BY <1>1, <1>2, <1>3, <1>4 DEF Log!AppendEvents
<1> QED BY <1>4, <1>5

\* A retry that is recognised outside a transaction appends nothing and
\* acknowledges an event that the log records.
LEMMA MatchAcknowledges ==
  ASSUME LogInv, NEW p \in Appenders, LookupMatches(p), tx[p] = "none"
  PROVE  \E new, acks \in SUBSET Requests : Log!AppendEvents(new, acks)
<1> DEFINE e == call[p]
<1>0. TypeOK /\ e \in Requests /\ e.id \in Ids /\ p \in Goroutines
  BY RequestAssumption
     DEF LogInv, Safe, Typed, CallsOK, LookupMatches, CanLookUp, Goroutines
<1>1. rows' = rows /\ acked' = acked \cup {e}
  BY DEF LookupMatches, Acknowledge
<1>2. buf[p][e.id] = NoRow
  BY <1>0 DEF LogInv, Safe, Held, Locks
<1>3. rows[e.id] # NoRow /\ SameStored(rows[e.id], e.row)
  BY <1>0, <1>2 DEF LookupMatches, CanLookUp, Visible, Overlay
<1>4. Log!Says(rows'[e.id], e.row)
  BY <1>1, <1>3, SameStoredRecords, KeepsSays
<1>5. rows' = [i \in Ids |-> IF \E f \in {} : f.id = i
                             THEN (CHOOSE f \in {} : f.id = i).row ELSE rows[i]]
  BY <1>0, <1>1 DEF TypeOK
<1>6. Log!AppendEvents({}, {e})
  BY <1>1, <1>4, <1>5 DEF Log!AppendEvents
<1> QED BY <1>0, <1>6

\* The commit of a host transaction appends all that it held back and
\* acknowledges all that it was told.
LEMMA CommitAppends ==
  ASSUME LogInv, NEW p \in Appenders, CommitHostTx(p)
  PROVE  \E new, acks \in SUBSET Requests : Log!AppendEvents(new, acks)
<1> DEFINE ids == {i \in Ids : buf[p][i] # NoRow}
           event(i) == CHOOSE e \in Requests : e.id = i /\ e.row = buf[p][i]
           new == {event(i) : i \in ids}
<1>0. TypeOK /\ Held /\ told[p] \in SUBSET Requests
  BY DEF LogInv, Safe, Typed, TypeOK
<1>1. \A i \in ids : event(i) \in Requests /\ event(i).id = i /\ event(i).row = buf[p][i]
  BY DEF LogInv, FromRequests
<1>2. rows' = [i \in Ids |-> IF buf[p][i] # NoRow THEN buf[p][i] ELSE rows[i]]
  BY DEF CommitHostTx, Visible, Overlay
<1> HIDE DEF event
<1>3. new \in SUBSET Requests
  BY <1>1
<1>4. \A e \in new : rows[e.id] = NoRow
  BY <1>0, <1>1 DEF Held, Buffers
<1>5. \A e, f \in new : e.id = f.id => e = f
  BY <1>1
<1>6. ASSUME NEW i \in Ids
      PROVE  (IF buf[p][i] # NoRow THEN buf[p][i] ELSE rows[i])
               = IF \E e \in new : e.id = i THEN (CHOOSE e \in new : e.id = i).row ELSE rows[i]
  <2>1. CASE i \in ids
    <3>1. event(i) \in new /\ event(i).id = i
      BY <1>1, <2>1
    <3>2. (CHOOSE e \in new : e.id = i) = event(i)
      <4> HIDE DEF new
      <4> QED BY <1>5, <3>1
    <3> QED BY <1>1, <2>1, <3>1, <3>2
  <2>2. CASE i \notin ids
    BY <1>1, <2>2
  <2> QED BY <2>1, <2>2
<1>7. rows' = [i \in Ids |-> IF \E e \in new : e.id = i
                             THEN (CHOOSE e \in new : e.id = i).row ELSE rows[i]]
  <2> HIDE DEF new
  <2> QED BY <1>2, <1>6
<1>8. \A e \in told[p] : Log!Says(rows'[e.id], e.row)
  <2>1. \A e \in told[p] : Visible(p)[e.id] # NoRow /\ Keeps(Visible(p)[e.id], e.row)
    BY DEF LogInv, Histories, ToldOK
  <2> QED BY <2>1, KeepsSays DEF CommitHostTx
<1>9. acked' = acked \cup told[p]
  BY DEF CommitHostTx
<1>10. Log!AppendEvents(new, told[p])
  <2> HIDE DEF new
  <2> QED BY <1>4, <1>5, <1>7, <1>8, <1>9 DEF Log!AppendEvents
<1> QED BY <1>0, <1>3, <1>10

\* With SQLite, or without erasures, every step of the store is a step of the
\* log, or none.
LEMMA StepImplements ==
  ASSUME LogInv, Sqlite \/ Erasers = {}, [Next]_vars
  PROVE  [Log!Next]_<<rows, acked>>
<1> DEFINE Step == [Log!Next]_<<rows, acked>>
<1> SUFFICES Step
  OBVIOUS
<1>0. Typed /\ Held /\ TypeOK
  BY DEF LogInv, Safe, Typed
<1>1. ASSUME \E new, acks \in SUBSET Requests : Log!AppendEvents(new, acks) PROVE Step
  BY <1>1 DEF Log!Next
<1>2. CASE UNCHANGED <<rows, acked>>
  BY <1>2
<1>3. ASSUME NEW p \in Appenders, InsertStores(p) PROVE Step
  <2>1. call[p] \in Requests
    BY <1>0, <1>3 DEF InsertStores, CanWrite, Typed, CallsOK
  <2>2. acked' = acked \/ acked' = acked \cup {call[p]}
    BY <1>3 DEF InsertStores, StoreRow, Acknowledge
  <2>3. CASE StoreNow(p)
    BY <1>1, <2>1, <2>2, <2>3, StoreNowAppends
  <2>4. CASE StoreHeld(p)
    <3>1. buf' # buf
      BY <1>0, <2>4, SentinelAssumption DEF StoreHeld, TypeOK, Goroutines
    <3>2. tx[p] # "none"
      BY <1>3, <3>1 DEF InsertStores, StoreRow
    <3>3. UNCHANGED <<rows, acked>>
      BY <1>3, <3>2 DEF InsertStores, StoreRow, Acknowledge
    <3> QED BY <3>3
  <2> QED BY <1>0, <1>3, <2>3, <2>4, InsertShape
<1>4. ASSUME NEW p \in Appenders, InsertLosesAnswer(p) PROVE Step
  <2>1. call[p] \in Requests /\ acked' = acked
    BY <1>0, <1>4 DEF InsertLosesAnswer, CanWrite, Typed, CallsOK
  <2> QED BY <1>0, <1>1, <1>4, <2>1, LostAnswerShape, StoreNowAppends
<1>5. ASSUME NEW p \in Appenders, LookupMatches(p) PROVE Step
  <2>1. CASE tx[p] = "none"
    BY <1>1, <1>5, <2>1, MatchAcknowledges
  <2>2. CASE tx[p] # "none"
    BY <1>5, <2>2 DEF LookupMatches, Acknowledge
  <2> QED BY <2>1, <2>2
<1>6. ASSUME NEW p \in Appenders, CommitHostTx(p) PROVE Step
  BY <1>1, <1>6, CommitAppends
<1>7. ASSUME NEW q \in Erasers, CommitErase(q) PROVE Step
  <2>1. call[q] \in Erasures
    BY <1>0, <1>7 DEF CommitErase, Typed, CallsOK
  <2>2. rows' = [i \in Ids |-> ErasedBy(rows[i], call[q])]
    BY <1>7, CommitIsWhole
  <2>3. \A i \in Ids : ErasedBy(rows[i], call[q]) = Log!AfterErasure(rows[i], call[q])
    BY <1>0, ErasedByIs DEF TypeOK
  <2>4. rows' = [i \in Ids |-> Log!AfterErasure(rows[i], call[q])]
    BY <2>2, <2>3
  <2>5. acked' = acked
    BY <1>7 DEF CommitErase, EndErase
  <2>6. Log!EraseSubject(call[q])
    BY <2>4, <2>5 DEF Log!EraseSubject
  <2> QED BY <2>1, <2>6 DEF Log!Next
<1>8. \/ UNCHANGED <<rows, acked>>
      \/ \E p \in Appenders : \/ InsertStores(p) \/ InsertLosesAnswer(p)
                              \/ LookupMatches(p) \/ CommitHostTx(p)
      \/ \E q \in Erasers : CommitErase(q)
  BY DEF Next, AppendNext, HostTxNext, EraseNext, AppendPrepared, AppendPreparedWithin,
       StartInsert, InsertDuplicate, InsertFails, LookupDiffers, LookupFails, BeginHostTx,
       RollbackHostTx, EraseSubjectResources, RedactStatement, Advance, AnonymiseStatement,
       EraseFails, EndErase, vars
<1> QED BY <1>2, <1>3, <1>4, <1>5, <1>6, <1>7, <1>8

\* With SQLite the store is the atomic log, for any number of events,
\* resources, hosts with their own transactions, retries after lost answers
\* and erasures: whoever reads committed rows sees each append and each erasure
\* happen at once and whole, or not at all.  With PostgreSQL it is the log as
\* long as no subject is erased: what breaks it is only that an event may be
\* committed between the statements of an erasure.
THEOREM StoreImplementsLog == Sqlite \/ Erasers = {} => (Spec => ImplementsAuditLog)
<1> SUFFICES ASSUME Sqlite \/ Erasers = {} PROVE Spec => ImplementsAuditLog
  OBVIOUS
<1>1. Init => Log!Init
  BY DEF Init, Empty, Log!Init
<1>2. LogInv /\ [Next]_vars => [Log!Next]_<<rows, acked>>
  BY StepImplements
<1> QED BY <1>1, <1>2, LogInvAlways, PTL DEF Spec, ImplementsAuditLog, Log!Spec
=============================================================================
