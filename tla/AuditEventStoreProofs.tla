----------------------- MODULE AuditEventStoreProofs -----------------------
(* Theorems about AuditEventStore, for every value of its constants. *)
EXTENDS AuditEventStore, TLAPS

-----------------------------------------------------------------------------
(* What the operators return. *)

\* Reading a table through a transaction's writes gives a table.
LEMMA OverlayType ==
  ASSUME NEW t \in [Ids -> MaybeRow], NEW b \in [Ids -> MaybeRow]
  PROVE  Overlay(t, b) \in [Ids -> MaybeRow]
BY DEF Overlay

\* An empty buffer is a table.
LEMMA EmptyType == Empty \in [Ids -> MaybeRow]
BY DEF Empty, MaybeRow

\* Erasure keeps every column of a row in its range, and the two statements
\* of an erasure touch the columns they name and no other.
LEMMA RedactRow ==
  ASSUME NEW r \in Row
  PROVE  /\ Redact(r) \in Row
         /\ Redact(r).event = r.event /\ Redact(r).rec = r.rec
         /\ Redact(r).actor = r.actor /\ Redact(r).anon = r.anon
         /\ Redact(r).role = r.role /\ Redact(r).at = r.at
         /\ Redact(r).body = Erased
BY DEF Redact, Row

\* The anonymising statement keeps the row a row and touches the actor columns.
LEMMA AnonymiseRow ==
  ASSUME NEW r \in Row
  PROVE  /\ Anonymise(r) \in Row
         /\ Anonymise(r).event = r.event /\ Anonymise(r).rec = r.rec
         /\ Anonymise(r).actor = r.actor /\ Anonymise(r).anon = TRUE
         /\ Anonymise(r).role = NoRole /\ Anonymise(r).at = r.at
         /\ Anonymise(r).body = r.body
BY DEF Anonymise, Row

\* The two statements commute, and repeating one changes nothing.
LEMMA ErasureAlgebra ==
  ASSUME NEW r \in Row
  PROVE  /\ Redact(Redact(r)) = Redact(r)
         /\ Anonymise(Anonymise(r)) = Anonymise(r)
         /\ Redact(Anonymise(r)) = Anonymise(Redact(r))
BY DEF Redact, Anonymise, Row

\* The erased forms of a row are what the two statements make of it.
LEMMA ErasedFormsAre ==
  ASSUME NEW r \in Row
  PROVE  ErasedForms(r) = {r, Redact(r), Anonymise(r), Anonymise(Redact(r))}
<1>1. Anonymise(Redact(r)) = [r EXCEPT !.body = Erased, !.anon = TRUE, !.role = NoRole]
  BY DEF Redact, Anonymise, Row
<1> QED BY <1>1 DEF ErasedForms, Redact, Anonymise

\* Erased forms of a row: erasing one of them gives one of them.
LEMMA ErasedFormsClosed ==
  ASSUME NEW r \in Row, NEW s \in ErasedForms(r)
  PROVE  s \in Row /\ Redact(s) \in ErasedForms(r) /\ Anonymise(s) \in ErasedForms(r)
<1>1. Redact(r) \in Row /\ Anonymise(r) \in Row
  BY RedactRow, AnonymiseRow
<1>2. Anonymise(Redact(r)) \in Row
  BY <1>1, AnonymiseRow
<1>3. Redact(Anonymise(Redact(r))) = Anonymise(Redact(r))
  BY <1>1, ErasureAlgebra
<1>4. Anonymise(Anonymise(Redact(r))) = Anonymise(Redact(r))
  BY <1>1, ErasureAlgebra
<1> QED BY <1>1, <1>2, <1>3, <1>4, ErasureAlgebra, ErasedFormsAre

\* Being an erased form is transitive.
LEMMA ErasedFormsTransitive ==
  ASSUME NEW r \in Row, NEW s \in ErasedForms(r), NEW u \in ErasedForms(s)
  PROVE  u \in ErasedForms(r)
<1>1. s \in Row /\ Redact(s) \in ErasedForms(r) /\ Anonymise(s) \in ErasedForms(r)
  BY ErasedFormsClosed
<1>2. Anonymise(Redact(s)) \in ErasedForms(r)
  BY <1>1, ErasedFormsClosed
<1> QED BY <1>1, <1>2, ErasedFormsAre

\* The stored row says what was given, or what erasure left of it, and only
\* with the actor does it lose the role.
Keeps(stored, given) ==
  RecordsIt(stored, given) /\ (stored.anon \/ stored.role = given.role)

\* An erased form of a row keeps what the row kept.
LEMMA ErasedFormsRecord ==
  ASSUME NEW r \in Row, NEW s \in ErasedForms(r), NEW g, Keeps(r, g)
  PROVE  Keeps(s, g)
<1>1. Redact(r) \in Row /\ Keeps(Redact(r), g)
  BY RedactRow DEF Keeps, RecordsIt
<1>2. Keeps(Anonymise(r), g)
  BY AnonymiseRow DEF Keeps, RecordsIt
<1>3. Keeps(Anonymise(Redact(r)), g)
  BY <1>1, AnonymiseRow DEF Keeps, RecordsIt
<1> QED BY <1>1, <1>2, <1>3, ErasedFormsAre

-----------------------------------------------------------------------------
(* Type correctness.  TypeOK is not inductive alone: a statement writes the *)
(* row of the call in progress, so the call must be of the right kind.      *)

CallsOK ==
  /\ \A p \in Appenders : /\ pc[p] \in {"idle", "insert", "lookup"}
                          /\ pc[p] # "idle" => call[p] \in Requests
  /\ \A q \in Erasers : /\ pc[q] \in {"idle", "redact", "anonymise", "commit"}
                        /\ pc[q] # "idle" => call[q] \in Erasures

Typed == TypeOK /\ CallsOK

\* What a goroutine reads is a table.
LEMMA VisibleType ==
  ASSUME TypeOK, NEW p \in Goroutines
  PROVE  Visible(p) \in [Ids -> MaybeRow]
BY OverlayType DEF TypeOK, Visible

\* A failed statement keeps the types.
LEMMA StatementFailsType ==
  ASSUME TypeOK, NEW p \in Appenders, StatementFails(p)
  PROVE  /\ buf' \in [Goroutines -> [Ids -> MaybeRow]]
         /\ tx' \in [Goroutines -> {"none", "open", "writing", "aborted"}]
         /\ told' \in [Appenders -> SUBSET Requests]
<1>1. PICK t \in TxAfterError(p) :
        /\ tx' = [tx EXCEPT ![p] = t]
        /\ buf' = [buf EXCEPT ![p] = IF t = "aborted" THEN Empty ELSE @]
        /\ told' = [told EXCEPT ![p] = IF t = "aborted" THEN {} ELSE @]
  BY DEF StatementFails
<1>2. p \in Goroutines
  BY DEF Goroutines
<1>3. t \in {"none", "open", "writing", "aborted"}
  BY <1>1, <1>2 DEF TxAfterError, TypeOK
<1> QED BY <1>1, <1>2, <1>3, EmptyType DEF TypeOK

\* An acknowledgement keeps the types.
LEMMA AcknowledgeType ==
  ASSUME Typed, NEW p \in Appenders, pc[p] # "idle", Acknowledge(p)
  PROVE  /\ told' \in [Appenders -> SUBSET Requests]
         /\ acked' \in SUBSET Requests
         /\ pc' = [pc EXCEPT ![p] = "idle"]
         /\ call' = [call EXCEPT ![p] = NoCall]
<1>1. call[p] \in Requests
  BY DEF Typed, CallsOK
<1> QED BY <1>1 DEF Acknowledge, Return, Typed, TypeOK

\* What the two UPDATE statements write.
LEMMA RedactEffect ==
  ASSUME TypeOK, NEW q \in Erasers, RedactStatement(q)
  PROVE  /\ buf' = [buf EXCEPT ![q] = [i \in Ids |->
              IF i \in RedactTargets(q) THEN Redact(Visible(q)[i]) ELSE buf[q][i]]]
         /\ tx' = [tx EXCEPT ![q] = "writing"]
         /\ buf' \in [Goroutines -> [Ids -> MaybeRow]]
<1>1. q \in Goroutines
  BY DEF Goroutines
<1>2. \A i \in RedactTargets(q) : Visible(q)[i] \in Row
  BY <1>1, VisibleType DEF RedactTargets, MaybeRow
<1>3. \A i \in RedactTargets(q) : Redact(Visible(q)[i]) \in Row
  BY <1>2, RedactRow
<1>4. buf' = [buf EXCEPT ![q] = [i \in Ids |->
              IF i \in RedactTargets(q) THEN Redact(Visible(q)[i]) ELSE buf[q][i]]]
  BY <1>1 DEF RedactStatement, Advance, Update, TypeOK
<1>5. tx' = [tx EXCEPT ![q] = "writing"]
  BY DEF RedactStatement, Advance, Update
<1> QED BY <1>1, <1>3, <1>4, <1>5 DEF TypeOK, MaybeRow

\* What the anonymising UPDATE writes.
LEMMA AnonymiseEffect ==
  ASSUME TypeOK, NEW q \in Erasers, AnonymiseStatement(q)
  PROVE  /\ buf' = [buf EXCEPT ![q] = [i \in Ids |->
              IF i \in AnonymiseTargets(q) THEN Anonymise(Visible(q)[i]) ELSE buf[q][i]]]
         /\ tx' = [tx EXCEPT ![q] = "writing"]
         /\ buf' \in [Goroutines -> [Ids -> MaybeRow]]
<1>1. q \in Goroutines
  BY DEF Goroutines
<1>2. \A i \in AnonymiseTargets(q) : Visible(q)[i] \in Row
  BY <1>1, VisibleType DEF AnonymiseTargets, MaybeRow
<1>3. \A i \in AnonymiseTargets(q) : Anonymise(Visible(q)[i]) \in Row
  BY <1>2, AnonymiseRow
<1>4. buf' = [buf EXCEPT ![q] = [i \in Ids |->
              IF i \in AnonymiseTargets(q) THEN Anonymise(Visible(q)[i]) ELSE buf[q][i]]]
  BY <1>1 DEF AnonymiseStatement, Update, TypeOK
<1>5. tx' = [tx EXCEPT ![q] = "writing"]
  BY DEF AnonymiseStatement, Update
<1> QED BY <1>1, <1>3, <1>4, <1>5 DEF TypeOK, MaybeRow

\* The initial state is well typed.
LEMMA TypedInit == Init => Typed
BY EmptyType DEF Init, Typed, TypeOK, CallsOK, Goroutines

\* Every step keeps the types.
LEMMA TypedStep == Typed /\ [Next]_vars => Typed'
<1> SUFFICES ASSUME Typed, [Next]_vars PROVE Typed'
  OBVIOUS
<1>0. TypeOK /\ CallsOK
  BY DEF Typed
<1>a. Appenders \subseteq Goroutines /\ Erasers \subseteq Goroutines
      /\ Appenders \cap Erasers = {}
  BY SentinelAssumption DEF Goroutines
<1>1. ASSUME NEW p \in Appenders, NEW e \in Requests,
             AppendPrepared(p, e) \/ AppendPreparedWithin(p, e)
      PROVE  Typed'
  <2>1. /\ pc' = [pc EXCEPT ![p] = "insert"]
        /\ call' = [call EXCEPT ![p] = e]
        /\ UNCHANGED <<rows, buf, tx, step, told, acked>>
    BY <1>1 DEF AppendPrepared, AppendPreparedWithin, StartInsert
  <2>2. TypeOK'
    BY <1>0, <1>a, <2>1 DEF TypeOK
  <2>3. CallsOK'
    BY <1>0, <1>a, <2>1 DEF TypeOK, CallsOK
  <2> QED BY <2>2, <2>3 DEF Typed
<1>2. ASSUME NEW p \in Appenders, InsertStores(p) PROVE Typed'
  <2>1. call[p] \in Requests /\ pc[p] # "idle"
    BY <1>0, <1>2 DEF InsertStores, StoreRow, CanWrite, CallsOK
  <2>2. call[p].row \in MaybeRow /\ call[p].id \in Ids
    BY <2>1, RequestAssumption DEF MaybeRow
  <2>3. rows' \in [Ids -> MaybeRow] /\ buf' \in [Goroutines -> [Ids -> MaybeRow]]
        /\ tx' \in [Goroutines -> {"none", "open", "writing", "aborted"}]
    <3>1. CASE tx[p] = "none"
      BY <1>0, <1>2, <2>2, <3>1 DEF InsertStores, StoreRow, TypeOK
    <3>2. CASE tx[p] # "none"
      <4>1. [buf[p] EXCEPT ![call[p].id] = call[p].row] \in [Ids -> MaybeRow]
        BY <1>0, <1>a, <2>2 DEF TypeOK
      <4>2. /\ buf' = [buf EXCEPT ![p] = [buf[p] EXCEPT ![call[p].id] = call[p].row]]
            /\ tx' = [tx EXCEPT ![p] = "writing"] /\ rows' = rows
        BY <1>0, <1>a, <1>2, <3>2 DEF InsertStores, StoreRow, TypeOK
      <4> QED BY <1>0, <1>a, <4>1, <4>2 DEF TypeOK
    <3> QED BY <3>1, <3>2
  <2>4. /\ told' \in [Appenders -> SUBSET Requests]
        /\ acked' \in SUBSET Requests
        /\ pc' = [pc EXCEPT ![p] = "idle"]
        /\ call' = [call EXCEPT ![p] = NoCall]
        /\ step' = step
    BY <1>2, <2>1, AcknowledgeType DEF InsertStores, StoreRow
  <2> QED BY <1>0, <1>a, <2>3, <2>4 DEF Typed, TypeOK, CallsOK
<1>3. ASSUME NEW p \in Appenders, InsertLosesAnswer(p) PROVE Typed'
  <2>1. call[p] \in Requests
    BY <1>0, <1>3 DEF InsertLosesAnswer, CanWrite, CallsOK
  <2>2. call[p].row \in MaybeRow /\ call[p].id \in Ids
    BY <2>1, RequestAssumption DEF MaybeRow
  <2> QED BY <1>0, <1>3, <1>a, <2>1, <2>2 DEF InsertLosesAnswer, Typed, TypeOK, CallsOK
<1>4. ASSUME NEW p \in Appenders, InsertDuplicate(p) PROVE Typed'
  <2>1. call[p] \in Requests
    BY <1>0, <1>4 DEF InsertDuplicate, CanWrite, CallsOK
  <2>2. /\ buf' \in [Goroutines -> [Ids -> MaybeRow]]
        /\ tx' \in [Goroutines -> {"none", "open", "writing", "aborted"}]
        /\ told' \in [Appenders -> SUBSET Requests]
    <3>1. CASE Dialect = "sqlite" /\ tx[p] # "none"
      BY <1>0, <1>4, <3>1 DEF InsertDuplicate, TypeOK
    <3>2. CASE ~(Dialect = "sqlite" /\ tx[p] # "none")
      BY <1>0, <1>4, <3>2, StatementFailsType DEF InsertDuplicate
    <3> QED BY <3>1, <3>2
  <2> QED BY <1>0, <1>4, <1>a, <2>1, <2>2 DEF InsertDuplicate, Typed, TypeOK, CallsOK
<1>5. ASSUME NEW p \in Appenders, InsertFails(p) PROVE Typed'
  <2>1. call[p] \in Requests
    BY <1>0, <1>5 DEF InsertFails, CallsOK
  <2> QED BY <1>0, <1>5, <1>a, <2>1, StatementFailsType
          DEF InsertFails, Typed, TypeOK, CallsOK
<1>6. ASSUME NEW p \in Appenders, LookupMatches(p) PROVE Typed'
  <2>1. pc[p] # "idle" /\ Acknowledge(p) /\ UNCHANGED <<rows, buf, tx, step>>
    BY <1>6 DEF LookupMatches, CanLookUp
  <2>2. call[p] \in Requests
    BY <1>0, <2>1 DEF CallsOK
  <2>3. /\ told' \in [Appenders -> SUBSET Requests]
        /\ acked' \in SUBSET Requests
        /\ pc' = [pc EXCEPT ![p] = "idle"]
        /\ call' = [call EXCEPT ![p] = NoCall]
    BY <1>0, <2>1, <2>2, AcknowledgeType
  <2> QED BY <1>0, <1>a, <2>1, <2>3 DEF Typed, TypeOK, CallsOK
<1>7. ASSUME NEW p \in Appenders, LookupDiffers(p) PROVE Typed'
  BY <1>0, <1>7, <1>a DEF LookupDiffers, Return, Typed, TypeOK, CallsOK
<1>8. ASSUME NEW p \in Appenders, LookupFails(p) PROVE Typed'
  BY <1>0, <1>8, <1>a, StatementFailsType
     DEF LookupFails, Return, Typed, TypeOK, CallsOK
<1>9. ASSUME NEW p \in Appenders, HostTxNext(p) PROVE Typed'
  <2>1. Visible(p) \in [Ids -> MaybeRow]
    BY <1>0, <1>a, VisibleType
  <2>2. UNCHANGED <<pc, call, step>>
    BY <1>9 DEF HostTxNext, BeginHostTx, CommitHostTx, RollbackHostTx
  <2>3. TypeOK'
    <3>1. CASE BeginHostTx(p)
      BY <1>0, <1>a, <3>1 DEF BeginHostTx, TypeOK
    <3>2. CASE CommitHostTx(p)
      BY <1>0, <1>a, <2>1, <3>2, EmptyType DEF CommitHostTx, TypeOK
    <3>3. CASE RollbackHostTx(p)
      BY <1>0, <1>a, <3>3, EmptyType DEF RollbackHostTx, TypeOK
    <3> QED BY <1>9, <3>1, <3>2, <3>3 DEF HostTxNext
  <2>4. CallsOK'
    BY <1>0, <2>2 DEF CallsOK
  <2> QED BY <2>3, <2>4 DEF Typed
<1>10. ASSUME NEW q \in Erasers, NEW e \in Erasures, EraseSubjectResources(q, e)
       PROVE  Typed'
  BY <1>0, <1>10, <1>a DEF EraseSubjectResources, Typed, TypeOK, CallsOK
<1>11. ASSUME NEW q \in Erasers, RedactStatement(q) PROVE Typed'
  <2>2. /\ pc' = pc \/ pc' = [pc EXCEPT ![q] = "anonymise"]
        /\ step' = step \/ step' = [step EXCEPT ![q] = step[q] + 1]
        /\ pc[q] = "redact"
        /\ UNCHANGED <<rows, call, told, acked>>
    BY <1>0, <1>11 DEF RedactStatement, Advance, TypeOK
  <2>3. step' \in [Erasers -> Nat]
    BY <1>0, <2>2 DEF TypeOK
  <2>4. TypeOK'
    <3>1. pc' \in [Goroutines -> {"idle", "insert", "lookup",
                                  "redact", "anonymise", "commit"}]
      BY <1>0, <2>2 DEF TypeOK
    <3>2. /\ buf' \in [Goroutines -> [Ids -> MaybeRow]]
          /\ tx' = [tx EXCEPT ![q] = "writing"]
      BY <1>0, <1>11, RedactEffect
    <3> QED BY <1>0, <2>2, <2>3, <3>1, <3>2 DEF TypeOK
  <2>5. CallsOK'
    BY <1>0, <1>a, <2>2 DEF TypeOK, CallsOK
  <2> QED BY <2>4, <2>5 DEF Typed
<1>12. ASSUME NEW q \in Erasers, AnonymiseStatement(q) PROVE Typed'
  <2>1. /\ pc' = [pc EXCEPT ![q] = "commit"] /\ pc[q] = "anonymise"
        /\ UNCHANGED <<rows, call, step, told, acked>>
    BY <1>12 DEF AnonymiseStatement
  <2> QED BY <1>0, <1>12, <1>a, <2>1, AnonymiseEffect DEF Typed, TypeOK, CallsOK
<1>13. ASSUME NEW q \in Erasers, CommitErase(q) \/ EraseFails(q) PROVE Typed'
  <2>1. Visible(q) \in [Ids -> MaybeRow]
    BY <1>0, <1>a, VisibleType
  <2>2. EndErase(q) /\ rows' \in [Ids -> MaybeRow]
    BY <1>0, <1>13, <2>1 DEF CommitErase, EraseFails, TypeOK
  <2> QED BY <1>0, <1>a, <2>2, EmptyType DEF EndErase, Return, Typed, TypeOK, CallsOK
<1>14. CASE UNCHANGED vars
  BY <1>0, <1>14 DEF vars, Typed, TypeOK, CallsOK
<1> QED BY <1>1, <1>2, <1>3, <1>4, <1>5, <1>6, <1>7, <1>8, <1>9, <1>10, <1>11,
           <1>12, <1>13, <1>14 DEF Next, AppendNext, EraseNext

\* Between calls an eraser has no transaction and its loop is reset.
Idle ==
  \A q \in Erasers : pc[q] = "idle" => tx[q] = "none" /\ step[q] = 0

\* Every step keeps Idle: only EndErase makes an eraser idle.
LEMMA IdleStep == Typed /\ Idle /\ [Next]_vars => Idle'
<1> SUFFICES ASSUME Typed, Idle, [Next]_vars PROVE Idle'
  OBVIOUS
<1>0. TypeOK /\ Appenders \subseteq Goroutines /\ Erasers \subseteq Goroutines
      /\ Appenders \cap Erasers = {}
  BY SentinelAssumption DEF Typed, Goroutines
<1>1. ASSUME NEW p \in Appenders, AppendNext(p) \/ HostTxNext(p) PROVE Idle'
  <2>1. \A q \in Erasers : tx'[q] = tx[q]
    BY <1>0, <1>1 DEF AppendNext, HostTxNext, AppendPrepared, AppendPreparedWithin,
         StartInsert, InsertStores, StoreRow, InsertLosesAnswer, InsertDuplicate, InsertFails,
         LookupMatches, LookupDiffers, LookupFails, StatementFails, BeginHostTx,
         CommitHostTx, RollbackHostTx, TypeOK
  <2>2. \A q \in Erasers : pc'[q] = pc[q]
    BY <1>0, <1>1 DEF AppendNext, HostTxNext, AppendPrepared, AppendPreparedWithin,
         StartInsert, InsertStores, StoreRow, InsertLosesAnswer, InsertDuplicate, InsertFails,
         LookupMatches, LookupDiffers, LookupFails, Acknowledge, Return, BeginHostTx,
         CommitHostTx, RollbackHostTx, TypeOK
  <2>3. step' = step
    BY <1>1 DEF AppendNext, HostTxNext, AppendPrepared, AppendPreparedWithin,
         StartInsert, InsertStores, StoreRow, InsertLosesAnswer, InsertDuplicate, InsertFails,
         LookupMatches, LookupDiffers, LookupFails, BeginHostTx, CommitHostTx,
         RollbackHostTx
  <2> QED BY <2>1, <2>2, <2>3 DEF Idle
<1>2. ASSUME NEW q \in Erasers, EraseNext(q) PROVE Idle'
  <2>1. \A o \in Erasers \ {q} : pc'[o] = pc[o] /\ tx'[o] = tx[o] /\ step'[o] = step[o]
    BY <1>0, <1>2 DEF EraseNext, EraseSubjectResources, RedactStatement, Advance,
         AnonymiseStatement, Update, CommitErase, EraseFails, EndErase, Return, TypeOK
  <2>2. pc'[q] = "idle" => tx'[q] = "none" /\ step'[q] = 0
    BY <1>0, <1>2 DEF EraseNext, EraseSubjectResources, RedactStatement, Advance,
         AnonymiseStatement, Update, CommitErase, EraseFails, EndErase, Return, TypeOK
  <2> QED BY <2>1, <2>2 DEF Idle
<1>3. CASE UNCHANGED vars
  BY <1>3 DEF vars, Idle
<1> QED BY <1>1, <1>2, <1>3 DEF Next

\* Every variable of the event store always holds a value of its kind.
THEOREM TypeCorrect == Spec => []TypeOK
<1>1. Spec => []Typed
  BY TypedInit, TypedStep, PTL DEF Spec
<1>2. Typed => TypeOK
  BY DEF Typed
<1> QED BY <1>1, <1>2, PTL

-----------------------------------------------------------------------------
(* The inductive invariant behind the safety theorems: what open            *)
(* transactions hold back never disagrees with the table.                   *)

\* Only a transaction that has written holds rows back, and with SQLite only
\* one transaction has written.
Locks ==
  /\ \A p \in Goroutines : \A i \in Ids : buf[p][i] # NoRow => tx[p] = "writing"
  /\ Dialect = "sqlite" =>
       \A p \in Goroutines : \A o \in Goroutines :
         tx[p] = "writing" /\ tx[o] = "writing" => p = o

\* A row held back by a host transaction is not in the table; one held back by
\* an erasure is an erased form of the row in the table; and no two
\* transactions hold back the same row.
Buffers ==
  /\ \A p \in Appenders : \A i \in Ids : buf[p][i] # NoRow => rows[i] = NoRow
  /\ \A q \in Erasers : \A i \in Ids :
       buf[q][i] # NoRow => rows[i] # NoRow /\ buf[q][i] \in ErasedForms(rows[i])
  /\ \A p \in Goroutines : \A o \in Goroutines : \A i \in Ids :
       p # o /\ buf[p][i] # NoRow => buf[o][i] = NoRow

\* What a host was told inside its transaction is what the transaction sees.
ToldOK ==
  \A p \in Appenders : \A e \in told[p] :
    Visible(p)[e.id] # NoRow /\ Keeps(Visible(p)[e.id], e.row)

\* No row held back is anonymised and not redacted.
HeldRedacted ==
  \A p \in Goroutines : \A i \in Ids :
    buf[p][i] # NoRow /\ buf[p][i].anon => buf[p][i].body = Erased

\* An erasure that has run its first statement and not its last.
Between(q) == pc[q] = "anonymise" \/ (pc[q] = "redact" /\ step[q] # 0)

\* In such an erasure every event of the subject that it sees is redacted.
SubjectRedacted(q) ==
  /\ tx[q] = "writing"
  /\ \A i \in Ids :
       Visible(q)[i] # NoRow /\ IsActor(Visible(q)[i], call[q].identity)
         => Visible(q)[i].body = Erased

\* With SQLite the three hold together.
Redacted ==
  /\ AnonymisedIsRedacted
  /\ HeldRedacted
  /\ \A q \in Erasers : Between(q) => SubjectRedacted(q)

\* What open transactions hold back agrees with the table.
Held == Locks /\ Buffers

(* The ways in which a step touches the table and the buffers. *)

\* No row is written; goroutine g may open a transaction or take the write lock.
Quiet(g) ==
  /\ UNCHANGED <<rows, buf>>
  /\ \E t \in {"none", "open", "writing", "aborted"} :
       /\ tx' = [tx EXCEPT ![g] = t]
       /\ tx[g] = "writing" => t = "writing"
       /\ t = "writing" => tx[g] = "writing" \/ WriteLockFree(g)

\* The transaction of g ends and what it held back is dropped.
Drop(g) ==
  /\ UNCHANGED rows
  /\ buf' = [buf EXCEPT ![g] = Empty]
  /\ tx' = [tx EXCEPT ![g] = "none"] \/ tx' = [tx EXCEPT ![g] = "aborted"]

\* Appender p inserts its row outside a transaction.
StoreNow(p) ==
  /\ call[p].id \in Ids /\ call[p].row \in Row /\ ~call[p].row.anon
  /\ WriteLockFree(p) /\ KeyFree(p, call[p].id)
  /\ rows[call[p].id] = NoRow
  /\ rows' = [rows EXCEPT ![call[p].id] = call[p].row]
  /\ tx[p] = "none"
  /\ UNCHANGED <<buf, tx>>

\* Appender p inserts its row inside the host's transaction.
StoreHeld(p) ==
  /\ call[p].id \in Ids /\ call[p].row \in Row /\ ~call[p].row.anon
  /\ WriteLockFree(p) /\ KeyFree(p, call[p].id)
  /\ rows[call[p].id] = NoRow /\ buf[p][call[p].id] = NoRow
  /\ buf' = [buf EXCEPT ![p] = [buf[p] EXCEPT ![call[p].id] = call[p].row]]
  /\ tx' = [tx EXCEPT ![p] = "writing"]
  /\ UNCHANGED rows

\* The transaction of g commits.
Publish(g) ==
  /\ rows' = Visible(g)
  /\ buf' = [buf EXCEPT ![g] = Empty]
  /\ tx' = [tx EXCEPT ![g] = "none"]

\* Eraser q replaces the rows ids that it sees by the erased rows val.
Erase(q, ids, val) ==
  /\ WriteLockFree(q) /\ RowsFree(q, ids)
  /\ buf' = [buf EXCEPT ![q] = [i \in Ids |-> IF i \in ids THEN val[i] ELSE buf[q][i]]]
  /\ tx' = [tx EXCEPT ![q] = "writing"]
  /\ UNCHANGED rows

\* Opening a transaction or taking the write lock keeps Held.
LEMMA QuietHeld ==
  ASSUME TypeOK, Held, NEW g \in Goroutines, Quiet(g)
  PROVE  Held'
<1>1. PICK t \in {"none", "open", "writing", "aborted"} :
        /\ tx' = [tx EXCEPT ![g] = t]
        /\ tx[g] = "writing" => t = "writing"
        /\ t = "writing" => tx[g] = "writing" \/ WriteLockFree(g)
  BY DEF Quiet
<1>2. UNCHANGED <<rows, buf>>
  BY DEF Quiet
<1>3. Locks'
  BY <1>1, <1>2 DEF Held, Locks, TypeOK, WriteLockFree
<1>4. Buffers'
  BY <1>2 DEF Held, Buffers
<1> QED BY <1>3, <1>4 DEF Held

\* A rollback or an abort keeps Held.
LEMMA DropHeld ==
  ASSUME TypeOK, Held, NEW g \in Goroutines, Drop(g)
  PROVE  Held'
<1>1. \A o \in Goroutines : \A i \in Ids : buf'[o][i] # NoRow => o # g /\ buf'[o][i] = buf[o][i]
  BY DEF Drop, TypeOK, Empty
<1>2. \A o \in Goroutines : tx'[o] = "writing" => tx[o] = "writing"
  BY DEF Drop, TypeOK
<1>3. \A o \in Goroutines : o # g => tx'[o] = tx[o]
  BY DEF Drop, TypeOK
<1>4. Locks'
  BY <1>1, <1>2, <1>3 DEF Held, Locks
<1>5. \A o \in Goroutines : \A i \in Ids : buf[o][i] = NoRow => buf'[o][i] = NoRow
  BY <1>1
<1>6. rows' = rows
  BY DEF Drop
<1>7. Buffers'
  BY <1>1, <1>5, <1>6 DEF Held, Buffers, Goroutines
<1> QED BY <1>4, <1>7 DEF Held

\* An insert outside a transaction keeps Held.
LEMMA StoreNowHeld ==
  ASSUME TypeOK, Held, NEW p \in Appenders, StoreNow(p)
  PROVE  Held'
<1>1. Locks'
  BY DEF StoreNow, Held, Locks
<1>2. \A i \in Ids : i # call[p].id => rows'[i] = rows[i]
  BY DEF StoreNow, TypeOK
<1>3. \A o \in Goroutines : buf[o][call[p].id] = NoRow
  <2>1. \A i \in Ids : buf[p][i] = NoRow
    BY DEF StoreNow, Held, Locks, Goroutines
  <2>2. \A o \in Erasers : buf[o][call[p].id] = NoRow
    BY DEF StoreNow, Held, Buffers
  <2>3. \A o \in Appenders \ {p} : buf[o][call[p].id] = NoRow
    <3>1. CASE Dialect = "sqlite"
      BY <3>1 DEF StoreNow, WriteLockFree, Held, Locks, Goroutines
    <3>2. CASE Dialect = "postgres"
      BY <3>2 DEF StoreNow, KeyFree
    <3> QED BY <3>1, <3>2, DialectAssumption
  <2> QED BY <2>1, <2>2, <2>3 DEF Goroutines, StoreNow
<1>4. buf' = buf
  BY DEF StoreNow
<1>5. Buffers'
  BY <1>2, <1>3, <1>4 DEF Held, Buffers, Goroutines
<1> QED BY <1>1, <1>5 DEF Held

\* An insert inside a host transaction keeps Held.
LEMMA StoreHeldHeld ==
  ASSUME TypeOK, Held, NEW p \in Appenders, StoreHeld(p)
  PROVE  Held'
<1>0. p \in Goroutines
  BY DEF Goroutines
<1>1. \A o \in Goroutines : \A i \in Ids :
        ~(o = p /\ i = call[p].id) => buf'[o][i] = buf[o][i]
  BY DEF StoreHeld, TypeOK
<1>2. \A o \in Goroutines : tx'[o] = IF o = p THEN "writing" ELSE tx[o]
  BY DEF StoreHeld, TypeOK
<1>3. Locks'
  BY <1>0, <1>1, <1>2 DEF Held, Locks, StoreHeld, WriteLockFree
<1>4. \A o \in Goroutines : o # p => buf[o][call[p].id] = NoRow
  <2>1. \A o \in Erasers : buf[o][call[p].id] = NoRow
    BY DEF StoreHeld, Held, Buffers
  <2>2. \A o \in Appenders \ {p} : buf[o][call[p].id] = NoRow
    <3>1. CASE Dialect = "sqlite"
      BY <3>1 DEF StoreHeld, WriteLockFree, Held, Locks, Goroutines
    <3>2. CASE Dialect = "postgres"
      BY <3>2 DEF StoreHeld, KeyFree
    <3> QED BY <3>1, <3>2, DialectAssumption
  <2> QED BY <2>1, <2>2 DEF Goroutines
<1>5. rows' = rows /\ rows[call[p].id] = NoRow
  BY DEF StoreHeld
<1>6. \A q \in Erasers : q # p
  BY SentinelAssumption
<1>7. \A o \in Appenders : \A i \in Ids : buf'[o][i] # NoRow => rows'[i] = NoRow
  BY <1>1, <1>5 DEF Held, Buffers, Goroutines
<1>8. \A q \in Erasers : \A i \in Ids :
        buf'[q][i] # NoRow => rows'[i] # NoRow /\ buf'[q][i] \in ErasedForms(rows'[i])
  BY <1>1, <1>5, <1>6 DEF Held, Buffers, Goroutines
<1>9. \A g \in Goroutines : \A o \in Goroutines : \A i \in Ids :
        g # o /\ buf'[g][i] # NoRow => buf'[o][i] = NoRow
  BY <1>1, <1>4 DEF Held, Buffers
<1>10. Buffers'
  BY <1>7, <1>8, <1>9 DEF Buffers
<1> QED BY <1>3, <1>10 DEF Held

\* What a commit leaves in the table: an event that was there is there in an
\* erased form, whichever kind of transaction commits.
LEMMA PublishKeeps ==
  ASSUME TypeOK, Held, NEW g \in Goroutines, Publish(g), NEW i \in Ids
  PROVE  /\ buf[g][i] = NoRow => rows'[i] = rows[i]
         /\ buf[g][i] # NoRow => rows'[i] = buf[g][i]
         /\ rows[i] # NoRow => rows'[i] # NoRow /\ rows'[i] \in ErasedForms(rows[i])
<1>1. rows'[i] = IF buf[g][i] # NoRow THEN buf[g][i] ELSE rows[i]
  BY DEF Publish, Visible, Overlay
<1>2. CASE g \in Appenders
  BY <1>1, <1>2 DEF Held, Buffers, ErasedForms
<1>3. CASE g \in Erasers
  BY <1>1, <1>3 DEF Held, Buffers, ErasedForms
<1> QED BY <1>1, <1>2, <1>3 DEF Goroutines

\* A commit keeps Held.
LEMMA PublishHeld ==
  ASSUME TypeOK, Held, NEW g \in Goroutines, Publish(g)
  PROVE  Held'
<1>1. \A o \in Goroutines : \A i \in Ids : buf'[o][i] # NoRow => o # g /\ buf'[o][i] = buf[o][i]
  BY DEF Publish, TypeOK, Empty
<1>2. \A o \in Goroutines : tx'[o] = IF o = g THEN "none" ELSE tx[o]
  BY DEF Publish, TypeOK
<1>3. Locks'
  BY <1>1, <1>2 DEF Held, Locks
<1>4. \A o \in Goroutines : \A i \in Ids : buf'[o][i] # NoRow => rows'[i] = rows[i]
  BY <1>1, PublishKeeps DEF Held, Buffers
<1>5. \A p \in Appenders : \A i \in Ids : buf'[p][i] # NoRow => rows'[i] = NoRow
  BY <1>1, <1>4 DEF Held, Buffers, Goroutines
<1>6. \A q \in Erasers : \A i \in Ids :
        buf'[q][i] # NoRow => rows'[i] # NoRow /\ buf'[q][i] \in ErasedForms(rows'[i])
  <2> SUFFICES ASSUME NEW q \in Erasers, NEW i \in Ids, buf'[q][i] # NoRow
               PROVE  rows'[i] # NoRow /\ buf'[q][i] \in ErasedForms(rows'[i])
    OBVIOUS
  <2>1. q \in Goroutines
    BY DEF Goroutines
  <2>2. buf'[q][i] = buf[q][i] /\ rows'[i] = rows[i]
    BY <1>1, <1>4, <2>1
  <2> QED BY <2>2 DEF Held, Buffers
<1>7. \A h \in Goroutines : \A o \in Goroutines : \A i \in Ids :
        h # o /\ buf'[h][i] # NoRow => buf'[o][i] = NoRow
  BY <1>1 DEF Held, Buffers
<1>8. Buffers'
  BY <1>5, <1>6, <1>7 DEF Buffers
<1> QED BY <1>3, <1>8 DEF Held

\* An event that an eraser sees and erases is, erased, an erased form of the
\* event in the table.
LEMMA VisibleErased ==
  ASSUME TypeOK, Held, NEW q \in Erasers, NEW i \in Ids, Visible(q)[i] # NoRow
  PROVE  /\ rows[i] \in Row
         /\ Visible(q)[i] \in ErasedForms(rows[i])
<1>1. Visible(q)[i] = IF buf[q][i] # NoRow THEN buf[q][i] ELSE rows[i]
  BY DEF Visible, Overlay
<1>2. rows[i] # NoRow
  BY <1>1 DEF Held, Buffers
<1>3. rows[i] \in Row
  BY <1>2 DEF TypeOK, MaybeRow
<1>4. Visible(q)[i] \in ErasedForms(rows[i])
  BY <1>1 DEF Held, Buffers, ErasedForms
<1> QED BY <1>3, <1>4

\* An UPDATE of an erasure keeps Held.
LEMMA EraseHeld ==
  ASSUME TypeOK, Held, NEW q \in Erasers, NEW ids \in SUBSET Ids, NEW val,
         Erase(q, ids, val),
         \A i \in ids : /\ Visible(q)[i] # NoRow
                        /\ val[i] # NoRow
                        /\ val[i] \in ErasedForms(rows[i])
  PROVE  Held'
<1>0. q \in Goroutines
  BY DEF Goroutines
<1>1. \A o \in Goroutines : \A i \in Ids :
        buf'[o][i] = IF o = q /\ i \in ids THEN val[i] ELSE buf[o][i]
  BY <1>0 DEF Erase, TypeOK
<1>2. \A o \in Goroutines : tx'[o] = IF o = q THEN "writing" ELSE tx[o]
  BY DEF Erase, TypeOK
<1>3. Locks'
  BY <1>0, <1>1, <1>2 DEF Held, Locks, Erase, WriteLockFree
<1>4. \A i \in ids : rows[i] # NoRow
  BY DEF Visible, Overlay, Held, Buffers
<1>5. \A o \in Goroutines : \A i \in ids : o # q => buf[o][i] = NoRow
  <2>1. \A o \in Appenders : \A i \in ids : buf[o][i] = NoRow
    BY <1>4 DEF Held, Buffers
  <2>2. \A o \in Erasers \ {q} : \A i \in ids : buf[o][i] = NoRow
    <3>1. CASE Dialect = "sqlite"
      BY <3>1 DEF Erase, WriteLockFree, Held, Locks, Goroutines
    <3>2. CASE Dialect = "postgres"
      BY <3>2 DEF Erase, RowsFree
    <3> QED BY <3>1, <3>2, DialectAssumption
  <2> QED BY <2>1, <2>2 DEF Goroutines
<1>6. rows' = rows
  BY DEF Erase
<1>7. \A p \in Appenders : \A i \in Ids : buf'[p][i] # NoRow => rows'[i] = NoRow
  BY <1>1, <1>6, SentinelAssumption DEF Held, Buffers, Goroutines
<1>8. \A o \in Erasers : \A i \in Ids :
        buf'[o][i] # NoRow => rows'[i] # NoRow /\ buf'[o][i] \in ErasedForms(rows'[i])
  BY <1>1, <1>4, <1>6 DEF Held, Buffers, Goroutines
<1>9. \A g \in Goroutines : \A o \in Goroutines : \A i \in Ids :
        g # o /\ buf'[g][i] # NoRow => buf'[o][i] = NoRow
  BY <1>1, <1>5 DEF Held, Buffers
<1>10. Buffers'
  BY <1>7, <1>8, <1>9 DEF Buffers
<1> QED BY <1>3, <1>10 DEF Held

-----------------------------------------------------------------------------
(* Each action touches the table and the buffers in one of these ways. *)

\* A failed statement writes nothing, or drops what its transaction held back.
LEMMA FailureShape ==
  ASSUME TypeOK, Held, NEW p \in Appenders, StatementFails(p), rows' = rows
  PROVE  Quiet(p) \/ Drop(p)
<1>0. p \in Goroutines
  BY DEF Goroutines
<1>1. PICK t \in TxAfterError(p) :
        /\ tx' = [tx EXCEPT ![p] = t]
        /\ buf' = [buf EXCEPT ![p] = IF t = "aborted" THEN Empty ELSE @]
  BY DEF StatementFails
<1>2. CASE t = "aborted"
  BY <1>1, <1>2 DEF Drop
<1>3. CASE t # "aborted"
  <2>1. t = tx[p] /\ t \in {"none", "open", "writing", "aborted"}
    BY <1>0, <1>1, <1>3 DEF TxAfterError, TypeOK
  <2>2. buf' = buf
    BY <1>1, <1>3 DEF TypeOK
  <2> QED BY <1>1, <2>1, <2>2 DEF Quiet
<1> QED BY <1>2, <1>3

\* A successful INSERT stores a new row, in the table or in the transaction.
LEMMA InsertShape ==
  ASSUME Typed, Held, NEW p \in Appenders, InsertStores(p)
  PROVE  StoreNow(p) \/ StoreHeld(p)
<1>0. p \in Goroutines /\ TypeOK
  BY DEF Goroutines, Typed
<1>1. call[p] \in Requests
  BY DEF InsertStores, StoreRow, CanWrite, Typed, CallsOK
<1>2. call[p].id \in Ids /\ call[p].row \in Row /\ ~call[p].row.anon
  BY <1>1, RequestAssumption
<1>3. rows[call[p].id] = NoRow /\ buf[p][call[p].id] = NoRow
  BY <1>2 DEF InsertStores, StoreRow, Visible, Overlay
<1>4. WriteLockFree(p) /\ KeyFree(p, call[p].id)
  BY DEF InsertStores, StoreRow, CanWrite
<1>5. CASE tx[p] = "none"
  BY <1>2, <1>3, <1>4, <1>5 DEF InsertStores, StoreRow, StoreNow
<1>6. CASE tx[p] # "none"
  BY <1>0, <1>2, <1>3, <1>4, <1>6 DEF InsertStores, StoreRow, StoreHeld, TypeOK
<1> QED BY <1>5, <1>6

\* An INSERT whose answer is lost has stored a new row in the table.
LEMMA LostAnswerShape ==
  ASSUME Typed, NEW p \in Appenders, InsertLosesAnswer(p)
  PROVE  StoreNow(p)
<1>1. call[p] \in Requests
  BY DEF InsertLosesAnswer, CanWrite, Typed, CallsOK
<1> QED BY <1>1, RequestAssumption DEF InsertLosesAnswer, CanWrite, StoreNow

\* An INSERT of an existing key stores nothing.
LEMMA DuplicateShape ==
  ASSUME Typed, Held, NEW p \in Appenders, InsertDuplicate(p)
  PROVE  Quiet(p) \/ Drop(p)
<1>0. TypeOK
  BY DEF Typed
<1>1. CASE Dialect = "sqlite" /\ tx[p] # "none"
  BY <1>1 DEF InsertDuplicate, CanWrite, Quiet
<1>2. CASE ~(Dialect = "sqlite" /\ tx[p] # "none")
  BY <1>0, <1>2, FailureShape DEF InsertDuplicate
<1> QED BY <1>1, <1>2

\* The redacting UPDATE replaces rows it sees by their erased forms.
LEMMA RedactShape ==
  ASSUME TypeOK, Held, NEW q \in Erasers, RedactStatement(q)
  PROVE  /\ Erase(q, RedactTargets(q), [i \in Ids |-> Redact(Visible(q)[i])])
         /\ \A i \in RedactTargets(q) :
              /\ Visible(q)[i] # NoRow
              /\ Redact(Visible(q)[i]) # NoRow
              /\ Redact(Visible(q)[i]) \in ErasedForms(rows[i])
<1>1. \A i \in RedactTargets(q) : i \in Ids /\ Visible(q)[i] # NoRow
  BY DEF RedactTargets
<1>2. \A i \in RedactTargets(q) :
        rows[i] \in Row /\ Visible(q)[i] \in ErasedForms(rows[i])
  BY <1>1, VisibleErased
<1>3. \A i \in RedactTargets(q) : Visible(q)[i] \in Row
                                 /\ Redact(Visible(q)[i]) \in ErasedForms(rows[i])
  BY <1>2, ErasedFormsClosed
<1>4. \A i \in RedactTargets(q) : Redact(Visible(q)[i]) # NoRow
  BY <1>3, RedactRow, SentinelAssumption
<1>5. WriteLockFree(q) /\ RowsFree(q, RedactTargets(q)) /\ rows' = rows
  BY DEF RedactStatement, Advance, Update
<1>6. Erase(q, RedactTargets(q), [i \in Ids |-> Redact(Visible(q)[i])])
  BY <1>5, RedactEffect DEF Erase
<1> QED BY <1>1, <1>3, <1>4, <1>6

\* The anonymising UPDATE replaces rows it sees by their erased forms.
LEMMA AnonymiseShape ==
  ASSUME TypeOK, Held, NEW q \in Erasers, AnonymiseStatement(q)
  PROVE  /\ Erase(q, AnonymiseTargets(q), [i \in Ids |-> Anonymise(Visible(q)[i])])
         /\ \A i \in AnonymiseTargets(q) :
              /\ Visible(q)[i] # NoRow
              /\ Anonymise(Visible(q)[i]) # NoRow
              /\ Anonymise(Visible(q)[i]) \in ErasedForms(rows[i])
<1>1. \A i \in AnonymiseTargets(q) : i \in Ids /\ Visible(q)[i] # NoRow
  BY DEF AnonymiseTargets
<1>2. \A i \in AnonymiseTargets(q) :
        rows[i] \in Row /\ Visible(q)[i] \in ErasedForms(rows[i])
  BY <1>1, VisibleErased
<1>3. \A i \in AnonymiseTargets(q) :
        Visible(q)[i] \in Row /\ Anonymise(Visible(q)[i]) \in ErasedForms(rows[i])
  BY <1>2, ErasedFormsClosed
<1>4. \A i \in AnonymiseTargets(q) : Anonymise(Visible(q)[i]) # NoRow
  BY <1>3, AnonymiseRow, SentinelAssumption
<1>5. WriteLockFree(q) /\ RowsFree(q, AnonymiseTargets(q)) /\ rows' = rows
  BY DEF AnonymiseStatement, Update
<1>6. Erase(q, AnonymiseTargets(q), [i \in Ids |-> Anonymise(Visible(q)[i])])
  BY <1>5, AnonymiseEffect DEF Erase
<1> QED BY <1>1, <1>3, <1>4, <1>6

\* Every step either leaves the table and the buffers alone or touches them in
\* one of the ways above.
LEMMA StepShape ==
  ASSUME Typed, Idle, Held, [Next]_vars
  PROVE  \/ UNCHANGED <<rows, buf, tx>>
         \/ \E g \in Goroutines : Quiet(g) \/ Drop(g) \/ Publish(g)
         \/ \E p \in Appenders : StoreNow(p) \/ StoreHeld(p)
         \/ \E q \in Erasers : RedactStatement(q) \/ AnonymiseStatement(q)
<1> DEFINE Shape ==
         \/ UNCHANGED <<rows, buf, tx>>
         \/ \E g \in Goroutines : Quiet(g) \/ Drop(g) \/ Publish(g)
         \/ \E p \in Appenders : StoreNow(p) \/ StoreHeld(p)
         \/ \E q \in Erasers : RedactStatement(q) \/ AnonymiseStatement(q)
<1> SUFFICES Shape
  OBVIOUS
<1>0. TypeOK /\ Appenders \subseteq Goroutines /\ Erasers \subseteq Goroutines
  BY DEF Typed, Goroutines
<1>1. ASSUME NEW p \in Appenders, NEW e \in Requests,
             AppendPrepared(p, e) \/ AppendPreparedWithin(p, e)
      PROVE  Shape
  BY <1>1 DEF AppendPrepared, AppendPreparedWithin, StartInsert
<1>2. ASSUME NEW p \in Appenders, InsertStores(p) PROVE Shape
  BY <1>2, InsertShape
<1>3. ASSUME NEW p \in Appenders, InsertLosesAnswer(p) PROVE Shape
  BY <1>3, LostAnswerShape
<1>4. ASSUME NEW p \in Appenders, InsertDuplicate(p) PROVE Shape
  BY <1>0, <1>4, DuplicateShape
<1>5. ASSUME NEW p \in Appenders, InsertFails(p) \/ LookupFails(p) PROVE Shape
  <2>1. StatementFails(p) /\ rows' = rows
    BY <1>5 DEF InsertFails, LookupFails
  <2> QED BY <1>0, <2>1, FailureShape
<1>6. ASSUME NEW p \in Appenders, LookupMatches(p) \/ LookupDiffers(p) PROVE Shape
  BY <1>6 DEF LookupMatches, LookupDiffers
<1>7. ASSUME NEW p \in Appenders, BeginHostTx(p) PROVE Quiet(p)
  BY <1>7 DEF BeginHostTx, Quiet
<1>8. ASSUME NEW p \in Appenders, CommitHostTx(p) PROVE Publish(p)
  BY <1>8 DEF CommitHostTx, Publish
<1>9. ASSUME NEW p \in Appenders, RollbackHostTx(p) PROVE Drop(p)
  BY <1>9 DEF RollbackHostTx, Drop
<1>10. ASSUME NEW p \in Appenders, HostTxNext(p) PROVE Shape
  BY <1>0, <1>7, <1>8, <1>9, <1>10 DEF HostTxNext
<1>11. ASSUME NEW q \in Erasers, NEW e \in Erasures, EraseSubjectResources(q, e)
       PROVE  Quiet(q)
  BY <1>11 DEF EraseSubjectResources, Quiet, Idle
<1>12. ASSUME NEW q \in Erasers, CommitErase(q) PROVE Publish(q)
  BY <1>12 DEF CommitErase, EndErase, Publish
<1>13. ASSUME NEW q \in Erasers, EraseFails(q) PROVE Drop(q)
  BY <1>13 DEF EraseFails, EndErase, Drop
<1> QED
  BY <1>0, <1>1, <1>2, <1>3, <1>4, <1>5, <1>6, <1>10, <1>11, <1>12, <1>13
     DEF Next, AppendNext, EraseNext, vars

\* The inductive invariant of the whole store, without its histories.
Safe == Typed /\ Idle /\ Held

\* Nothing is held back at the start.
LEMMA SafeInit == Init => Safe
<1> SUFFICES ASSUME Init PROVE Safe
  OBVIOUS
<1>1. Typed
  BY TypedInit
<1>2. Idle
  BY DEF Init, Idle, Goroutines
<1>3. \A g \in Goroutines : tx[g] = "none" /\ \A i \in Ids : buf[g][i] = NoRow
  BY DEF Init, Empty
<1>4. Held
  BY <1>3 DEF Held, Locks, Buffers, Goroutines
<1> QED BY <1>1, <1>2, <1>4 DEF Safe

\* Every step keeps what is held back in agreement with the table.
LEMMA HeldStep ==
  ASSUME Safe, [Next]_vars
  PROVE  Held'
<1>0. Typed /\ Idle /\ Held /\ TypeOK /\ Appenders \subseteq Goroutines
  BY DEF Safe, Typed, Goroutines
<1>1. CASE UNCHANGED <<rows, buf, tx>>
  BY <1>0, <1>1 DEF Held, Locks, Buffers
<1>2. ASSUME NEW g \in Goroutines, Quiet(g) \/ Drop(g) \/ Publish(g) PROVE Held'
  BY <1>0, <1>2, QuietHeld, DropHeld, PublishHeld
<1>3. ASSUME NEW p \in Appenders, StoreNow(p) \/ StoreHeld(p) PROVE Held'
  BY <1>0, <1>3, StoreNowHeld, StoreHeldHeld
<1>4. ASSUME NEW q \in Erasers, RedactStatement(q) PROVE Held'
  <2> DEFINE val == [i \in Ids |-> Redact(Visible(q)[i])]
  <2>1. RedactTargets(q) \in SUBSET Ids
    BY DEF RedactTargets
  <2>2. Erase(q, RedactTargets(q), val)
    BY <1>0, <1>4, RedactShape
  <2>3. \A i \in RedactTargets(q) : /\ Visible(q)[i] # NoRow
                                    /\ val[i] # NoRow
                                    /\ val[i] \in ErasedForms(rows[i])
    BY <1>0, <1>4, <2>1, RedactShape
  <2> HIDE DEF val
  <2> QED BY <1>0, <2>1, <2>2, <2>3, EraseHeld
<1>5. ASSUME NEW q \in Erasers, AnonymiseStatement(q) PROVE Held'
  <2> DEFINE val == [i \in Ids |-> Anonymise(Visible(q)[i])]
  <2>1. AnonymiseTargets(q) \in SUBSET Ids
    BY DEF AnonymiseTargets
  <2>2. Erase(q, AnonymiseTargets(q), val)
    BY <1>0, <1>5, AnonymiseShape
  <2>3. \A i \in AnonymiseTargets(q) : /\ Visible(q)[i] # NoRow
                                       /\ val[i] # NoRow
                                       /\ val[i] \in ErasedForms(rows[i])
    BY <1>0, <1>5, <2>1, AnonymiseShape
  <2> HIDE DEF val
  <2> QED BY <1>0, <2>1, <2>2, <2>3, EraseHeld
<1> QED BY <1>0, <1>1, <1>2, <1>3, <1>4, <1>5, StepShape

\* Safe is inductive.
LEMMA SafeStep == Safe /\ [Next]_vars => Safe'
BY TypedStep, IdleStep, HeldStep DEF Safe

\* The event store always satisfies its inductive invariant.
THEOREM SafeAlways == Spec => []Safe
BY SafeInit, SafeStep, PTL DEF Spec

-----------------------------------------------------------------------------
(* Evidence is only erased. *)

\* What a step may do to the table: an event that is there stays there, as
\* itself or in an erased form.
Kept ==
  \A i \in Ids : rows[i] # NoRow => rows'[i] # NoRow /\ rows'[i] \in ErasedForms(rows[i])

\* Every step keeps what is in the table.
LEMMA EvidenceStep ==
  ASSUME Safe, [Next]_vars
  PROVE  Kept
<1>0. Typed /\ Idle /\ Held /\ TypeOK
  BY DEF Safe, Typed
<1>1. CASE rows' = rows
  BY <1>1 DEF Kept, ErasedForms
<1>2. ASSUME NEW g \in Goroutines, Publish(g) PROVE Kept
  BY <1>0, <1>2, PublishKeeps DEF Kept
<1>3. ASSUME NEW p \in Appenders, StoreNow(p) PROVE Kept
  BY <1>0, <1>3 DEF StoreNow, Kept, ErasedForms, TypeOK
<1>4. \/ rows' = rows
      \/ \E g \in Goroutines : Publish(g)
      \/ \E p \in Appenders : StoreNow(p)
  BY <1>0, StepShape DEF Quiet, Drop, StoreHeld, RedactStatement, Advance, AnonymiseStatement
<1> QED BY <1>1, <1>2, <1>3, <1>4

\* No append, retry, host commit or erasure deletes or overwrites a committed
\* event (store.go insert, subject_lifecycle.go EraseSubjectResources), with
\* either database and any number of appenders and erasers.
THEOREM EvidenceKept == Spec => EvidenceOnlyErased
<1>1. Safe /\ [Next]_vars =>
        [\A i \in Ids : rows[i] # NoRow => rows'[i] \in ErasedForms(rows[i])]_vars
  BY EvidenceStep DEF Kept
<1> QED BY <1>1, SafeAlways, PTL DEF Spec, EvidenceOnlyErased

-----------------------------------------------------------------------------
(* Acknowledged events are durable. *)

\* What was acknowledged for good is in the table.
AckedRecorded == \A e \in acked : rows[e.id] # NoRow /\ Keeps(rows[e.id], e.row)

\* What was acknowledged inside a host transaction is what that transaction
\* sees, and what was acknowledged for good is in the table.
Histories == ToldOK /\ AckedRecorded

\* An acknowledged event stays in the table whatever the step.
LEMMA AckedKept ==
  ASSUME TypeOK, AckedRecorded, Kept, NEW e \in acked
  PROVE  rows'[e.id] # NoRow /\ Keeps(rows'[e.id], e.row)
<1>1. e.id \in Ids
  BY RequestAssumption DEF TypeOK
<1>2. rows[e.id] # NoRow /\ Keeps(rows[e.id], e.row)
  BY DEF AckedRecorded
<1>3. rows[e.id] \in Row
  BY <1>1, <1>2 DEF TypeOK, MaybeRow
<1>4. rows'[e.id] # NoRow /\ rows'[e.id] \in ErasedForms(rows[e.id])
  BY <1>1, <1>2 DEF Kept
<1> QED BY <1>2, <1>3, <1>4, ErasedFormsRecord

\* What a transaction was told stays what it sees while it holds back the same
\* row for the event: an erasure that commits meanwhile only erases it.
LEMMA ToldKept ==
  ASSUME TypeOK, ToldOK, Kept, NEW p \in Appenders, NEW e \in told[p],
         buf'[p][e.id] = buf[p][e.id]
  PROVE  Visible(p)'[e.id] # NoRow /\ Keeps(Visible(p)'[e.id], e.row)
<1>1. e.id \in Ids
  BY RequestAssumption DEF TypeOK
<1>2. Visible(p)[e.id] # NoRow /\ Keeps(Visible(p)[e.id], e.row)
  BY DEF ToldOK
<1>3. /\ Visible(p)[e.id] = IF buf[p][e.id] # NoRow THEN buf[p][e.id] ELSE rows[e.id]
      /\ Visible(p)'[e.id] = IF buf'[p][e.id] # NoRow THEN buf'[p][e.id] ELSE rows'[e.id]
  BY <1>1 DEF Visible, Overlay
<1>4. CASE buf[p][e.id] # NoRow
  BY <1>2, <1>3, <1>4
<1>5. CASE buf[p][e.id] = NoRow
  <2>1. rows[e.id] \in Row
    BY <1>1, <1>2, <1>3, <1>5 DEF TypeOK, MaybeRow
  <2>2. rows'[e.id] # NoRow /\ rows'[e.id] \in ErasedForms(rows[e.id])
    BY <1>1, <1>2, <1>3, <1>5 DEF Kept
  <2> QED BY <1>2, <1>3, <1>5, <2>1, <2>2, ErasedFormsRecord
<1> QED BY <1>4, <1>5

\* A step that acknowledges nothing keeps the histories, if every transaction
\* that is still owed something holds back what it held back.
LEMMA NothingTold ==
  ASSUME TypeOK, Histories, Kept, acked' = acked,
         \A p \in Appenders : \A e \in told'[p] :
           e \in told[p] /\ buf'[p][e.id] = buf[p][e.id]
  PROVE  Histories'
<1>1. AckedRecorded'
  BY AckedKept DEF Histories, AckedRecorded
<1>2. ToldOK'
  <2> SUFFICES ASSUME NEW p \in Appenders, NEW e \in told'[p]
               PROVE  Visible(p)'[e.id] # NoRow /\ Keeps(Visible(p)'[e.id], e.row)
    BY DEF ToldOK
  <2> QED BY ToldKept DEF Histories
<1> QED BY <1>1, <1>2 DEF Histories

\* A step that acknowledges the call of p keeps the histories, if the event is
\* what p sees afterwards.
LEMMA CallTold ==
  ASSUME Typed, Held, Histories, Kept, NEW p \in Appenders, pc[p] # "idle",
         Acknowledge(p),
         \A o \in Appenders : \A e \in told[o] : buf'[o][e.id] = buf[o][e.id],
         Visible(p)'[call[p].id] # NoRow,
         Keeps(Visible(p)'[call[p].id], call[p].row),
         tx[p] = "none" => buf'[p] = buf[p]
  PROVE  Histories'
<1>0. TypeOK /\ call[p] \in Requests /\ call[p].id \in Ids /\ p \in Goroutines
  BY RequestAssumption DEF Typed, CallsOK, Goroutines
<1>1. CASE tx[p] = "none"
  <2>1. acked' = acked \cup {call[p]} /\ told' = told
    BY <1>1 DEF Acknowledge
  <2>2. buf'[p][call[p].id] = NoRow
    BY <1>0, <1>1 DEF Held, Locks
  <2>3. Visible(p)'[call[p].id] = rows'[call[p].id]
    BY <1>0, <2>2 DEF Visible, Overlay
  <2>4. AckedRecorded'
    BY <1>0, <2>1, <2>3, AckedKept DEF Histories, AckedRecorded
  <2>5. ToldOK'
    BY <1>0, <2>1, ToldKept DEF Histories, ToldOK
  <2> QED BY <2>4, <2>5 DEF Histories
<1>2. CASE tx[p] # "none"
  <2>1. told' = [told EXCEPT ![p] = told[p] \cup {call[p]}] /\ acked' = acked
    BY <1>0, <1>2 DEF Acknowledge, TypeOK
  <2>2. AckedRecorded'
    BY <1>0, <2>1, AckedKept DEF Histories, AckedRecorded
  <2>3. \A o \in Appenders : \A e \in told'[o] : e \in told[o] \/ (o = p /\ e = call[p])
    BY <1>0, <2>1 DEF TypeOK
  <2>4. ToldOK'
    BY <1>0, <2>3, ToldKept DEF Histories, ToldOK
  <2> QED BY <2>2, <2>4 DEF Histories
<1> QED BY <1>1, <1>2

\* A row the replay test accepts records what the retry gives.
LEMMA SameStoredRecords ==
  ASSUME NEW r, NEW g, SameStored(r, g)
  PROVE  Keeps(r, g)
BY DEF SameStored, SameText, Keeps, RecordsIt

\* Every step keeps the histories.
LEMMA HistoriesStep ==
  ASSUME Safe, Histories, [Next]_vars
  PROVE  Histories'
<1>0. /\ Typed /\ Held /\ TypeOK /\ Kept
      /\ Appenders \subseteq Goroutines /\ Appenders \cap Erasers = {}
  BY EvidenceStep, SentinelAssumption DEF Safe, Typed, Goroutines
<1>1. ASSUME acked' = acked, told' = told,
             \A p \in Appenders : buf'[p] = buf[p]
      PROVE  Histories'
  BY <1>0, <1>1, NothingTold
<1>2. ASSUME NEW p \in Appenders, acked' = acked,
             \A o \in Appenders \ {p} : told'[o] = told[o] /\ buf'[o] = buf[o],
             told'[p] = {} \/ (told'[p] = told[p] /\ buf'[p] = buf[p])
      PROVE  Histories'
  BY <1>0, <1>2, NothingTold
<1>3. ASSUME NEW p \in Appenders, StatementFails(p), acked' = acked
      PROVE  Histories'
  <2>1. \A o \in Appenders \ {p} : told'[o] = told[o] /\ buf'[o] = buf[o]
    BY <1>0, <1>3 DEF StatementFails, TypeOK
  <2>2. told'[p] = {} \/ (told'[p] = told[p] /\ buf'[p] = buf[p])
    BY <1>0, <1>3 DEF StatementFails, TypeOK
  <2> QED BY <1>2, <1>3, <2>1, <2>2
<1>4. ASSUME NEW p \in Appenders, NEW e \in Requests,
             AppendPrepared(p, e) \/ AppendPreparedWithin(p, e)
      PROVE  Histories'
  BY <1>1, <1>4 DEF AppendPrepared, AppendPreparedWithin, StartInsert
<1>5. ASSUME NEW p \in Appenders, InsertStores(p) PROVE Histories'
  <2>1. pc[p] # "idle" /\ Acknowledge(p) /\ call[p].id \in Ids /\ call[p].row \in Row
    BY <1>0, <1>5, RequestAssumption DEF InsertStores, StoreRow, CanWrite, Typed, CallsOK
  <2>2. Keeps(call[p].row, call[p].row) /\ call[p].row # NoRow
    BY <2>1, SentinelAssumption DEF Keeps, RecordsIt
  <2>3. Visible(p)[call[p].id] = NoRow
    BY <1>5 DEF InsertStores, StoreRow
  <2>4. CASE StoreNow(p)
    <3>1. buf' = buf /\ rows'[call[p].id] = call[p].row /\ buf[p][call[p].id] = NoRow
      BY <1>0, <2>1, <2>3, <2>4 DEF StoreNow, TypeOK, Visible, Overlay
    <3>2. Visible(p)'[call[p].id] = call[p].row
      BY <2>1, <3>1 DEF Visible, Overlay
    <3> QED BY <1>0, <2>1, <2>2, <3>1, <3>2, CallTold
  <2>5. CASE StoreHeld(p)
    <3>1. buf'[p][call[p].id] = call[p].row
      BY <1>0, <2>1, <2>5 DEF StoreHeld, TypeOK
    <3>2. Visible(p)'[call[p].id] = call[p].row
      BY <2>1, <2>2, <3>1 DEF Visible, Overlay
    <3>3. \A o \in Appenders : \A e \in told[o] : buf'[o][e.id] = buf[o][e.id]
      <4> SUFFICES ASSUME NEW o \in Appenders, NEW e \in told[o]
                   PROVE  buf'[o][e.id] = buf[o][e.id]
        OBVIOUS
      <4>1. Visible(o)[e.id] # NoRow /\ e.id \in Ids
        BY <1>0, RequestAssumption DEF Histories, ToldOK, TypeOK
      <4>2. ~(o = p /\ e.id = call[p].id)
        BY <2>3, <4>1
      <4> QED BY <1>0, <2>5, <4>1, <4>2 DEF StoreHeld, TypeOK
    <3>4. tx[p] # "none"
      <4>1. CASE tx[p] = "none"
        BY <1>0, <1>5, <2>2, <2>3, <2>1, <3>1, <4>1 DEF InsertStores, StoreRow, Visible, Overlay
      <4> QED BY <4>1
    <3> QED BY <1>0, <2>1, <2>2, <3>2, <3>3, <3>4, CallTold
  <2> QED BY <1>0, <1>5, <2>4, <2>5, InsertShape
<1>6. ASSUME NEW p \in Appenders, InsertLosesAnswer(p) PROVE Histories'
  BY <1>1, <1>6 DEF InsertLosesAnswer
<1>7. ASSUME NEW p \in Appenders, InsertDuplicate(p) PROVE Histories'
  <2>1. CASE Dialect = "sqlite" /\ tx[p] # "none"
    BY <1>1, <1>7, <2>1 DEF InsertDuplicate
  <2>2. CASE ~(Dialect = "sqlite" /\ tx[p] # "none")
    BY <1>3, <1>7, <2>2 DEF InsertDuplicate
  <2> QED BY <2>1, <2>2
<1>8. ASSUME NEW p \in Appenders, InsertFails(p) \/ LookupFails(p) PROVE Histories'
  BY <1>3, <1>8 DEF InsertFails, LookupFails
<1>9. ASSUME NEW p \in Appenders, LookupMatches(p) PROVE Histories'
  <2>1. /\ pc[p] # "idle" /\ Acknowledge(p) /\ UNCHANGED <<rows, buf>>
        /\ Visible(p)[call[p].id] # NoRow
        /\ SameStored(Visible(p)[call[p].id], call[p].row)
    BY <1>9 DEF LookupMatches, CanLookUp
  <2>2. Keeps(Visible(p)[call[p].id], call[p].row)
    BY <2>1, SameStoredRecords
  <2>3. Visible(p)' = Visible(p)
    BY <2>1 DEF Visible
  <2> QED BY <1>0, <2>1, <2>2, <2>3, CallTold
<1>10. ASSUME NEW p \in Appenders, LookupDiffers(p) PROVE Histories'
  BY <1>1, <1>10 DEF LookupDiffers
<1>11. ASSUME NEW p \in Appenders, BeginHostTx(p) PROVE Histories'
  BY <1>1, <1>11 DEF BeginHostTx
<1>12. ASSUME NEW p \in Appenders, CommitHostTx(p) PROVE Histories'
  <2>1. /\ rows' = Visible(p) /\ acked' = acked \cup told[p] /\ told'[p] = {}
        /\ \A o \in Appenders \ {p} : told'[o] = told[o] /\ buf'[o] = buf[o]
    BY <1>0, <1>12 DEF CommitHostTx, TypeOK
  <2>2. AckedRecorded'
    BY <1>0, <2>1, AckedKept DEF Histories, ToldOK, AckedRecorded
  <2>3. ToldOK'
    BY <1>0, <2>1, ToldKept DEF Histories, ToldOK
  <2> QED BY <2>2, <2>3 DEF Histories
<1>13. ASSUME NEW p \in Appenders, RollbackHostTx(p) PROVE Histories'
  <2>1. told'[p] = {} /\ acked' = acked
        /\ \A o \in Appenders \ {p} : told'[o] = told[o] /\ buf'[o] = buf[o]
    BY <1>0, <1>13 DEF RollbackHostTx, TypeOK
  <2> QED BY <1>2, <2>1
<1>14. ASSUME NEW q \in Erasers, EraseNext(q) PROVE Histories'
  <2>1. acked' = acked /\ told' = told
    BY <1>14 DEF EraseNext, EraseSubjectResources, RedactStatement, Advance, AnonymiseStatement,
         CommitErase, EraseFails, EndErase
  <2>2. \A p \in Appenders : buf'[p] = buf[p]
    BY <1>0, <1>14 DEF EraseNext, EraseSubjectResources, RedactStatement, Advance,
         AnonymiseStatement, Update, CommitErase, EraseFails, EndErase, TypeOK
  <2> QED BY <1>1, <2>1, <2>2
<1>15. CASE UNCHANGED vars
  BY <1>1, <1>15 DEF vars
<1> QED BY <1>4, <1>5, <1>6, <1>7, <1>8, <1>9, <1>10, <1>11, <1>12, <1>13, <1>14,
           <1>15 DEF Next, AppendNext, HostTxNext

\* An acknowledged append is durable and says what was given, or what erasure
\* left of it (store.go insert, AppendPrepared, AppendPreparedWithin), with
\* either database and any number of appenders and erasers.
THEOREM AcksDurable == Spec => []AckedDurable
<1>1. Init => Histories
  BY DEF Init, Histories, ToldOK, AckedRecorded
<1>2. Safe /\ Histories /\ [Next]_vars => Histories'
  BY HistoriesStep
<1>3. Histories => AckedDurable
  BY DEF Histories, AckedRecorded, AckedDurable, Keeps
<1> QED BY <1>1, <1>2, <1>3, SafeAlways, PTL DEF Spec

-----------------------------------------------------------------------------
(* With SQLite an erasure is whole: it holds the write lock from its first  *)
(* statement on, so no event appears between redaction and anonymisation.   *)

\* While one transaction writes, no other goroutine changes the table.
LEMMA TableStill ==
  ASSUME Safe, Dialect = "sqlite", NEW q \in Goroutines, tx[q] = "writing",
         NEW g \in Goroutines, g # q,
         Publish(g) \/ (g \in Appenders /\ StoreNow(g))
  PROVE  rows' = rows
<1>0. TypeOK /\ Held
  BY DEF Safe, Typed
<1>1. CASE Publish(g)
  <2>1. tx[g] # "writing"
    BY <1>0 DEF Held, Locks
  <2>2. \A i \in Ids : buf[g][i] = NoRow
    BY <1>0, <2>1 DEF Held, Locks
  <2> QED BY <1>0, <1>1, <2>2 DEF Publish, Visible, Overlay, TypeOK
<1>2. CASE g \in Appenders /\ StoreNow(g)
  BY <1>2 DEF StoreNow, WriteLockFree
<1> QED BY <1>1, <1>2

\* The statements of an erasure keep the redaction of the rows they write.
LEMMA EraseRedacted ==
  ASSUME Safe, Redacted, NEW q \in Erasers, RedactStatement(q) \/ AnonymiseStatement(q)
  PROVE  HeldRedacted'
<1>0. TypeOK /\ Held /\ q \in Goroutines
  BY DEF Safe, Typed, Goroutines
<1>1. \A i \in Ids : Visible(q)[i] # NoRow => Visible(q)[i] \in Row
  BY <1>0, VisibleType DEF MaybeRow
<1>2. CASE RedactStatement(q)
  <2>1. \A i \in RedactTargets(q) : i \in Ids /\ Redact(Visible(q)[i]).body = Erased
    BY <1>1, RedactRow DEF RedactTargets
  <2>2. \A g \in Goroutines : \A i \in Ids :
          buf'[g][i] = IF g = q /\ i \in RedactTargets(q) THEN Redact(Visible(q)[i])
                       ELSE buf[g][i]
    BY <1>0, <1>2, RedactEffect DEF TypeOK
  <2> QED BY <2>1, <2>2 DEF Redacted, HeldRedacted
<1>3. CASE AnonymiseStatement(q)
  <2>0. SubjectRedacted(q)
    BY <1>3 DEF AnonymiseStatement, Redacted, Between
  <2>1. \A i \in AnonymiseTargets(q) : i \in Ids /\ Anonymise(Visible(q)[i]).body = Erased
    BY <1>1, <2>0, AnonymiseRow DEF AnonymiseTargets, SubjectRedacted
  <2>2. \A g \in Goroutines : \A i \in Ids :
          buf'[g][i] = IF g = q /\ i \in AnonymiseTargets(q) THEN Anonymise(Visible(q)[i])
                       ELSE buf[g][i]
    BY <1>0, <1>3, AnonymiseEffect DEF TypeOK
  <2> QED BY <2>1, <2>2 DEF Redacted, HeldRedacted
<1> QED BY <1>2, <1>3

\* Every step keeps the anonymised rows redacted, in the table and held back.
LEMMA RowsRedacted ==
  ASSUME Safe, Redacted, [Next]_vars
  PROVE  AnonymisedIsRedacted' /\ HeldRedacted'
<1>0. Typed /\ Idle /\ Held /\ TypeOK /\ Appenders \subseteq Goroutines
  BY DEF Safe, Typed, Goroutines
<1>1. CASE UNCHANGED <<rows, buf, tx>>
  BY <1>1 DEF Redacted, AnonymisedIsRedacted, HeldRedacted
<1>2. ASSUME NEW g \in Goroutines, Quiet(g) \/ Drop(g)
      PROVE  AnonymisedIsRedacted' /\ HeldRedacted'
  <2>1. rows' = rows
    BY <1>2 DEF Quiet, Drop
  <2>2. \A h \in Goroutines : \A i \in Ids : buf'[h][i] \in {buf[h][i], NoRow}
    <3>1. CASE UNCHANGED buf
      BY <3>1
    <3>2. CASE buf' = [buf EXCEPT ![g] = Empty]
      BY <1>0, <3>2 DEF TypeOK, Empty
    <3> QED BY <1>2, <3>1, <3>2 DEF Quiet, Drop
  <2>3. AnonymisedIsRedacted /\ HeldRedacted
    BY DEF Redacted
  <2>4. AnonymisedIsRedacted'
    BY <2>1, <2>3 DEF AnonymisedIsRedacted
  <2>5. HeldRedacted'
    BY <2>2, <2>3 DEF HeldRedacted
  <2> QED BY <2>4, <2>5
<1>3. ASSUME NEW g \in Goroutines, Publish(g)
      PROVE  AnonymisedIsRedacted' /\ HeldRedacted'
  <2>1. AnonymisedIsRedacted'
    BY <1>0, <1>3, PublishKeeps DEF Redacted, AnonymisedIsRedacted, HeldRedacted
  <2>2. HeldRedacted'
    BY <1>0, <1>3 DEF Publish, Empty, TypeOK, Redacted, HeldRedacted
  <2> QED BY <2>1, <2>2
<1>4. ASSUME NEW p \in Appenders, StoreNow(p)
      PROVE  AnonymisedIsRedacted' /\ HeldRedacted'
  BY <1>0, <1>4 DEF StoreNow, TypeOK, Redacted, AnonymisedIsRedacted, HeldRedacted
<1>5. ASSUME NEW p \in Appenders, StoreHeld(p)
      PROVE  AnonymisedIsRedacted' /\ HeldRedacted'
  <2>1. \A g \in Goroutines : \A i \in Ids :
          buf'[g][i] = IF g = p /\ i = call[p].id THEN call[p].row ELSE buf[g][i]
    BY <1>0, <1>5 DEF StoreHeld, TypeOK
  <2> QED BY <1>0, <1>5, <2>1 DEF StoreHeld, Redacted, AnonymisedIsRedacted, HeldRedacted
<1>6. ASSUME NEW q \in Erasers, RedactStatement(q) \/ AnonymiseStatement(q)
      PROVE  AnonymisedIsRedacted' /\ HeldRedacted'
  BY <1>6, EraseRedacted
     DEF RedactStatement, Advance, AnonymiseStatement, Redacted, AnonymisedIsRedacted
<1> QED BY <1>0, <1>1, <1>2, <1>3, <1>4, <1>5, <1>6, StepShape

\* While an eraser does not move, its transaction and its call stay as they
\* are, and the table too if it has the write lock.
LEMMA OthersStep ==
  ASSUME Safe, Dialect = "sqlite", [Next]_vars, NEW q \in Erasers, ~EraseNext(q)
  PROVE  /\ tx'[q] = tx[q] /\ buf'[q] = buf[q]
         /\ pc'[q] = pc[q] /\ call'[q] = call[q] /\ step'[q] = step[q]
         /\ tx[q] = "writing" => rows' = rows
<1> DEFINE Still == /\ tx'[q] = tx[q] /\ buf'[q] = buf[q]
                    /\ pc'[q] = pc[q] /\ call'[q] = call[q] /\ step'[q] = step[q]
                    /\ tx[q] = "writing" => rows' = rows
<1> SUFFICES Still
  OBVIOUS
<1>0. /\ Typed /\ Idle /\ Held /\ TypeOK
      /\ Appenders \subseteq Goroutines /\ Erasers \subseteq Goroutines
      /\ Appenders \cap Erasers = {}
  BY SentinelAssumption DEF Safe, Typed, Goroutines
<1>1. ASSUME NEW p \in Appenders, AppendNext(p) \/ HostTxNext(p)
      PROVE  Still
  <2>1. p # q
    BY <1>0
  <2>2. tx'[q] = tx[q] /\ buf'[q] = buf[q]
    BY <1>0, <1>1, <2>1 DEF AppendNext, HostTxNext, AppendPrepared,
         AppendPreparedWithin, StartInsert, InsertStores, StoreRow, InsertLosesAnswer,
         InsertDuplicate, InsertFails, LookupMatches, LookupDiffers, LookupFails,
         StatementFails, BeginHostTx, CommitHostTx, RollbackHostTx, TypeOK
  <2>3. pc'[q] = pc[q] /\ call'[q] = call[q] /\ step' = step
    BY <1>0, <1>1, <2>1 DEF AppendNext, HostTxNext, AppendPrepared,
         AppendPreparedWithin, StartInsert, InsertStores, StoreRow, InsertLosesAnswer,
         InsertDuplicate, InsertFails, LookupMatches, LookupDiffers, LookupFails,
         Acknowledge, Return, BeginHostTx, CommitHostTx, RollbackHostTx, TypeOK
  <2>4. rows' = rows \/ Publish(p) \/ StoreNow(p)
    <3>1. CASE InsertStores(p)
      BY <1>0, <3>1, InsertShape DEF StoreHeld
    <3>2. CASE InsertLosesAnswer(p)
      BY <1>0, <3>2, LostAnswerShape
    <3>3. CASE CommitHostTx(p)
      BY <3>3 DEF CommitHostTx, Publish
    <3> QED BY <1>1, <3>1, <3>2, <3>3 DEF AppendNext, HostTxNext, AppendPrepared,
              AppendPreparedWithin, StartInsert, InsertDuplicate, InsertFails,
              LookupMatches, LookupDiffers, LookupFails, BeginHostTx, RollbackHostTx
  <2>5. tx[q] = "writing" => rows' = rows
    BY <1>0, <2>1, <2>4, TableStill
  <2> QED BY <2>2, <2>3, <2>5
<1>2. ASSUME NEW o \in Erasers, o # q, EraseNext(o)
      PROVE  Still
  <2>1. /\ tx'[q] = tx[q] /\ buf'[q] = buf[q]
        /\ pc'[q] = pc[q] /\ call'[q] = call[q] /\ step'[q] = step[q]
    BY <1>0, <1>2 DEF EraseNext, EraseSubjectResources, RedactStatement, Advance,
         AnonymiseStatement, Update, CommitErase, EraseFails, EndErase, Return, TypeOK
  <2>2. rows' = rows \/ Publish(o)
    BY <1>2 DEF EraseNext, EraseSubjectResources, RedactStatement, Advance,
         AnonymiseStatement, CommitErase, EraseFails, EndErase, Publish
  <2>3. tx[q] = "writing" => rows' = rows
    BY <1>0, <1>2, <2>2, TableStill
  <2> QED BY <2>1, <2>3
<1>3. CASE UNCHANGED vars
  BY <1>3 DEF vars
<1> QED BY <1>1, <1>2, <1>3 DEF Next

\* An eraser that only looks on keeps what it sees redacted, as long as the
\* table does not change.
LEMMA LooksOn ==
  ASSUME TypeOK, NEW q \in Erasers, Between(q) => SubjectRedacted(q),
         pc'[q] = pc[q], step'[q] = step[q], call'[q] = call[q],
         tx'[q] = tx[q], buf'[q] = buf[q],
         tx[q] = "writing" => rows' = rows
  PROVE  Between(q)' => SubjectRedacted(q)'
<1> SUFFICES ASSUME Between(q)' PROVE SubjectRedacted(q)'
  OBVIOUS
<1>1. SubjectRedacted(q)
  BY DEF Between
<1>2. rows' = rows
  BY <1>1 DEF SubjectRedacted
<1>3. Visible(q)' = Visible(q)
  BY <1>2 DEF Visible
<1> QED BY <1>1, <1>3 DEF SubjectRedacted

\* Every step keeps the promise of an erasure that is under way.
LEMMA BetweenStep ==
  ASSUME Safe, Redacted, Dialect = "sqlite", [Next]_vars, NEW q \in Erasers
  PROVE  Between(q)' => SubjectRedacted(q)'
<1>0. /\ Typed /\ Idle /\ Held /\ TypeOK /\ (Between(q) => SubjectRedacted(q))
      /\ Appenders \subseteq Goroutines /\ Erasers \subseteq Goroutines
      /\ Appenders \cap Erasers = {}
  BY SentinelAssumption DEF Safe, Typed, Goroutines, Redacted
<1>1. ASSUME [Next]_vars, ~EraseNext(q) PROVE Between(q)' => SubjectRedacted(q)'
  BY <1>0, <1>1, OthersStep, LooksOn
<1>2. ASSUME RedactStatement(q)
      PROVE  SubjectRedacted(q)'
  <2>1. /\ rows' = rows /\ call' = call
        /\ \A i \in Ids :
             buf'[q][i] = IF i \in RedactTargets(q) THEN Redact(Visible(q)[i])
                          ELSE buf[q][i]
    <3>1. rows' = rows /\ call' = call
      BY <1>2 DEF RedactStatement, Advance
    <3>2. buf' = [buf EXCEPT ![q] = [i \in Ids |->
              IF i \in RedactTargets(q) THEN Redact(Visible(q)[i]) ELSE buf[q][i]]]
      BY <1>0, <1>2, RedactEffect
    <3> QED BY <1>0, <3>1, <3>2 DEF TypeOK
  <2>2. tx'[q] = "writing"
    BY <1>0, <1>2, RedactEffect DEF TypeOK
  <2>3. ASSUME NEW i \in Ids, Visible(q)'[i] # NoRow,
               IsActor(Visible(q)'[i], call'[q].identity)
        PROVE  Visible(q)'[i].body = Erased
    <3>1. CASE i \in RedactTargets(q)
      <4>1. Visible(q)[i] \in Row
        BY <1>0, <3>1, VisibleType DEF RedactTargets, MaybeRow
      <4>2. Redact(Visible(q)[i]) # NoRow /\ Redact(Visible(q)[i]).body = Erased
        BY <4>1, RedactRow, SentinelAssumption
      <4>3. Visible(q)'[i] = Redact(Visible(q)[i])
        BY <2>1, <3>1, <4>2 DEF Visible, Overlay
      <4> QED BY <4>2, <4>3
    <3>2. CASE i \notin RedactTargets(q)
      <4>1. Visible(q)'[i] = Visible(q)[i]
        BY <2>1, <3>2 DEF Visible, Overlay
      <4>2. ~Predicate(q, Visible(q)[i])
        BY <2>3, <3>2, <4>1 DEF RedactTargets
      <4>3. step[q] # 0
        BY <2>1, <2>3, <4>1, <4>2 DEF Predicate
      <4>4. SubjectRedacted(q)
        BY <1>0, <1>2, <4>3 DEF RedactStatement, Advance, Between
      <4> QED BY <2>1, <2>3, <4>1, <4>4 DEF SubjectRedacted
    <3> QED BY <3>1, <3>2
  <2> QED BY <2>2, <2>3 DEF SubjectRedacted
<1>3. ASSUME EraseNext(q), ~RedactStatement(q) PROVE ~Between(q)'
  BY <1>0, <1>3 DEF EraseNext, EraseSubjectResources, AnonymiseStatement, CommitErase,
       EraseFails, EndErase, Return, Between, Idle, TypeOK
<1> QED BY <1>1, <1>2, <1>3

\* With SQLite an event whose actor an erasure has anonymised has lost its
\* snapshots too (subject_lifecycle.go EraseSubjectResources), for any number
\* of appenders, erasers, records and events.  Under PostgreSQL it does not
\* hold: the run EventStorePostgresErase violates it.
THEOREM ErasureWhole == Spec => [](Dialect = "sqlite" => AnonymisedIsRedacted)
<1> DEFINE Inv == Dialect = "sqlite" => Redacted
<1>1. Init => Inv
  BY DEF Init, Empty, Redacted, AnonymisedIsRedacted, HeldRedacted, Between, Goroutines
<1>2. Safe /\ Inv /\ [Next]_vars => Inv'
  BY RowsRedacted, BetweenStep DEF Redacted
<1>3. Inv => (Dialect = "sqlite" => AnonymisedIsRedacted)
  BY DEF Redacted
<1> QED BY <1>1, <1>2, <1>3, SafeAlways, PTL DEF Spec
=============================================================================
