----------------------- MODULE ExportLifecycleProofs -----------------------
(* Theorems about ExportLifecycle, for every value of its constants. *)
EXTENDS ExportLifecycle, TLAPS

-----------------------------------------------------------------------------
(* What the operators return. *)

Rows == [id : Nat, actor : Actors \cup {Erased}]

\* Normalizing keeps a filter a filter.
LEMMA NormalizedFilter ==
  ASSUME NEW f \in Filters, NEW t \in Int
  PROVE  NormalizeExportFilters(f, t) \in FilterRange
<1>1. f \in FilterRange /\ Cutoff(t) \in Int
  BY ConstantAssumption DEF Cutoff
<1> QED BY <1>1 DEF NormalizeExportFilters, FilterRange

\* Tokens are tokens, and a token names the slot it was made for.
LEMMA TokenType ==
  ASSUME NEW s \in Slots, NEW f \in FilterRange, NEW e \in Int, NEW k \in Secrets
  PROVE  exportToken(s, f, e, k) \in Token /\ exportToken(s, f, e, k).slot = s
BY DEF exportToken, Token

\* What an export reads of an event is an actor or the pseudonym.
LEMMA StoredActor ==
  ASSUME NEW e \in Entry
  PROVE  Stored(e).actor \in Actors \cup {Erased}
BY DEF Stored, Entry

\* The rows of a file are rows of the ledger, in scope when they were listed,
\* and name nobody who was erased by then.
LEMMA ExportRowsAre ==
  ASSUME ledger \in Seq(Entry), NEW f, NEW scope
  PROVE  /\ ExportRows(f, scope) \in SUBSET Rows
         /\ \A row \in ExportRows(f, scope) :
              /\ row.id \in DOMAIN ledger
              /\ InScope(row.actor, scope)
              /\ row.actor # Erased => ledger[row.id].erased = NoTime
<1> DEFINE L == {j \in ListWithinDataScope(f, scope) :
                   f.result \in {AnyResult, Stored(ledger[j]).result}}
<1>1. L \subseteq DOMAIN ledger /\ \A i \in L : InScope(Stored(ledger[i]).actor, scope)
  BY DEF ListWithinDataScope
<1>2. DOMAIN ledger \subseteq Nat /\ \A i \in DOMAIN ledger : ledger[i] \in Entry
  OBVIOUS
<1>3. \A i \in L : Stored(ledger[i]).actor \in Actors \cup {Erased}
  BY <1>1, <1>2, StoredActor
<1>4. ExportRows(f, scope) = {[id |-> i, actor |-> Stored(ledger[i]).actor] : i \in L}
  BY DEF ExportRows
<1>5. \A e \in Entry : e.erased # NoTime => Stored(e).actor = Erased
  BY DEF Stored
<1> HIDE DEF L
<1>6. SUFFICES ASSUME NEW row \in ExportRows(f, scope)
               PROVE  /\ row \in Rows /\ row.id \in DOMAIN ledger
                      /\ InScope(row.actor, scope)
                      /\ row.actor # Erased => ledger[row.id].erased = NoTime
  OBVIOUS
<1>7. PICK i \in L : row = [id |-> i, actor |-> Stored(ledger[i]).actor]
  BY <1>4
<1> QED BY <1>1, <1>2, <1>3, <1>5, <1>7 DEF Rows

-----------------------------------------------------------------------------
(* The inductive invariant, by parts. *)

\* Preparer p has an artifact in hand; its CreateOrGetExport has answered with
\* a stored one; it is the one that stored it and has not recorded that yet.
Holding(p)  == ppc[p] \notin {"idle", "list"}
Answered(p) == ppc[p] \in {"sign", "evidence", "answer"}
Creating(p) == fresh[p] /\ ppc[p] \in {"sign", "evidence"}

\* Downloader d has passed the checks.
Admitted(d) == dpc[d] \in {"count", "mark", "evidence", "deliver"}

\* Requests in progress and what they hold are of their kinds, an artifact is
\* stored in its own slot, and an admitted download is of a stored artifact.
CallsOK ==
  /\ \A s \in Slots : artifacts[s] # NoArtifact => artifacts[s].slot = s
  /\ \A p \in Preparers : /\ ppc[p] # "idle" => pcall[p] \in PrepareCall
                          /\ Holding(p) => art[p] \in Artifact
                          /\ ppc[p] \in {"evidence", "answer"} => tok[p] \in Token
  /\ \A d \in Downloaders : /\ dpc[d] # "idle" => dcall[d] \in DownloadCall
                            /\ Admitted(d) => /\ seen[d] \in Artifact
                                              /\ artifacts[seen[d].slot] # NoArtifact

Typed == TypeOK /\ CallsOK

\* Artifacts whose token names their slot, and whose rows were in the data
\* scope of the authorization they were prepared under.
SoundArtifact ==
  {a \in Artifact :
     /\ a.token.slot = a.slot
     /\ \A row \in a.content : InScope(row.actor, PrepareScope[a.auth.user][a.auth.rev])}

StoredOK == \A s \in Slots : artifacts[s] # NoArtifact => artifacts[s] \in SoundArtifact

PrepareOK(p) ==
  /\ Holding(p) => art[p] \in SoundArtifact
  /\ ppc[p] \in {"find", "insert"} => ~art[p].downloaded
  /\ ppc[p] \in {"conflict", "refused"} => artifacts[art[p].slot] # NoArtifact
  /\ Answered(p) => /\ artifacts[art[p].slot] # NoArtifact
                    /\ artifacts[art[p].slot].token = art[p].token
  /\ ppc[p] \in {"evidence", "answer"} => tok[p] = art[p].token
  /\ ppc[p] = "answer" => PreparedEvidence(art[p].slot)

DownloadOK(d) ==
  /\ dpc[d] # "idle" => dcall[d].token \in issued
  /\ Admitted(d) =>
       /\ seen[d].slot.user = dcall[d].user
       /\ seen[d].auth = [user |-> dcall[d].user, rev |-> dcall[d].rev]
       /\ seen[d].token = dcall[d].token
       /\ seen[d] \in SoundArtifact
       /\ artifacts[seen[d].slot].content = seen[d].content
       /\ artifacts[seen[d].slot].token = seen[d].token
  /\ dpc[d] \in {"evidence", "deliver"} => artifacts[seen[d].slot].downloaded

\* One creation and one first download per slot: who is about to record one is
\* alone with it, and none is recorded yet.
OnceEach ==
  /\ RecordedOnce
  /\ \A p \in Preparers : Creating(p) => evidence[art[p].slot].first = 0
  /\ \A p, q \in Preparers :
       p # q /\ Creating(p) /\ Creating(q) => art[p].slot # art[q].slot
  /\ \A d \in Downloaders : dpc[d] = "evidence" => evidence[seen[d].slot].downloaded = 0
  /\ \A d, e \in Downloaders :
       d # e /\ dpc[d] = "evidence" /\ dpc[e] = "evidence" => seen[d].slot # seen[e].slot

\* An artifact expires exportTTL after a moment that has passed, and at most
\* exportTTL after the erasure of anyone whom it still names.
Dated(a) ==
  /\ a.expires <= now + exportTTL
  /\ \A row \in a.content :
       /\ row.id \in DOMAIN ledger
       /\ row.actor # Erased /\ ledger[row.id].erased # NoTime =>
            a.expires <= ledger[row.id].erased + exportTTL

DatesOK ==
  /\ \A s \in Slots : artifacts[s] # NoArtifact => Dated(artifacts[s])
  /\ \A p \in Preparers : /\ ppc[p] # "idle" => pcall[p].at <= now
                          /\ Holding(p) => Dated(art[p])

Safe ==
  /\ StoredOK
  /\ \A p \in Preparers : PrepareOK(p)
  /\ \A d \in Downloaders : DownloadOK(d)
  /\ IssuedTokenIsStored
  /\ IssuedHasEvidence
  /\ EvidenceTruthful
  /\ OnceEach

-----------------------------------------------------------------------------
(* Types *)

\* Marking an artifact downloaded leaves the rest of it alone.
LEMMA DownloadedKeeps ==
  ASSUME NEW a \in Artifact
  PROVE  /\ Downloaded(a) \in Artifact
         /\ Downloaded(a).slot = a.slot /\ Downloaded(a).token = a.token
         /\ Downloaded(a).content = a.content /\ Downloaded(a).auth = a.auth
         /\ Downloaded(a).expires = a.expires /\ Downloaded(a).downloaded
BY DEF Downloaded, Artifact

\* Erasing dates an entry and leaves the rest of it alone.
LEMMA ErasedEntry ==
  ASSUME NEW e \in Entry, NEW t \in Int
  PROVE  /\ [e EXCEPT !.erased = t] \in Entry
         /\ [e EXCEPT !.erased = t].erased = t
BY DEF Entry

\* A request names a slot.
LEMMA SlotType ==
  ASSUME NEW c \in PrepareCall
  PROVE  SlotOf(c) \in Slots
BY DEF PrepareCall, SlotOf, Slots

\* What BuildArtifact puts together is an artifact.
LEMMA BuiltType ==
  ASSUME Typed, NEW p \in Preparers, BuildArtifact(p)
  PROVE  art'[p] \in Artifact
<1> DEFINE c == pcall[p]
           content == ExportRows(c.filters, PrepareScope[c.user][c.rev])
           expires == c.at + exportTTL
           t == exportToken(SlotOf(c), c.filters, expires, secret)
<1>1. c \in PrepareCall /\ ledger \in Seq(Entry) /\ secret \in Secrets
  BY DEF Typed, TypeOK, CallsOK, BuildArtifact
<1>2. /\ c.filters \in FilterRange /\ c.asked \in Filters /\ expires \in Int
      /\ exportAuthorizationHash(c) \in [user : Users, rev : Revisions]
  BY <1>1, ConstantAssumption DEF PrepareCall, exportAuthorizationHash
<1>3. SlotOf(c) \in Slots /\ t \in Token
  BY <1>1, <1>2, SlotType, TokenType
<1>4. content \in SUBSET Rows
  BY <1>1, ExportRowsAre
<1>5. art'[p] = [slot |-> SlotOf(c), asked |-> c.asked, filters |-> c.filters,
                auth |-> exportAuthorizationHash(c), content |-> content,
                expires |-> expires, downloaded |-> FALSE, token |-> t]
  BY DEF BuildArtifact, Typed, TypeOK
<1> HIDE DEF c, content, expires, t
<1> QED BY <1>2, <1>3, <1>4, <1>5 DEF Artifact, Rows

\* The audit trail of one slot, and what the three kinds of events add to it.
Trail == [first : Nat, replay : BOOLEAN, downloaded : Nat, conflict : BOOLEAN]

\* audit_export_prepared is counted as the first or marks a replay.
LEMMA TrailPrepared ==
  ASSUME NEW e \in Trail, NEW b \in BOOLEAN
  PROVE  LET f == PreparedEvent(e, b)
         IN  /\ f \in Trail
             /\ b => f.first = e.first + 1 /\ f.replay = e.replay
             /\ ~b => f.first = e.first /\ f.replay
             /\ f.downloaded = e.downloaded /\ f.conflict = e.conflict
<1>1. CASE b
  BY <1>1 DEF PreparedEvent, Trail
<1>2. CASE ~b
  BY <1>2 DEF PreparedEvent, Trail
<1> QED BY <1>1, <1>2

\* audit_export_conflict marks the trail and leaves its counts alone.
LEMMA TrailConflict ==
  ASSUME NEW e \in Trail
  PROVE  LET f == [e EXCEPT !.conflict = TRUE]
         IN  /\ f \in Trail
             /\ f.first = e.first /\ f.replay = e.replay
             /\ f.downloaded = e.downloaded /\ f.conflict
BY DEF Trail

\* audit_export_downloaded is counted.
LEMMA TrailDownloaded ==
  ASSUME NEW e \in Trail
  PROVE  LET f == [e EXCEPT !.downloaded = @ + 1]
         IN  /\ f \in Trail
             /\ f.first = e.first /\ f.replay = e.replay
             /\ f.downloaded = e.downloaded + 1 /\ f.conflict = e.conflict
BY DEF Trail

\* All is well typed when nobody calls yet.
LEMMA TypedInit == Init => Typed
BY ConstantAssumption DEF Init, NoEvidence, Typed, TypeOK, CallsOK, Holding, Admitted, Slots

\* The host's clock, key, authorization and events keep their types.
LEMMA TypedHost == Typed /\ HostNext => Typed'
<1> SUFFICES ASSUME Typed, HostNext PROVE Typed'
  OBVIOUS
<1> USE DEF Typed, TypeOK, CallsOK, Holding, Admitted, storeVars, prepVars, downVars
<1>1. CASE Tick
  BY <1>1 DEF Tick
<1>2. ASSUME NEW k \in Secrets, ConfigureExport(k) PROVE Typed'
  BY <1>2 DEF ConfigureExport
<1>3. ASSUME NEW u \in Users, NEW v \in RevisionsOf[u], ChangeAuthorization(u, v)
      PROVE  Typed'
  BY <1>3, ConstantAssumption DEF ChangeAuthorization
<1>4. ASSUME NEW a \in Actors, NEW x \in Results, AppendBusinessEvent(a, x) PROVE Typed'
  <2>1. [actor |-> a, at |-> now, result |-> x, erased |-> NoTime] \in Entry
    BY DEF Entry
  <2> QED BY <1>4, <2>1 DEF AppendBusinessEvent
<1>5. ASSUME NEW a \in Erasable, EraseSubject(a) PROVE Typed'
  <2> DEFINE E(i) == IF ledger[i].actor = a /\ ledger[i].erased = NoTime
                     THEN [ledger[i] EXCEPT !.erased = now] ELSE ledger[i]
  <2>1. \A i \in DOMAIN ledger : E(i) \in Entry
    BY ErasedEntry
  <2>2. ledger' = [i \in DOMAIN ledger |-> E(i)]
    BY <1>5 DEF EraseSubject
  <2> HIDE DEF E
  <2>3. ledger' \in Seq(Entry)
    BY <2>1, <2>2
  <2> QED BY <1>5, <2>3 DEF EraseSubject
<1> QED BY <1>1, <1>2, <1>3, <1>4, <1>5 DEF HostNext

\* A step of prepareExport keeps everything typed.
LEMMA TypedPrepare ==
  ASSUME Typed, NEW p \in Preparers, PrepareNext(p)
  PROVE  Typed'
<1> USE DEF Typed, TypeOK, CallsOK, Holding, Admitted, hostVars, storeVars, downVars,
            PrepareGoes, PrepareReturns
<1>1. ASSUME NEW u \in Users, NEW k \in Keys, NEW f \in Filters, NEW r \in RequestIds,
             PrepareExport(p, u, k, f, r)
      PROVE  Typed'
  <2> DEFINE c == [user |-> u, key |-> k, rev |-> revision[u], asked |-> f,
                   filters |-> NormalizeExportFilters(f, now), rid |-> r, at |-> now]
  <2>1. NormalizeExportFilters(f, now) \in FilterRange
    BY NormalizedFilter
  <2>2. c \in PrepareCall
    BY <2>1 DEF PrepareCall
  <2>3. pcall' = [pcall EXCEPT ![p] = c]
    BY <1>1 DEF PrepareExport
  <2> HIDE DEF c
  <2> QED BY <1>1, <2>2, <2>3 DEF PrepareExport
<1>2. CASE BuildArtifact(p)
  <2>1. art' = [art EXCEPT ![p] = art'[p]] /\ art'[p] \in Artifact
    BY <1>2, BuiltType DEF BuildArtifact
  <2> QED BY <1>2, <2>1 DEF BuildArtifact
<1>3. ASSUME ppc[p] \in {"find", "reread"}, UseStored(p) PROVE Typed'
  <2>1. art[p].slot \in Slots
    BY <1>3 DEF Artifact
  <2>2. artifacts[art[p].slot] \in Artifact
    BY <1>3, <2>1 DEF UseStored, Answer
  <2>3. CASE art' = [art EXCEPT ![p] = artifacts[art[p].slot]] /\ PrepareGoes(p, "sign")
    BY <1>3, <2>2, <2>3 DEF UseStored, Answer
  <2>4. CASE UNCHANGED art /\ PrepareGoes(p, "conflict")
    BY <1>3, <2>4 DEF UseStored, Answer
  <2>5. \/ art' = [art EXCEPT ![p] = artifacts[art[p].slot]] /\ PrepareGoes(p, "sign")
        \/ UNCHANGED art /\ PrepareGoes(p, "conflict")
    BY <1>3 DEF UseStored, Answer
  <2> QED BY ONLY <2>3, <2>4, <2>5
<1>4. CASE ExportByIdempotency(p)
  <2>1. ppc[p] = "find"
    BY <1>4 DEF ExportByIdempotency
  <2>2. CASE UseStored(p)
    BY ONLY <1>3, <2>1, <2>2
  <2>3. CASE ~UseStored(p)
    <3>1. ppc' = [ppc EXCEPT ![p] = "insert"] /\ UNCHANGED <<art, fresh, tok, pcall>>
      BY <1>4, <2>3 DEF ExportByIdempotency
    <3>2. UNCHANGED <<hostVars, storeVars, downVars>>
      BY <1>4, <2>3 DEF ExportByIdempotency
    <3> QED BY <2>1, <3>1, <3>2
  <2> QED BY <2>2, <2>3
<1>5. CASE InsertArtifact(p)
  <2>1. /\ art[p] \in Artifact /\ art[p].slot \in Slots
        /\ artifacts' = [artifacts EXCEPT ![art[p].slot] = art[p]]
    BY <1>5 DEF InsertArtifact, Artifact
  <2>2. \A s \in Slots : artifacts'[s] # NoArtifact => artifacts'[s].slot = s
    BY <2>1
  <2>3. \A s \in Slots : artifacts[s] # NoArtifact => artifacts'[s] # NoArtifact
    BY <2>1, SentinelAssumption
  <2>4. \A d \in Downloaders : Admitted(d) => seen[d].slot \in Slots
    BY DEF Artifact
  <2>5. \E b \in BOOLEAN, l \in {"sign", "reread"} :
          fresh' = [fresh EXCEPT ![p] = b] /\ ppc' = [ppc EXCEPT ![p] = l]
    <3>1. fresh = [fresh EXCEPT ![p] = fresh[p]] /\ fresh[p] \in BOOLEAN
      OBVIOUS
    <3> QED BY <1>5, <3>1 DEF InsertArtifact
  <2> QED BY <1>5, <2>1, <2>2, <2>3, <2>4, <2>5 DEF InsertArtifact
<1>6. CASE InsertRefused(p)
  BY <1>6 DEF InsertRefused
<1>7. CASE RereadArtifact(p)
  BY <1>3, <1>7 DEF RereadArtifact
<1>8. CASE SignToken(p)
  <2> DEFINE t == exportToken(art[p].slot, art[p].filters, art[p].expires, secret)
  <2>1. t \in Token
    BY <1>8, TokenType DEF SignToken, Artifact
  <2>2. tok' = [tok EXCEPT ![p] = t]
    BY <1>8 DEF SignToken
  <2> HIDE DEF t
  <2> QED BY <1>8, <2>1, <2>2 DEF SignToken
<1>9. CASE AppendPreparedEvidence(p)
  <2>1. art[p].slot \in Slots
    BY <1>9 DEF AppendPreparedEvidence, Artifact
  <2> DEFINE f == PreparedEvent(evidence[art[p].slot], fresh[p])
  <2>2. f \in Trail
    BY <2>1, TrailPrepared DEF Trail
  <2>3. evidence' = [evidence EXCEPT ![art[p].slot] = f]
    BY <1>9 DEF AppendPreparedEvidence
  <2> HIDE DEF f
  <2> QED BY <1>9, <2>1, <2>2, <2>3 DEF AppendPreparedEvidence, Trail
<1>10. CASE AnswerToken(p)
  BY <1>10 DEF AnswerToken
<1>11. CASE AppendConflictEvidence(p)
  <2> DEFINE e == [slot |-> art[p].slot, rev |-> pcall[p].rev]
  <2>1. /\ art[p].slot \in Slots /\ e \in [slot : Slots, rev : Revisions]
        /\ pcall[p].rid \in RequestIds
    BY <1>11 DEF AppendConflictEvidence, Artifact, PrepareCall
  <2>2. conflicts' \in [RequestIds \ {NoRequestId} ->
                          [slot : Slots, rev : Revisions] \cup {NoConflict}]
    <3>1. \/ UNCHANGED conflicts
          \/ pcall[p].rid # NoRequestId /\ conflicts' = [conflicts EXCEPT ![pcall[p].rid] = e]
      BY <1>11 DEF AppendConflictEvidence
    <3> HIDE DEF e
    <3> QED BY <2>1, <3>1
  <2> DEFINE f == [evidence[art[p].slot] EXCEPT !.conflict = TRUE]
  <2>3. f \in Trail
    BY <2>1, TrailConflict DEF Trail
  <2>4. evidence' = [evidence EXCEPT ![art[p].slot] = f]
    BY <1>11 DEF AppendConflictEvidence
  <2> HIDE DEF f
  <2> QED BY <1>11, <2>1, <2>2, <2>3, <2>4 DEF AppendConflictEvidence, Trail
<1>12. CASE AnswerConflict(p)
  BY <1>12 DEF AnswerConflict
<1>13. CASE PrepareFails(p)
  BY <1>13 DEF PrepareFails
<1> QED BY <1>1, <1>2, <1>4, <1>5, <1>6, <1>7, <1>8, <1>9, <1>10, <1>11, <1>12, <1>13
        DEF PrepareNext

\* A step of downloadExport keeps everything typed.
LEMMA TypedDownload ==
  ASSUME Typed, NEW d \in Downloaders, DownloadNext(d)
  PROVE  Typed'
<1> USE DEF Typed, TypeOK, CallsOK, Holding, Admitted, hostVars, storeVars, prepVars,
            DownloadGoes, DownloadReturns
<1>1. ASSUME NEW u \in Users, NEW t \in issued, DownloadExport(d, u, t)
      PROVE  Typed'
  <2>1. [user |-> u, rev |-> revision[u], token |-> t] \in DownloadCall
    BY DEF DownloadCall
  <2> QED BY <1>1, <2>1 DEF DownloadExport
<1>2. CASE CheckDownload(d)
  <2>1. PICK s \in Slots : /\ artifacts[s] # NoArtifact
                           /\ seen' = [seen EXCEPT ![d] = artifacts[s]]
    BY <1>2 DEF CheckDownload, ExportByTokenHash
  <2> QED BY <1>2, <2>1 DEF CheckDownload
<1>3. CASE ReadDownloadCount(d)
  BY <1>3 DEF ReadDownloadCount, AfterCount
<1>4. CASE MarkDownloaded(d)
  <2> DEFINE here == seen[d].slot
  <2>1. here \in Slots
    BY <1>4 DEF MarkDownloaded, Artifact
  <2>2. /\ artifacts[here] \in Artifact
        /\ artifacts' = [artifacts EXCEPT ![here] = Downloaded(artifacts[here])]
    BY <1>4, <2>1 DEF MarkDownloaded
  <2>3. Downloaded(artifacts[here]) \in Artifact /\ Downloaded(artifacts[here]).slot = here
    BY <2>1, <2>2, DownloadedKeeps, SentinelAssumption
  <2> HIDE DEF here
  <2>4. \A e \in Downloaders : Admitted(e) => seen[e].slot \in Slots
    BY DEF Artifact
  <2>5. /\ artifacts' \in [Slots -> Artifact \cup {NoArtifact}]
        /\ \A s \in Slots : artifacts'[s] # NoArtifact => artifacts'[s].slot = s
        /\ \A s \in Slots : artifacts[s] # NoArtifact => artifacts'[s] # NoArtifact
    BY <2>1, <2>2, <2>3, SentinelAssumption
  <2>6. /\ UNCHANGED <<hostVars, prepVars, evidence, conflicts, issued>>
        /\ \/ dpc' = [dpc EXCEPT ![d] = "evidence"] /\ UNCHANGED <<dcall, seen>>
           \/ /\ dpc' = [dpc EXCEPT ![d] = "idle"]
              /\ dcall' = [dcall EXCEPT ![d] = NoCall]
              /\ seen' = [seen EXCEPT ![d] = NoArtifact]
    BY <1>4 DEF MarkDownloaded
  <2>7. TypeOK'
    BY <2>5, <2>6
  <2>8. \A e \in Downloaders : /\ dpc'[e] # "idle" => dcall'[e] \in DownloadCall
                               /\ Admitted(e)' => Admitted(e) /\ seen'[e] = seen[e]
    BY <1>4, <2>6 DEF MarkDownloaded
  <2>9. \A q \in Preparers : /\ ppc'[q] # "idle" => pcall'[q] \in PrepareCall
                             /\ Holding(q)' => art'[q] \in Artifact
                             /\ ppc'[q] \in {"evidence", "answer"} => tok'[q] \in Token
    BY <2>6
  <2>10. \A e \in Downloaders : Admitted(e)' => /\ seen'[e] \in Artifact
                                                /\ artifacts'[seen'[e].slot] # NoArtifact
    BY <2>4, <2>5, <2>8
  <2>11. CallsOK'
    BY <2>5, <2>8, <2>9, <2>10
  <2> QED BY <2>7, <2>11
<1>5. CASE AppendDownloadEvidence(d)
  <2>1. seen[d].slot \in Slots
    BY <1>5 DEF AppendDownloadEvidence, Artifact
  <2> DEFINE f == [evidence[seen[d].slot] EXCEPT !.downloaded = @ + 1]
  <2>2. f \in Trail
    BY <2>1, TrailDownloaded DEF Trail
  <2>3. evidence' = [evidence EXCEPT ![seen[d].slot] = f]
    BY <1>5 DEF AppendDownloadEvidence
  <2> HIDE DEF f
  <2> QED BY <1>5, <2>1, <2>2, <2>3 DEF AppendDownloadEvidence, Trail
<1>6. CASE DeliverContent(d)
  BY <1>6 DEF DeliverContent
<1>7. CASE DownloadFails(d)
  BY <1>7 DEF DownloadFails
<1> QED BY <1>1, <1>2, <1>3, <1>4, <1>5, <1>6, <1>7 DEF DownloadNext

\* Every state of every behaviour is well typed, whatever the requests of
\* prepareExport and downloadExport interleave to.
THEOREM TypeCorrect == Spec => []TypeOK
<1>1. Typed /\ [Next]_vars => Typed'
  <2> SUFFICES ASSUME Typed, [Next]_vars PROVE Typed'
    OBVIOUS
  <2>1. CASE UNCHANGED vars
    BY <2>1 DEF vars, hostVars, storeVars, prepVars, downVars,
                Typed, TypeOK, CallsOK, Holding, Admitted
  <2> QED BY <2>1, TypedHost, TypedPrepare, TypedDownload DEF Next
<1>2. Typed => TypeOK
  BY DEF Typed
<1> QED BY <1>1, <1>2, TypedInit, PTL DEF Spec

-----------------------------------------------------------------------------
(* What a step leaves alone. *)

\* Artifacts stay what they are but for becoming downloaded; evidence and
\* tokens are never taken back.
Grows ==
  /\ \A s \in Slots : artifacts[s] # NoArtifact =>
       /\ artifacts'[s] # NoArtifact
       /\ artifacts'[s].token = artifacts[s].token
       /\ artifacts'[s].content = artifacts[s].content
       /\ artifacts[s].downloaded => artifacts'[s].downloaded
  /\ \A s \in Slots : PreparedEvidence(s) => PreparedEvidence(s)'
  /\ issued \subseteq issued'

\* Slots that requests have in hand are slots.
LEMMA SlotsInHand ==
  ASSUME Typed
  PROVE  /\ \A q \in Preparers : Holding(q) => art[q].slot \in Slots
         /\ \A d \in Downloaders : Admitted(d) => seen[d].slot \in Slots
BY DEF Typed, CallsOK, Artifact

\* A step that writes no table loses nothing from one.
LEMMA QuietGrows == UNCHANGED storeVars => Grows
BY DEF storeVars, Grows, PreparedEvidence

\* A prepare request that stands still stays right.
LEMMA PrepareFrame ==
  ASSUME Typed, NEW q \in Preparers, PrepareOK(q), Grows,
         ppc'[q] = ppc[q], art'[q] = art[q], tok'[q] = tok[q]
  PROVE  PrepareOK(q)'
<1>1. Holding(q) => art[q].slot \in Slots
  BY SlotsInHand
<1> QED BY <1>1 DEF PrepareOK, Holding, Answered, Grows, PreparedEvidence

\* A download that stands still stays right.
LEMMA DownloadFrame ==
  ASSUME Typed, NEW d \in Downloaders, DownloadOK(d), Grows,
         dpc'[d] = dpc[d], dcall'[d] = dcall[d], seen'[d] = seen[d]
  PROVE  DownloadOK(d)'
<1>1. Admitted(d) => seen[d].slot \in Slots /\ artifacts[seen[d].slot] # NoArtifact
  BY SlotsInHand DEF Typed, CallsOK
<1> QED BY <1>1 DEF DownloadOK, Admitted, Grows

\* A step that changes no table keeps Safe if the requests stay right and none
\* of them becomes one that is about to record a creation or a first download.
LEMMA QuietStep ==
  ASSUME Typed, Safe, UNCHANGED storeVars,
         \A q \in Preparers : PrepareOK(q)',
         \A d \in Downloaders : DownloadOK(d)',
         \A q \in Preparers : Creating(q)' => Creating(q) /\ art'[q] = art[q],
         \A d \in Downloaders : dpc'[d] = "evidence" =>
           dpc[d] = "evidence" /\ seen'[d] = seen[d]
  PROVE  Safe'
<1>1. StoredOK' /\ IssuedTokenIsStored' /\ IssuedHasEvidence' /\ EvidenceTruthful'
  BY DEF storeVars, Safe, StoredOK, IssuedTokenIsStored, IssuedHasEvidence,
         EvidenceTruthful, PreparedEvidence
<1>2. OnceEach'
  BY DEF storeVars, Safe, OnceEach, RecordedOnce, Creating
<1> QED BY <1>1, <1>2 DEF Safe

-----------------------------------------------------------------------------
(* The steps keep Safe. *)

\* Nothing is stored, issued or recorded at first.
LEMMA SafeInit == Init => Safe
BY DEF Init, NoEvidence, Safe, StoredOK, PrepareOK, DownloadOK, Holding, Answered, Admitted,
       Creating, IssuedTokenIsStored, IssuedHasEvidence, EvidenceTruthful, PreparedEvidence,
       OnceEach, RecordedOnce

\* A step that leaves the tables and the requests alone keeps Safe.
LEMMA SafeStutter ==
  ASSUME Typed, Safe, UNCHANGED <<storeVars, prepVars, downVars>>
  PROVE  Safe'
<1>1. \A q \in Preparers : PrepareOK(q)'
  BY PrepareFrame, QuietGrows DEF Safe, prepVars
<1>2. \A d \in Downloaders : DownloadOK(d)'
  BY DownloadFrame, QuietGrows DEF Safe, downVars
<1> QED BY <1>1, <1>2, QuietStep DEF prepVars, downVars, Creating

\* What the host does meanwhile disturbs no artifact and no request.
LEMMA SafeHost == Typed /\ Safe /\ HostNext => Safe'
BY SafeStutter DEF HostNext, Tick, ConfigureExport, ChangeAuthorization,
   AppendBusinessEvent, EraseSubject

\* A step of preparer p that changes no table.
LEMMA QuietPrepare ==
  ASSUME Typed, Safe, NEW p \in Preparers, UNCHANGED <<storeVars, downVars>>,
         \A q \in Preparers \ {p} :
           /\ ppc'[q] = ppc[q] /\ art'[q] = art[q]
           /\ tok'[q] = tok[q] /\ fresh'[q] = fresh[q],
         PrepareOK(p)', Creating(p)' => Creating(p) /\ art'[p] = art[p]
  PROVE  Safe'
<1>1. \A q \in Preparers : PrepareOK(q)'
  BY PrepareFrame, QuietGrows DEF Safe
<1>2. \A d \in Downloaders : DownloadOK(d)'
  BY DownloadFrame, QuietGrows DEF Safe, downVars
<1>3. \A q \in Preparers : Creating(q)' => Creating(q) /\ art'[q] = art[q]
  BY DEF Creating
<1> QED BY <1>1, <1>2, <1>3, QuietStep DEF downVars

\* A step of downloader d that changes no table.
LEMMA QuietDownload ==
  ASSUME Typed, Safe, NEW d \in Downloaders, UNCHANGED <<storeVars, prepVars>>,
         \A e \in Downloaders \ {d} :
           dpc'[e] = dpc[e] /\ dcall'[e] = dcall[e] /\ seen'[e] = seen[e],
         DownloadOK(d)', dpc'[d] = "evidence" => dpc[d] = "evidence" /\ seen'[d] = seen[d]
  PROVE  Safe'
<1>1. \A q \in Preparers : PrepareOK(q)'
  BY PrepareFrame, QuietGrows DEF Safe, prepVars
<1>2. \A e \in Downloaders : DownloadOK(e)'
  BY DownloadFrame, QuietGrows DEF Safe
<1> QED BY <1>1, <1>2, QuietStep DEF prepVars, Creating

\* A preparer that goes idle.
LEMMA SafeReturns ==
  ASSUME Typed, Safe, NEW p \in Preparers, PrepareReturns(p),
         UNCHANGED <<storeVars, downVars>>
  PROVE  Safe'
<1>1. /\ \A q \in Preparers \ {p} :
           /\ ppc'[q] = ppc[q] /\ art'[q] = art[q]
           /\ tok'[q] = tok[q] /\ fresh'[q] = fresh[q]
      /\ ppc'[p] = "idle"
  BY DEF PrepareReturns, Typed, TypeOK
<1>2. PrepareOK(p)' /\ ~Creating(p)'
  BY <1>1 DEF PrepareOK, Holding, Answered, Creating
<1> QED BY <1>1, <1>2, QuietPrepare

\* The artifact that BuildArtifact puts together is sound.
LEMMA BuiltSound ==
  ASSUME Typed, NEW p \in Preparers, BuildArtifact(p)
  PROVE  art'[p] \in SoundArtifact /\ ~art'[p].downloaded
<1> DEFINE c == pcall[p]
           content == ExportRows(c.filters, PrepareScope[c.user][c.rev])
           a == art'[p]
<1>1. /\ a.token.slot = SlotOf(c) /\ a.slot = SlotOf(c) /\ a.content = content
      /\ a.auth.user = c.user /\ a.auth.rev = c.rev /\ ~a.downloaded
  BY DEF BuildArtifact, Typed, TypeOK, exportToken, exportAuthorizationHash
<1>2. ledger \in Seq(Entry)
  BY DEF Typed, TypeOK
<1>3. \A row \in content : InScope(row.actor, PrepareScope[c.user][c.rev])
  BY <1>2, ExportRowsAre
<1>4. a \in Artifact
  BY BuiltType
<1> HIDE DEF a, c, content
<1> QED BY <1>1, <1>3, <1>4 DEF SoundArtifact, a

\* BuildArtifact puts a sound artifact in the preparer's hands and stores nothing.
LEMMA SafeBuild ==
  ASSUME Typed, Safe, NEW p \in Preparers, BuildArtifact(p)
  PROVE  Safe'
<1>1. /\ art' = [art EXCEPT ![p] = art'[p]]
      /\ art'[p] \in SoundArtifact /\ ~art'[p].downloaded
  BY BuiltSound DEF BuildArtifact, Typed, TypeOK
<1>2. /\ \A q \in Preparers \ {p} :
           /\ ppc'[q] = ppc[q] /\ art'[q] = art[q]
           /\ tok'[q] = tok[q] /\ fresh'[q] = fresh[q]
      /\ ppc'[p] = "find"
  BY <1>1 DEF BuildArtifact, PrepareGoes, Typed, TypeOK
<1>3. PrepareOK(p)' /\ ~Creating(p)'
  BY <1>1, <1>2 DEF PrepareOK, Holding, Answered, Creating
<1> QED BY <1>2, <1>3, QuietPrepare DEF BuildArtifact, PrepareGoes

\* A stored artifact is answered with: a replay, a conflict or a refusal.
LEMMA SafeUseStored ==
  ASSUME Typed, Safe, NEW p \in Preparers, ppc[p] \in {"find", "reread"}, UseStored(p)
  PROVE  Safe'
<1> DEFINE s == art[p].slot
           stored == artifacts[s]
<1>1. s \in Slots /\ stored # NoArtifact /\ stored \in SoundArtifact /\ stored.slot = s
  BY SlotsInHand DEF Holding, UseStored, Answer, Safe, StoredOK, Typed, CallsOK
<1>2. UNCHANGED <<storeVars, downVars>>
  BY DEF UseStored, Answer, PrepareGoes
<1>3. CASE art' = [art EXCEPT ![p] = stored] /\ PrepareGoes(p, "sign")
  <2>1. /\ \A q \in Preparers \ {p} :
             /\ ppc'[q] = ppc[q] /\ art'[q] = art[q]
             /\ tok'[q] = tok[q] /\ fresh'[q] = fresh[q]
        /\ ppc'[p] = "sign" /\ art'[p] = stored /\ fresh'[p] = FALSE
    BY <1>3 DEF UseStored, Answer, PrepareGoes, Typed, TypeOK
  <2> HIDE DEF stored, s
  <2>2. artifacts'[art'[p].slot] = stored
    BY <1>1, <1>2, <2>1 DEF stored, storeVars
  <2>3. PrepareOK(p)' /\ ~Creating(p)'
    BY <1>1, <2>1, <2>2 DEF PrepareOK, Holding, Answered, Creating
  <2> QED BY <1>2, <2>1, <2>3, QuietPrepare
<1>4. CASE UNCHANGED art /\ PrepareGoes(p, "conflict")
  <2>1. /\ \A q \in Preparers \ {p} :
             /\ ppc'[q] = ppc[q] /\ art'[q] = art[q]
             /\ tok'[q] = tok[q] /\ fresh'[q] = fresh[q]
        /\ ppc'[p] = "conflict" /\ art'[p] = art[p]
    BY <1>4 DEF UseStored, Answer, PrepareGoes, Typed, TypeOK
  <2>2. artifacts'[art'[p].slot] # NoArtifact /\ art[p] \in SoundArtifact
    BY <1>1, <1>2, <2>1 DEF storeVars, Safe, PrepareOK, Holding
  <2>3. PrepareOK(p)' /\ ~Creating(p)'
    BY <2>1, <2>2 DEF PrepareOK, Holding, Answered, Creating
  <2> QED BY <1>2, <2>1, <2>3, QuietPrepare
<1> QED BY <1>3, <1>4 DEF UseStored, Answer

\* The token that SignToken computes again is the stored one, or it stops.
LEMMA SafeSign ==
  ASSUME Typed, Safe, NEW p \in Preparers, SignToken(p)
  PROVE  Safe'
<1> DEFINE t == exportToken(art[p].slot, art[p].filters, art[p].expires, secret)
<1>1. tok' = [tok EXCEPT ![p] = t] /\ t = art[p].token
  BY DEF SignToken, TokenStands
<1>2. /\ \A q \in Preparers \ {p} :
           /\ ppc'[q] = ppc[q] /\ art'[q] = art[q]
           /\ tok'[q] = tok[q] /\ fresh'[q] = fresh[q]
      /\ ppc[p] = "sign" /\ ppc'[p] = "evidence"
      /\ tok'[p] = t /\ art'[p] = art[p] /\ fresh'[p] = fresh[p]
  BY <1>1 DEF SignToken, PrepareGoes, Typed, TypeOK
<1> HIDE DEF t
<1>3. PrepareOK(p)
  BY DEF Safe
<1>4. UNCHANGED <<storeVars, downVars>>
  BY DEF SignToken, PrepareGoes
<1>5. PrepareOK(p)'
  BY <1>1, <1>2, <1>3, <1>4 DEF PrepareOK, Holding, Answered, storeVars
<1>6. Creating(p)' => Creating(p)
  BY <1>2 DEF Creating
<1> QED BY <1>2, <1>4, <1>5, <1>6, QuietPrepare

\* The steps that only move preparer p on, with what it has in hand.
LEMMA SafeMove ==
  ASSUME Typed, Safe, NEW p \in Preparers, UNCHANGED <<art, fresh, tok, storeVars, downVars>>,
         \/ ppc[p] = "idle" /\ ppc' = [ppc EXCEPT ![p] = "list"]
         \/ ppc[p] = "find" /\ ppc' = [ppc EXCEPT ![p] = "insert"]
         \/ ppc[p] = "insert" /\ ppc' = [ppc EXCEPT ![p] = "reread"]
  PROVE  Safe'
<1>1. /\ \A q \in Preparers \ {p} :
           /\ ppc'[q] = ppc[q] /\ art'[q] = art[q]
           /\ tok'[q] = tok[q] /\ fresh'[q] = fresh[q]
      /\ \/ ppc[p] = "idle" /\ ppc'[p] = "list"
         \/ ppc[p] = "find" /\ ppc'[p] = "insert"
         \/ ppc[p] = "insert" /\ ppc'[p] = "reread"
      /\ art'[p] = art[p]
  BY DEF Typed, TypeOK
<1>2. PrepareOK(p)' /\ ~Creating(p)'
  BY <1>1 DEF Safe, PrepareOK, Holding, Answered, Creating
<1> QED BY <1>1, <1>2, QuietPrepare

\* The unique index: a new artifact disturbs none, and nothing was recorded of
\* it yet, so whoever stored it is the one that records its creation.
LEMMA SafeInsert ==
  ASSUME Typed, Safe, NEW p \in Preparers, InsertArtifact(p)
  PROVE  Safe'
<1> DEFINE here == art[p].slot
<1>1. /\ here \in Slots /\ artifacts[here] = NoArtifact
      /\ art[p] \in SoundArtifact /\ art[p] # NoArtifact /\ ppc[p] = "insert"
  BY SlotsInHand, SentinelAssumption
     DEF InsertArtifact, KeyFree, Safe, PrepareOK, Holding, SoundArtifact
<1>2. artifacts'[here] = art[p] /\ \A s \in Slots \ {here} : artifacts'[s] = artifacts[s]
  BY <1>1 DEF InsertArtifact, Typed, TypeOK
<1>3. UNCHANGED <<art, tok, evidence, conflicts, issued, downVars>>
  BY DEF InsertArtifact, PrepareGoes
<1>4. /\ \A q \in Preparers \ {p} : ppc'[q] = ppc[q] /\ fresh'[q] = fresh[q]
      /\ \/ ppc'[p] = "sign" \/ ppc'[p] = "reread"
  BY DEF InsertArtifact, PrepareGoes, Typed, TypeOK
<1> HIDE DEF here
<1>5. Grows
  BY <1>1, <1>2, <1>3 DEF Grows, PreparedEvidence
<1>6. \A q \in Preparers \ {p} : PrepareOK(q)'
  BY <1>3, <1>4, <1>5, PrepareFrame DEF Safe
<1>7. \A d \in Downloaders : DownloadOK(d)'
  BY <1>3, <1>5, DownloadFrame DEF Safe, downVars
<1>8. PrepareOK(p)'
  BY <1>1, <1>2, <1>3, <1>4 DEF PrepareOK, Holding, Answered, here
<1>9. StoredOK'
  BY <1>1, <1>2 DEF Safe, StoredOK
<1>10. IssuedTokenIsStored'
  <2>1. \A t \in issued : t.slot \in Slots
    BY DEF Typed, TypeOK, Token
  <2> QED BY <1>3, <1>5, <2>1 DEF Safe, IssuedTokenIsStored, Grows
<1>11. IssuedHasEvidence'
  BY <1>3 DEF Safe, IssuedHasEvidence, PreparedEvidence
<1>12. EvidenceTruthful'
  BY <1>3, <1>5 DEF Safe, EvidenceTruthful, PreparedEvidence, Grows
<1>13. OnceEach'
  <2>1. evidence[here] \in Trail /\ evidence[here].first = 0
    BY <1>1 DEF Safe, EvidenceTruthful, PreparedEvidence, Typed, TypeOK, Trail
  <2>2. \A q \in Preparers \ {p} : /\ Creating(q)' <=> Creating(q)
                                   /\ Creating(q) => art[q].slot # here
    BY <1>1, <1>4 DEF Safe, PrepareOK, Answered, Creating
  <2>3. /\ \A q \in Preparers : Creating(q)' => evidence'[art'[q].slot].first = 0
        /\ \A q, r \in Preparers :
             q # r /\ Creating(q)' /\ Creating(r)' => art'[q].slot # art'[r].slot
    BY <1>3, <2>1, <2>2 DEF Safe, OnceEach, here
  <2> QED BY <1>3, <2>3 DEF Safe, OnceEach, RecordedOnce, downVars
<1> QED BY <1>6, <1>7, <1>8, <1>9, <1>10, <1>11, <1>12, <1>13 DEF Safe

\* The one that created the artifact records that once; the others a replay.
LEMMA SafePrepared ==
  ASSUME Typed, Safe, NEW p \in Preparers, AppendPreparedEvidence(p)
  PROVE  Safe'
<1> DEFINE here == art[p].slot
           f == PreparedEvent(evidence[here], fresh[p])
<1>1. /\ here \in Slots /\ artifacts[here] # NoArtifact
      /\ ppc[p] = "evidence" /\ evidence[here] \in Trail /\ fresh[p] \in BOOLEAN
  BY SlotsInHand DEF AppendPreparedEvidence, Safe, PrepareOK, Holding, Answered,
                     Typed, TypeOK, Trail
<1>2. /\ f \in Trail
      /\ fresh[p] => f.first = evidence[here].first + 1 /\ f.replay = evidence[here].replay
      /\ ~fresh[p] => f.first = evidence[here].first /\ f.replay
      /\ f.downloaded = evidence[here].downloaded /\ f.conflict = evidence[here].conflict
  BY <1>1, TrailPrepared
<1>3. evidence'[here] = f /\ \A s \in Slots \ {here} : evidence'[s] = evidence[s]
  BY <1>1 DEF AppendPreparedEvidence, Typed, TypeOK
<1>4. UNCHANGED <<art, fresh, tok, artifacts, conflicts, issued, downVars>>
  BY DEF AppendPreparedEvidence, PrepareGoes
<1>5. ppc'[p] = "answer" /\ \A q \in Preparers \ {p} : ppc'[q] = ppc[q]
  BY DEF AppendPreparedEvidence, PrepareGoes, Typed, TypeOK
<1> HIDE DEF here, f
<1>6. evidence'[here].first > 0 \/ evidence'[here].replay
  <2>1. CASE fresh[p]
    BY <1>1, <1>2, <1>3, <2>1 DEF Trail
  <2>2. CASE ~fresh[p]
    BY <1>1, <1>2, <1>3, <2>2
  <2> QED BY <2>1, <2>2
<1>7. Grows
  <2>1. \A s \in Slots : PreparedEvidence(s) => evidence'[s].first > 0 \/ evidence'[s].replay
    BY <1>3, <1>6 DEF PreparedEvidence
  <2> QED BY <1>4, <2>1 DEF Grows, PreparedEvidence
<1>8. \A q \in Preparers \ {p} : PrepareOK(q)'
  BY <1>4, <1>5, <1>7, PrepareFrame DEF Safe
<1>9. PrepareOK(p)'
  BY <1>1, <1>4, <1>5, <1>6 DEF Safe, PrepareOK, Holding, Answered, here, PreparedEvidence
<1>10. \A d \in Downloaders : DownloadOK(d)'
  BY <1>4, <1>7, DownloadFrame DEF Safe, downVars
<1>11. StoredOK' /\ IssuedTokenIsStored'
  BY <1>4 DEF Safe, StoredOK, IssuedTokenIsStored
<1>12. IssuedHasEvidence'
  <2>1. \A t \in issued : t.slot \in Slots
    BY DEF Typed, TypeOK, Token
  <2> QED BY <1>4, <1>7, <2>1 DEF Safe, IssuedHasEvidence, Grows
<1>13. EvidenceTruthful'
  <2>1. \A r \in DOMAIN conflicts : conflicts[r] # NoConflict => conflicts[r].slot \in Slots
    BY DEF Typed, TypeOK
  <2> QED BY <1>1, <1>2, <1>3, <1>4, <2>1 DEF Safe, EvidenceTruthful, PreparedEvidence
<1>14. OnceEach'
  <2>1. Creating(p) <=> fresh[p]
    BY <1>1 DEF Creating
  <2>2. ~Creating(p)' /\ \A q \in Preparers \ {p} : Creating(q)' <=> Creating(q)
    BY <1>4, <1>5 DEF Creating
  <2>3. Creating(p) => evidence[here].first = 0
    BY DEF Safe, OnceEach, here
  <2>4. RecordedOnce'
    BY <1>1, <1>2, <1>3, <2>1, <2>3 DEF Safe, OnceEach, RecordedOnce
  <2>5. \A q \in Preparers \ {p} : Creating(q) =>
          /\ art[q].slot \in Slots /\ evidence[art[q].slot].first = 0
          /\ Creating(p) => art[q].slot # here
    BY SlotsInHand DEF Safe, OnceEach, Creating, Holding, here
  <2>6. \A q \in Preparers : Creating(q)' => evidence'[art'[q].slot].first = 0
    BY <1>1, <1>2, <1>3, <1>4, <2>1, <2>2, <2>5
  <2>7. \A d \in Downloaders : dpc[d] = "evidence" => evidence'[seen[d].slot].downloaded = 0
    <3>1. \A d \in Downloaders : dpc[d] = "evidence" => seen[d].slot \in Slots
      BY SlotsInHand DEF Admitted
    <3> QED BY <1>2, <1>3, <3>1 DEF Safe, OnceEach
  <2> QED BY <1>4, <2>2, <2>4, <2>6, <2>7 DEF Safe, OnceEach, downVars
<1> QED BY <1>8, <1>9, <1>10, <1>11, <1>12, <1>13, <1>14 DEF Safe

\* The token that goes out is the one of the stored artifact, and recorded.
LEMMA SafeAnswer ==
  ASSUME Typed, Safe, NEW p \in Preparers, AnswerToken(p)
  PROVE  Safe'
<1> DEFINE here == art[p].slot
           t == tok[p]
<1>1. /\ here \in Slots /\ artifacts[here] # NoArtifact /\ t.slot = here
      /\ artifacts[here].token = t /\ PreparedEvidence(here)
  BY SlotsInHand DEF AnswerToken, Safe, PrepareOK, Holding, Answered, SoundArtifact
<1>2. issued' = issued \cup {t} /\ UNCHANGED <<artifacts, evidence, conflicts, downVars>>
  BY DEF AnswerToken
<1>3. /\ \A q \in Preparers \ {p} :
           /\ ppc'[q] = ppc[q] /\ art'[q] = art[q]
           /\ tok'[q] = tok[q] /\ fresh'[q] = fresh[q]
      /\ ppc'[p] = "idle"
  BY DEF AnswerToken, PrepareReturns, Typed, TypeOK
<1> HIDE DEF here, t
<1>4. Grows
  BY <1>2 DEF Grows, PreparedEvidence
<1>5. \A q \in Preparers \ {p} : PrepareOK(q)'
  BY <1>3, <1>4, PrepareFrame DEF Safe
<1>6. PrepareOK(p)'
  BY <1>3 DEF PrepareOK, Holding, Answered
<1>7. \A d \in Downloaders : DownloadOK(d)'
  BY <1>2, <1>4, DownloadFrame DEF Safe, downVars
<1>8. StoredOK' /\ EvidenceTruthful'
  BY <1>2 DEF Safe, StoredOK, EvidenceTruthful, PreparedEvidence
<1>9. IssuedTokenIsStored'
  BY <1>1, <1>2 DEF Safe, IssuedTokenIsStored
<1>10. IssuedHasEvidence'
  BY <1>1, <1>2 DEF Safe, IssuedHasEvidence, PreparedEvidence
<1>11. OnceEach'
  BY <1>2, <1>3 DEF Safe, OnceEach, RecordedOnce, Creating, downVars
<1> QED BY <1>5, <1>6, <1>7, <1>8, <1>9, <1>10, <1>11 DEF Safe

\* The conflict that is recorded is with an artifact that is stored.
LEMMA SafeConflict ==
  ASSUME Typed, Safe, NEW p \in Preparers, AppendConflictEvidence(p)
  PROVE  Safe'
<1> DEFINE here == art[p].slot
           f == [evidence[here] EXCEPT !.conflict = TRUE]
           event == [slot |-> here, rev |-> pcall[p].rev]
<1>1. /\ here \in Slots /\ artifacts[here] # NoArtifact
      /\ ppc[p] = "conflict" /\ evidence[here] \in Trail
  BY SlotsInHand DEF AppendConflictEvidence, Safe, PrepareOK, Holding, Typed, TypeOK, Trail
<1>2. /\ f.first = evidence[here].first /\ f.replay = evidence[here].replay
      /\ f.downloaded = evidence[here].downloaded /\ f.conflict
  BY <1>1, TrailConflict
<1>3. evidence'[here] = f /\ \A s \in Slots \ {here} : evidence'[s] = evidence[s]
  BY <1>1 DEF AppendConflictEvidence, Typed, TypeOK
<1>4. UNCHANGED <<art, fresh, tok, artifacts, issued, downVars>>
  BY DEF AppendConflictEvidence, PrepareGoes
<1>5. ppc'[p] = "refused" /\ \A q \in Preparers \ {p} : ppc'[q] = ppc[q]
  BY DEF AppendConflictEvidence, PrepareGoes, Typed, TypeOK
<1>6. event.slot = here
  OBVIOUS
<1>7. /\ DOMAIN conflicts' = DOMAIN conflicts
      /\ \A r \in DOMAIN conflicts : conflicts'[r] \in {conflicts[r], event}
  BY DEF AppendConflictEvidence, Typed, TypeOK
<1> HIDE DEF here, f, event
<1>8. \A s \in Slots : /\ evidence'[s].first = evidence[s].first
                       /\ evidence'[s].replay = evidence[s].replay
                       /\ evidence'[s].downloaded = evidence[s].downloaded
                       /\ evidence[s].conflict => evidence'[s].conflict
  BY <1>2, <1>3
<1>9. Grows
  BY <1>4, <1>8 DEF Grows, PreparedEvidence
<1>10. \A q \in Preparers \ {p} : PrepareOK(q)'
  BY <1>4, <1>5, <1>9, PrepareFrame DEF Safe
<1>11. PrepareOK(p)'
  BY <1>1, <1>4, <1>5 DEF Safe, PrepareOK, Holding, Answered, here
<1>12. \A d \in Downloaders : DownloadOK(d)'
  BY <1>4, <1>9, DownloadFrame DEF Safe, downVars
<1>13. StoredOK' /\ IssuedTokenIsStored'
  BY <1>4 DEF Safe, StoredOK, IssuedTokenIsStored
<1>14. IssuedHasEvidence'
  <2>1. \A t \in issued : t.slot \in Slots
    BY DEF Typed, TypeOK, Token
  <2> QED BY <1>4, <1>9, <2>1 DEF Safe, IssuedHasEvidence, Grows
<1>15. EvidenceTruthful'
  <2>1. \A r \in DOMAIN conflicts : conflicts[r] # NoConflict => conflicts[r].slot \in Slots
    BY DEF Typed, TypeOK
  <2>2. \A s \in Slots :
          /\ PreparedEvidence(s)' \/ evidence'[s].conflict => artifacts'[s] # NoArtifact
          /\ evidence'[s].downloaded > 0 =>
               artifacts'[s] # NoArtifact /\ artifacts'[s].downloaded
    BY <1>1, <1>3, <1>4, <1>8 DEF Safe, EvidenceTruthful, PreparedEvidence
  <2>3. \A r \in DOMAIN conflicts' :
          conflicts'[r] # NoConflict => evidence'[conflicts'[r].slot].conflict
    BY <1>2, <1>3, <1>6, <1>7, <1>8, <2>1 DEF Safe, EvidenceTruthful
  <2> QED BY <2>2, <2>3 DEF EvidenceTruthful
<1>16. OnceEach'
  <2>1. ~Creating(p) /\ \A q \in Preparers : Creating(q)' <=> Creating(q)
    BY <1>1, <1>4, <1>5 DEF Creating
  <2>2. \A q \in Preparers : Creating(q) => art[q].slot \in Slots
    BY SlotsInHand DEF Creating, Holding
  <2>3. \A d \in Downloaders : dpc[d] = "evidence" => seen[d].slot \in Slots
    BY SlotsInHand DEF Admitted
  <2> QED BY <1>4, <1>8, <2>1, <2>2, <2>3 DEF Safe, OnceEach, RecordedOnce, downVars
<1> QED BY <1>10, <1>11, <1>12, <1>13, <1>14, <1>15, <1>16 DEF Safe

\* Every step of prepareExport keeps Safe.
LEMMA SafePrepare ==
  ASSUME Typed, Safe, NEW p \in Preparers, PrepareNext(p)
  PROVE  Safe'
<1>1. ASSUME NEW u \in Users, NEW k \in Keys, NEW f \in Filters, NEW r \in RequestIds,
             PrepareExport(p, u, k, f, r)
      PROVE  Safe'
  BY <1>1, SafeMove DEF PrepareExport
<1>2. CASE ExportByIdempotency(p)
  BY <1>2, SafeUseStored, SafeMove DEF ExportByIdempotency, PrepareGoes
<1>3. CASE InsertRefused(p)
  BY <1>3, SafeMove DEF InsertRefused, PrepareGoes
<1>4. CASE RereadArtifact(p)
  BY <1>4, SafeUseStored DEF RereadArtifact
<1>5. CASE AnswerConflict(p) \/ PrepareFails(p)
  BY <1>5, SafeReturns DEF AnswerConflict, PrepareFails
<1> QED BY <1>1, <1>2, <1>3, <1>4, <1>5, SafeBuild, SafeInsert, SafeSign, SafePrepared,
           SafeAnswer, SafeConflict DEF PrepareNext

\* A downloader that goes idle.
LEMMA SafeDownloadReturns ==
  ASSUME Typed, Safe, NEW d \in Downloaders, DownloadReturns(d), UNCHANGED storeVars
  PROVE  Safe'
<1>1. /\ \A e \in Downloaders \ {d} :
           dpc'[e] = dpc[e] /\ dcall'[e] = dcall[e] /\ seen'[e] = seen[e]
      /\ dpc'[d] = "idle"
  BY DEF DownloadReturns, Typed, TypeOK
<1>2. DownloadOK(d)'
  BY <1>1 DEF DownloadOK, Admitted
<1> QED BY <1>1, <1>2, QuietDownload DEF DownloadReturns

\* The steps of a download that change no table.
LEMMA SafeQuietDownload ==
  ASSUME Typed, Safe, NEW d \in Downloaders,
         \/ \E u \in Users, t \in issued : DownloadExport(d, u, t)
         \/ CheckDownload(d)
         \/ ReadDownloadCount(d)
  PROVE  Safe'
<1>1. UNCHANGED <<storeVars, prepVars>>
  BY DEF DownloadExport, CheckDownload, ReadDownloadCount, DownloadGoes
<1>2. DownloadOK(d)
  BY DEF Safe
<1>3. ASSUME NEW u \in Users, NEW t \in issued, DownloadExport(d, u, t) PROVE Safe'
  <2>1. /\ \A e \in Downloaders \ {d} :
             dpc'[e] = dpc[e] /\ dcall'[e] = dcall[e] /\ seen'[e] = seen[e]
        /\ dpc'[d] = "check" /\ dcall'[d].token = t
    BY <1>3 DEF DownloadExport, DownloadGoes, Typed, TypeOK
  <2>2. DownloadOK(d)'
    BY <1>1, <2>1 DEF DownloadOK, Admitted, storeVars
  <2> QED BY <1>1, <2>1, <2>2, QuietDownload
<1>4. CASE CheckDownload(d)
  <2>1. PICK s \in Slots : /\ ExportByTokenHash(artifacts[s], dcall[d])
                           /\ MayDownload(dcall[d], artifacts[s])
                           /\ seen' = [seen EXCEPT ![d] = artifacts[s]]
    BY <1>4 DEF CheckDownload
  <2> DEFINE a == artifacts[s]
  <2>2. /\ a # NoArtifact /\ a \in SoundArtifact /\ a.slot = s
        /\ a.token = dcall[d].token /\ a.slot.user = dcall[d].user
        /\ a.auth = [user |-> dcall[d].user, rev |-> dcall[d].rev]
    BY <2>1 DEF ExportByTokenHash, MayDownload, exportAuthorizationHash,
                Safe, StoredOK, Typed, CallsOK
  <2>3. /\ \A e \in Downloaders \ {d} :
             dpc'[e] = dpc[e] /\ dcall'[e] = dcall[e] /\ seen'[e] = seen[e]
        /\ dpc[d] = "check" /\ dpc'[d] = "count" /\ dcall'[d] = dcall[d] /\ seen'[d] = a
    BY <1>4, <2>1 DEF CheckDownload, DownloadGoes, Typed, TypeOK
  <2>4. artifacts'[s] = a
    BY <1>1 DEF storeVars
  <2> HIDE DEF a
  <2>5. DownloadOK(d)'
    BY <1>1, <1>2, <2>2, <2>3, <2>4 DEF DownloadOK, Admitted, storeVars
  <2> QED BY <1>1, <2>3, <2>5, QuietDownload
<1>5. CASE ReadDownloadCount(d)
  <2>1. /\ \A e \in Downloaders \ {d} :
             dpc'[e] = dpc[e] /\ dcall'[e] = dcall[e] /\ seen'[e] = seen[e]
        /\ dpc[d] = "count" /\ dcall'[d] = dcall[d] /\ seen'[d] = seen[d]
        /\ \/ dpc'[d] = "mark"
           \/ dpc'[d] = "deliver" /\ artifacts[seen[d].slot].downloaded
    BY <1>5 DEF ReadDownloadCount, AfterCount, DownloadGoes, Typed, TypeOK
  <2>2. DownloadOK(d)'
    BY <1>1, <1>2, <2>1 DEF DownloadOK, Admitted, storeVars
  <2> QED BY <1>1, <2>1, <2>2, QuietDownload
<1> QED BY <1>3, <1>4, <1>5

\* UPDATE ... WHERE download_count = 0: only one of those that race marks it.
LEMMA SafeMark ==
  ASSUME Typed, Safe, NEW d \in Downloaders, MarkDownloaded(d)
  PROVE  Safe'
<1> DEFINE here == seen[d].slot
           a == artifacts[here]
           b == Downloaded(a)
<1>1. /\ here \in Slots /\ a \in SoundArtifact /\ a.slot = here
      /\ ~a.downloaded /\ dpc[d] = "mark" /\ a # NoArtifact
  BY SlotsInHand DEF MarkDownloaded, NotYetDownloaded, Admitted, Typed, CallsOK,
                     Safe, StoredOK
<1>2. /\ b \in Artifact /\ b # NoArtifact /\ b.slot = here /\ b.token = a.token
      /\ b.content = a.content /\ b.auth = a.auth /\ b.downloaded
  BY <1>1, DownloadedKeeps, SentinelAssumption DEF SoundArtifact
<1>3. artifacts'[here] = b /\ \A s \in Slots \ {here} : artifacts'[s] = artifacts[s]
  BY <1>1 DEF MarkDownloaded, Typed, TypeOK
<1>4. /\ UNCHANGED <<evidence, conflicts, issued, prepVars>>
      /\ \A e \in Downloaders \ {d} :
           dpc'[e] = dpc[e] /\ dcall'[e] = dcall[e] /\ seen'[e] = seen[e]
      /\ \/ dpc'[d] = "evidence" /\ dcall'[d] = dcall[d] /\ seen'[d] = seen[d]
         \/ dpc'[d] = "idle"
  BY DEF MarkDownloaded, DownloadGoes, DownloadReturns, Typed, TypeOK
<1>5. b \in SoundArtifact
  BY <1>1, <1>2 DEF SoundArtifact
<1> HIDE DEF here, a, b
<1>6. Grows
  BY <1>1, <1>2, <1>3, <1>4 DEF Grows, PreparedEvidence, a
<1>7. \A q \in Preparers : PrepareOK(q)'
  BY <1>4, <1>6, PrepareFrame DEF Safe, prepVars
<1>8. \A e \in Downloaders \ {d} : DownloadOK(e)'
  BY <1>4, <1>6, DownloadFrame DEF Safe
<1>9. DownloadOK(d)'
  BY <1>1, <1>2, <1>3, <1>4 DEF Safe, DownloadOK, Admitted, here, a
<1>10. StoredOK'
  BY <1>3, <1>5 DEF Safe, StoredOK
<1>11. IssuedTokenIsStored'
  <2>1. \A t \in issued : t.slot \in Slots
    BY DEF Typed, TypeOK, Token
  <2> QED BY <1>4, <1>6, <2>1 DEF Safe, IssuedTokenIsStored, Grows
<1>12. IssuedHasEvidence'
  BY <1>4 DEF Safe, IssuedHasEvidence, PreparedEvidence
<1>13. EvidenceTruthful'
  BY <1>4, <1>6 DEF Safe, EvidenceTruthful, PreparedEvidence, Grows
<1>14. OnceEach'
  <2>1. evidence[here].downloaded = 0
    BY <1>1 DEF Safe, EvidenceTruthful, Typed, TypeOK, a
  <2>2. \A e \in Downloaders \ {d} : dpc[e] = "evidence" => seen[e].slot # here
    BY <1>1 DEF Safe, DownloadOK, a
  <2>3. /\ \A e \in Downloaders : dpc'[e] = "evidence" => evidence'[seen'[e].slot].downloaded = 0
        /\ \A e, g \in Downloaders :
             e # g /\ dpc'[e] = "evidence" /\ dpc'[g] = "evidence" => seen'[e].slot # seen'[g].slot
    BY <1>4, <2>1, <2>2 DEF Safe, OnceEach, here
  <2> QED BY <1>4, <2>3 DEF Safe, OnceEach, RecordedOnce, Creating, prepVars
<1> QED BY <1>7, <1>8, <1>9, <1>10, <1>11, <1>12, <1>13, <1>14 DEF Safe

\* Whoever marked the artifact is the one that records the download.
LEMMA SafeDownloaded ==
  ASSUME Typed, Safe, NEW d \in Downloaders, AppendDownloadEvidence(d)
  PROVE  Safe'
<1> DEFINE here == seen[d].slot
           f == [evidence[here] EXCEPT !.downloaded = @ + 1]
<1>1. /\ here \in Slots /\ artifacts[here] # NoArtifact /\ artifacts[here].downloaded
      /\ dpc[d] = "evidence" /\ evidence[here] \in Trail /\ evidence[here].downloaded = 0
  BY SlotsInHand DEF AppendDownloadEvidence, Admitted, Safe, DownloadOK, OnceEach,
                     Typed, TypeOK, CallsOK, Trail
<1>2. /\ f.first = evidence[here].first /\ f.replay = evidence[here].replay
      /\ f.downloaded = 1 /\ f.conflict = evidence[here].conflict
  BY <1>1, TrailDownloaded
<1>3. evidence'[here] = f /\ \A s \in Slots \ {here} : evidence'[s] = evidence[s]
  BY <1>1 DEF AppendDownloadEvidence, Typed, TypeOK
<1>4. /\ UNCHANGED <<dcall, seen, artifacts, conflicts, issued, prepVars>>
      /\ dpc'[d] = "deliver" /\ \A e \in Downloaders \ {d} : dpc'[e] = dpc[e]
  BY DEF AppendDownloadEvidence, DownloadGoes, Typed, TypeOK
<1> HIDE DEF here, f
<1>5. \A s \in Slots : /\ evidence'[s].first = evidence[s].first
                       /\ evidence'[s].replay = evidence[s].replay
                       /\ evidence'[s].conflict = evidence[s].conflict
                       /\ s # here => evidence'[s].downloaded = evidence[s].downloaded
  BY <1>2, <1>3
<1>6. Grows
  BY <1>4, <1>5 DEF Grows, PreparedEvidence
<1>7. \A q \in Preparers : PrepareOK(q)'
  BY <1>4, <1>6, PrepareFrame DEF Safe, prepVars
<1>8. \A e \in Downloaders \ {d} : DownloadOK(e)'
  BY <1>4, <1>6, DownloadFrame DEF Safe
<1>9. DownloadOK(d)'
  BY <1>1, <1>4 DEF Safe, DownloadOK, Admitted, here
<1>10. StoredOK' /\ IssuedTokenIsStored'
  BY <1>4 DEF Safe, StoredOK, IssuedTokenIsStored
<1>11. IssuedHasEvidence'
  <2>1. \A t \in issued : t.slot \in Slots
    BY DEF Typed, TypeOK, Token
  <2> QED BY <1>4, <1>6, <2>1 DEF Safe, IssuedHasEvidence, Grows
<1>12. EvidenceTruthful'
  <2>1. \A r \in DOMAIN conflicts : conflicts[r] # NoConflict => conflicts[r].slot \in Slots
    BY DEF Typed, TypeOK
  <2> QED BY <1>1, <1>4, <1>5, <2>1 DEF Safe, EvidenceTruthful, PreparedEvidence
<1>13. OnceEach'
  <2>1. RecordedOnce'
    BY <1>2, <1>3, <1>5 DEF Safe, OnceEach, RecordedOnce
  <2>2. \A q \in Preparers : Creating(q) => art[q].slot \in Slots
    BY SlotsInHand DEF Creating, Holding
  <2>3. \A e \in Downloaders : dpc'[e] = "evidence" =>
          /\ e # d /\ dpc[e] = "evidence"
          /\ seen[e].slot \in Slots /\ seen[e].slot # here
    BY <1>1, <1>4, SlotsInHand DEF Admitted, Safe, OnceEach, here
  <2>4. /\ \A e \in Downloaders : dpc'[e] = "evidence" => evidence'[seen'[e].slot].downloaded = 0
        /\ \A e, g \in Downloaders :
             e # g /\ dpc'[e] = "evidence" /\ dpc'[g] = "evidence" => seen'[e].slot # seen'[g].slot
    BY <1>4, <1>5, <2>3 DEF Safe, OnceEach
  <2> QED BY <1>4, <1>5, <2>1, <2>2, <2>4 DEF Safe, OnceEach, Creating, prepVars
<1> QED BY <1>7, <1>8, <1>9, <1>10, <1>11, <1>12, <1>13 DEF Safe

\* Every step of downloadExport keeps Safe.
LEMMA SafeDownload ==
  ASSUME Typed, Safe, NEW d \in Downloaders, DownloadNext(d)
  PROVE  Safe'
<1>1. CASE DeliverContent(d) \/ DownloadFails(d)
  BY <1>1, SafeDownloadReturns DEF DeliverContent, DownloadFails
<1> QED BY <1>1, SafeQuietDownload, SafeMark, SafeDownloaded DEF DownloadNext

-----------------------------------------------------------------------------
(* The theorems *)

Inv == Typed /\ Safe

\* Every step keeps the inductive invariant.
LEMMA InvStep == Inv /\ [Next]_vars => Inv'
<1> SUFFICES ASSUME Typed, Safe, [Next]_vars PROVE Typed' /\ Safe'
  BY DEF Inv
<1>1. CASE UNCHANGED vars
  <2>1. Typed'
    BY <1>1 DEF vars, hostVars, storeVars, prepVars, downVars,
                Typed, TypeOK, CallsOK, Holding, Admitted
  <2> QED BY <1>1, <2>1, SafeStutter DEF vars
<1>2. CASE HostNext
  BY <1>2, TypedHost, SafeHost
<1>3. ASSUME NEW p \in Preparers, PrepareNext(p) PROVE Typed' /\ Safe'
  BY <1>3, TypedPrepare, SafePrepare
<1>4. ASSUME NEW d \in Downloaders, DownloadNext(d) PROVE Typed' /\ Safe'
  BY <1>4, TypedDownload, SafeDownload
<1> QED BY <1>1, <1>2, <1>3, <1>4 DEF Next

\* The inductive invariant holds in every state of every behaviour.
THEOREM InvAlways == Spec => []Inv
<1>1. Init => Inv
  BY TypedInit, SafeInit DEF Inv
<1> QED BY <1>1, InvStep, PTL DEF Spec

\* All successful answers to one idempotency key are the stored token, whatever
\* races, lost answers and key rotations CreateOrGetExport goes through.
THEOREM OneAnswerPerKey == Spec => []IssuedTokenIsStored
<1>1. Inv => IssuedTokenIsStored
  BY DEF Inv, Safe
<1> QED BY <1>1, InvAlways, PTL

\* audit_export_prepared is in the event store before the token goes out.
THEOREM TokensAreRecorded == Spec => []IssuedHasEvidence
<1>1. Inv => IssuedHasEvidence
  BY DEF Inv, Safe
<1> QED BY <1>1, InvAlways, PTL

\* One creation and one first download per key, however many requests race.
THEOREM EvidenceOnce == Spec => []RecordedOnce
<1>1. Inv => RecordedOnce
  BY DEF Inv, Safe, OnceEach
<1> QED BY <1>1, InvAlways, PTL

\* Prepared, conflict and downloaded events state what is in the export table.
THEOREM EvidenceTrue == Spec => []EvidenceTruthful
<1>1. Inv => EvidenceTruthful
  BY DEF Inv, Safe
<1> QED BY <1>1, InvAlways, PTL

\* downloadExport returns what was prepared, to the same user under the same
\* authorization and in its data scope, recorded and marked.
THEOREM DeliveriesSound == Spec => []DeliverySound
<1>1. Inv => DeliverySound
  <2> SUFFICES ASSUME Inv, NEW d \in Downloaders, dpc[d] = "deliver"
               PROVE  LET a == seen[d]
                          c == dcall[d]
                      IN  /\ a.slot.user = c.user
                          /\ a.content = artifacts[a.slot].content
                          /\ a.auth = [user |-> c.user, rev |-> c.rev]
                          /\ \A row \in a.content : InScope(row.actor, PrepareScope[c.user][c.rev])
                          /\ PreparedEvidence(a.slot)
                          /\ artifacts[a.slot].downloaded
    BY DEF DeliverySound
  <2> DEFINE a == seen[d]
             c == dcall[d]
  <2>1. /\ a.slot.user = c.user /\ a.auth = [user |-> c.user, rev |-> c.rev]
        /\ a.token = c.token /\ c.token \in issued /\ a \in SoundArtifact
        /\ artifacts[a.slot].content = a.content /\ artifacts[a.slot].downloaded
    BY DEF Inv, Safe, DownloadOK, Admitted
  <2>2. a.token.slot = a.slot /\ \A row \in a.content : InScope(row.actor, PrepareScope[c.user][c.rev])
    BY <2>1 DEF SoundArtifact
  <2>3. PreparedEvidence(a.slot)
    BY <2>1, <2>2 DEF Inv, Safe, IssuedHasEvidence
  <2> QED BY <2>1, <2>2, <2>3
<1> QED BY <1>1, InvAlways, PTL

-----------------------------------------------------------------------------
(* Conflicts *)

\* Conflict events are never taken back, nor replaced under their request id.
LEMMA ConflictsStay ==
  ASSUME Inv, [Next]_vars
  PROVE  /\ \A s \in Slots : evidence[s].conflict => evidence'[s].conflict
         /\ \A r \in DOMAIN conflicts :
              conflicts[r] # NoConflict => conflicts'[r] = conflicts[r]
<1> USE DEF Inv, Typed, TypeOK
<1>1. UNCHANGED <<evidence, conflicts>> =>
        /\ \A s \in Slots : evidence[s].conflict => evidence'[s].conflict
        /\ \A r \in DOMAIN conflicts : conflicts'[r] = conflicts[r]
  OBVIOUS
<1>2. HostNext \/ UNCHANGED vars => UNCHANGED <<evidence, conflicts>>
  BY DEF HostNext, Tick, ConfigureExport, ChangeAuthorization, AppendBusinessEvent,
         EraseSubject, vars, storeVars
<1>3. ASSUME NEW p \in Preparers, PrepareNext(p)
      PROVE  \/ AppendPreparedEvidence(p) \/ AppendConflictEvidence(p)
             \/ UNCHANGED <<evidence, conflicts>>
  BY <1>3 DEF PrepareNext, PrepareExport, BuildArtifact, ExportByIdempotency, UseStored, Answer,
              InsertArtifact, InsertRefused, RereadArtifact, SignToken, AnswerToken,
              AnswerConflict, PrepareFails, storeVars
<1>4. ASSUME NEW d \in Downloaders, DownloadNext(d)
      PROVE  AppendDownloadEvidence(d) \/ UNCHANGED <<evidence, conflicts>>
  BY <1>4 DEF DownloadNext, DownloadExport, CheckDownload, ReadDownloadCount, MarkDownloaded,
              DeliverContent, DownloadFails, storeVars
<1>5. ASSUME NEW p \in Preparers, AppendPreparedEvidence(p)
      PROVE  UNCHANGED conflicts /\ \A s \in Slots : evidence'[s].conflict = evidence[s].conflict
  <2>1. art[p].slot \in Slots /\ evidence[art[p].slot] \in Trail
    BY <1>5, SlotsInHand DEF AppendPreparedEvidence, Holding, Trail
  <2>2. PreparedEvent(evidence[art[p].slot], fresh[p]).conflict = evidence[art[p].slot].conflict
    BY <2>1 DEF PreparedEvent, Trail
  <2>3. /\ UNCHANGED conflicts
        /\ evidence' = [evidence EXCEPT
             ![art[p].slot] = PreparedEvent(evidence[art[p].slot], fresh[p])]
    BY <1>5 DEF AppendPreparedEvidence
  <2> QED BY <2>1, <2>2, <2>3
<1>6. ASSUME NEW p \in Preparers, AppendConflictEvidence(p)
      PROVE  /\ \A s \in Slots : evidence[s].conflict => evidence'[s].conflict
             /\ \A r \in DOMAIN conflicts :
                  conflicts[r] # NoConflict => conflicts'[r] = conflicts[r]
  <2>1. art[p].slot \in Slots /\ evidence[art[p].slot] \in Trail
    BY <1>6, SlotsInHand DEF AppendConflictEvidence, Holding, Trail
  <2>2. [evidence[art[p].slot] EXCEPT !.conflict = TRUE].conflict
    BY <2>1, TrailConflict
  <2>3. evidence' = [evidence EXCEPT
          ![art[p].slot] = [evidence[art[p].slot] EXCEPT !.conflict = TRUE]]
    BY <1>6 DEF AppendConflictEvidence
  <2>4. \A s \in Slots : evidence[s].conflict => evidence'[s].conflict
    BY <2>1, <2>2, <2>3
  <2>5. \A r \in DOMAIN conflicts : conflicts[r] # NoConflict => conflicts'[r] = conflicts[r]
    BY <1>6 DEF AppendConflictEvidence, ConflictEventFits
  <2> QED BY <2>4, <2>5
<1>7. ASSUME NEW d \in Downloaders, AppendDownloadEvidence(d)
      PROVE  UNCHANGED conflicts /\ \A s \in Slots : evidence'[s].conflict = evidence[s].conflict
  <2>1. seen[d].slot \in Slots /\ evidence[seen[d].slot] \in Trail
    BY <1>7, SlotsInHand DEF AppendDownloadEvidence, Admitted, Trail
  <2> QED BY <1>7, <2>1 DEF AppendDownloadEvidence, Trail
<1> QED BY <1>1, <1>2, <1>3, <1>4, <1>5, <1>6, <1>7 DEF Next

\* A request that is told of a conflict has just appended its event, or stood there.
LEMMA RefusedFrom ==
  ASSUME Inv, [Next]_vars, NEW q \in Preparers, ppc'[q] = "refused"
  PROVE  \/ AppendConflictEvidence(q)
         \/ ppc[q] = "refused" /\ art'[q] = art[q] /\ pcall'[q] = pcall[q]
<1> USE DEF Inv, Typed, TypeOK
<1>1. HostNext \/ UNCHANGED vars \/ (\E d \in Downloaders : DownloadNext(d)) => UNCHANGED prepVars
  BY DEF HostNext, Tick, ConfigureExport, ChangeAuthorization, AppendBusinessEvent,
         EraseSubject, vars, DownloadNext, DownloadExport, CheckDownload, ReadDownloadCount,
         MarkDownloaded, AppendDownloadEvidence, DeliverContent, DownloadFails,
         DownloadReturns, DownloadGoes
<1>2. ASSUME NEW p \in Preparers, PrepareNext(p)
      PROVE  \/ AppendConflictEvidence(q)
             \/ ppc[q] = "refused" /\ art'[q] = art[q] /\ pcall'[q] = pcall[q]
  <2>1. CASE AppendConflictEvidence(p)
    BY <2>1 DEF AppendConflictEvidence, PrepareGoes
  <2>2. CASE ~AppendConflictEvidence(p)
    <3>1. p # q
      BY <1>2, <2>2 DEF PrepareNext, PrepareExport, BuildArtifact, ExportByIdempotency, UseStored,
           Answer, InsertArtifact, InsertRefused, RereadArtifact, SignToken,
           AppendPreparedEvidence, AnswerToken, AnswerConflict, PrepareFails, PrepareGoes,
           PrepareReturns
    <3>2. ppc'[q] = ppc[q] /\ art'[q] = art[q] /\ pcall'[q] = pcall[q]
      BY <1>2, <2>2, <3>1 DEF PrepareNext, PrepareExport, BuildArtifact, ExportByIdempotency,
           UseStored, Answer, InsertArtifact, InsertRefused, RereadArtifact, SignToken,
           AppendPreparedEvidence, AnswerToken, AnswerConflict, PrepareFails, PrepareGoes,
           PrepareReturns
    <3> QED BY <3>2
  <2> QED BY <2>1, <2>2
<1> QED BY <1>1, <1>2 DEF Next, prepVars

\* Every step leaves who is told of a conflict with that conflict on record.
LEMMA ConflictStep == Inv /\ ConflictRecorded /\ [Next]_vars => ConflictRecorded'
<1> SUFFICES ASSUME Inv, ConflictRecorded, [Next]_vars,
                    NEW q \in Preparers, ppc'[q] = "refused"
             PROVE  /\ evidence'[art'[q].slot].conflict
                    /\ pcall'[q].rid # NoRequestId =>
                         conflicts'[pcall'[q].rid] = [slot |-> art'[q].slot, rev |-> pcall'[q].rev]
  BY DEF ConflictRecorded
<1>1. CASE AppendConflictEvidence(q)
  <2>1. /\ art[q].slot \in Slots /\ evidence[art[q].slot] \in Trail /\ pcall[q].rid \in RequestIds
        /\ UNCHANGED <<art, pcall>>
    BY <1>1, SlotsInHand DEF AppendConflictEvidence, PrepareGoes, Holding, Inv, Typed, TypeOK,
                             CallsOK, Trail, PrepareCall
  <2>2. [evidence[art[q].slot] EXCEPT !.conflict = TRUE].conflict
    BY <2>1, TrailConflict
  <2>3. evidence'[art[q].slot].conflict
    BY <1>1, <2>1, <2>2 DEF AppendConflictEvidence, Inv, Typed, TypeOK
  <2>4. pcall[q].rid # NoRequestId =>
          conflicts'[pcall[q].rid] = [slot |-> art[q].slot, rev |-> pcall[q].rev]
    BY <1>1, <2>1 DEF AppendConflictEvidence, Inv, Typed, TypeOK
  <2> QED BY <2>1, <2>3, <2>4
<1>2. CASE ppc[q] = "refused" /\ art'[q] = art[q] /\ pcall'[q] = pcall[q]
  <2>1. /\ art[q].slot \in Slots /\ pcall[q] \in PrepareCall
    BY <1>2, SlotsInHand DEF Holding, Inv, Typed, CallsOK
  <2>2. /\ pcall[q].rid \in RequestIds /\ DOMAIN conflicts = RequestIds \ {NoRequestId}
        /\ [slot |-> art[q].slot, rev |-> pcall[q].rev] # NoConflict
    BY <2>1, SentinelAssumption DEF PrepareCall, Inv, Typed, TypeOK
  <2> QED BY <1>2, <2>1, <2>2, ConflictsStay DEF ConflictRecorded
<1> QED BY <1>1, <1>2, RefusedFrom

\* Nobody is told of a conflict that is not recorded under its own request id.
THEOREM ConflictsAreRecorded == Spec => []ConflictRecorded
<1>1. Init => ConflictRecorded
  BY DEF Init, ConflictRecorded
<1> QED BY <1>1, ConflictStep, InvAlways, PTL DEF Spec

-----------------------------------------------------------------------------
(* The table of artifacts *)

\* Only an INSERT and the UPDATE of a download write the table.
LEMMA ArtifactsMove ==
  ASSUME [Next]_vars
  PROVE  \/ UNCHANGED artifacts
         \/ \E p \in Preparers : InsertArtifact(p)
         \/ \E d \in Downloaders : MarkDownloaded(d)
<1>1. HostNext => UNCHANGED artifacts
  BY DEF HostNext, Tick, ConfigureExport, ChangeAuthorization, AppendBusinessEvent,
         EraseSubject, storeVars
<1>2. ASSUME NEW p \in Preparers, PrepareNext(p)
      PROVE  UNCHANGED artifacts \/ InsertArtifact(p)
  BY <1>2 DEF PrepareNext, PrepareExport, BuildArtifact, ExportByIdempotency, UseStored, Answer,
              InsertRefused, RereadArtifact, SignToken, AppendPreparedEvidence, AnswerToken,
              AppendConflictEvidence, AnswerConflict, PrepareFails, storeVars
<1>3. ASSUME NEW d \in Downloaders, DownloadNext(d)
      PROVE  UNCHANGED artifacts \/ MarkDownloaded(d)
  BY <1>3 DEF DownloadNext, DownloadExport, CheckDownload, ReadDownloadCount,
              AppendDownloadEvidence, DeliverContent, DownloadFails, storeVars
<1> QED BY <1>1, <1>2, <1>3 DEF Next, vars, storeVars

\* What the two writes do to the table.
LEMMA ArtifactsBecome ==
  ASSUME Inv, [Next]_vars, NEW s \in Slots, artifacts[s] # NoArtifact
  PROVE  artifacts'[s] \in {artifacts[s], Downloaded(artifacts[s])}
<1>1. ASSUME NEW p \in Preparers, InsertArtifact(p)
      PROVE  artifacts'[s] = artifacts[s]
  BY <1>1 DEF InsertArtifact, KeyFree, Inv, Typed, TypeOK
<1>2. ASSUME NEW d \in Downloaders, MarkDownloaded(d)
      PROVE  artifacts'[s] \in {artifacts[s], Downloaded(artifacts[s])}
  BY <1>2 DEF MarkDownloaded, Inv, Typed, TypeOK
<1> QED BY <1>1, <1>2, ArtifactsMove

\* A row of _audit_export_artifacts never changes but for its first download.
THEOREM ArtifactsAreImmutable == Spec => ArtifactImmutable
<1>1. Inv /\ [Next]_vars =>
        [\A s \in Slots : artifacts[s] # NoArtifact =>
           artifacts'[s] \in {artifacts[s], [artifacts[s] EXCEPT !.downloaded = TRUE]}]_vars
  BY ArtifactsBecome DEF Downloaded
<1> QED BY <1>1, InvAlways, PTL DEF Spec, ArtifactImmutable

-----------------------------------------------------------------------------
(* Dates *)

\* The clock does not go back, and no event is lost or erased twice.
LEMMA LedgerMoves ==
  ASSUME Typed, [Next]_vars
  PROVE  /\ now \in Int /\ now' \in Int /\ now <= now'
         /\ \A i \in DOMAIN ledger :
              /\ i \in DOMAIN ledger'
              /\ \/ ledger'[i].erased = ledger[i].erased
                 \/ ledger[i].erased = NoTime /\ ledger'[i].erased = now
<1>1. now \in Nat /\ ledger \in Seq(Entry) /\ \A i \in DOMAIN ledger : ledger[i] \in Entry
  BY DEF Typed, TypeOK
<1>2. CASE UNCHANGED <<now, ledger>>
  BY <1>1, <1>2
<1>3. CASE Tick
  BY <1>1, <1>3 DEF Tick
<1>4. ASSUME NEW a \in Actors, NEW x \in Results, AppendBusinessEvent(a, x)
      PROVE  now' = now /\ \A i \in DOMAIN ledger : i \in DOMAIN ledger' /\ ledger'[i] = ledger[i]
  BY <1>1, <1>4 DEF AppendBusinessEvent
<1>5. ASSUME NEW a \in Erasable, EraseSubject(a)
      PROVE  now' = now /\ \A i \in DOMAIN ledger :
               /\ i \in DOMAIN ledger'
               /\ \/ ledger'[i].erased = ledger[i].erased
                  \/ ledger[i].erased = NoTime /\ ledger'[i].erased = now
  <2>1. now' = now /\ DOMAIN ledger' = DOMAIN ledger
    BY <1>5 DEF EraseSubject
  <2>2. ASSUME NEW i \in DOMAIN ledger
        PROVE  \/ ledger'[i].erased = ledger[i].erased
               \/ ledger[i].erased = NoTime /\ ledger'[i].erased = now
    <3>1. [ledger[i] EXCEPT !.erased = now].erased = now
      BY <1>1, <2>2, ErasedEntry
    <3>2. ledger'[i] = IF ledger[i].actor = a /\ ledger[i].erased = NoTime
                       THEN [ledger[i] EXCEPT !.erased = now] ELSE ledger[i]
      BY <1>5, <2>2 DEF EraseSubject
    <3> QED BY <3>1, <3>2
  <2> QED BY <2>1, <2>2
<1>6. HostNext => \/ UNCHANGED <<now, ledger>> \/ Tick
                  \/ \E a \in Actors, x \in Results : AppendBusinessEvent(a, x)
                  \/ \E a \in Erasable : EraseSubject(a)
  BY DEF HostNext, ConfigureExport, ChangeAuthorization
<1>7. ASSUME NEW p \in Preparers, PrepareNext(p) PROVE UNCHANGED <<now, ledger>>
  BY <1>7 DEF PrepareNext, PrepareExport, BuildArtifact, ExportByIdempotency, UseStored, Answer,
              InsertArtifact, InsertRefused, RereadArtifact, SignToken, AppendPreparedEvidence,
              AnswerToken, AppendConflictEvidence, AnswerConflict, PrepareFails, PrepareGoes,
              hostVars
<1>8. ASSUME NEW d \in Downloaders, DownloadNext(d) PROVE UNCHANGED <<now, ledger>>
  BY <1>8 DEF DownloadNext, DownloadExport, CheckDownload, ReadDownloadCount, MarkDownloaded,
              AppendDownloadEvidence, DeliverContent, DownloadFails, DownloadGoes,
              DownloadReturns, hostVars
<1>9. UNCHANGED vars => UNCHANGED <<now, ledger>>
  BY DEF vars, hostVars
<1> QED BY <1>1, <1>2, <1>3, <1>4, <1>5, <1>6, <1>7, <1>8, <1>9 DEF Next

\* What is dated stays dated, for it expires no later than exportTTL from now.
LEMMA StaysDated ==
  ASSUME Typed, [Next]_vars, NEW a \in Artifact, Dated(a)
  PROVE  /\ a.expires <= now' + exportTTL
         /\ \A row \in a.content :
              /\ row.id \in DOMAIN ledger'
              /\ row.actor # Erased /\ ledger'[row.id].erased # NoTime =>
                   a.expires <= ledger'[row.id].erased + exportTTL
<1>1. a.expires \in Int /\ exportTTL \in Int
  BY ConstantAssumption DEF Artifact
<1> QED BY <1>1, LedgerMoves DEF Dated

\* Where the request and the artifact that a preparer has in hand come from.
LEMMA InHandFrom ==
  ASSUME Typed, [Next]_vars, NEW q \in Preparers
  PROVE  /\ ppc'[q] # "idle" => \/ ppc[q] # "idle" /\ pcall'[q] = pcall[q]
                                \/ pcall'[q].at = now
         /\ Holding(q)' => \/ Holding(q) /\ art'[q] = art[q]
                           \/ /\ art[q].slot \in Slots
                              /\ artifacts[art[q].slot] # NoArtifact
                              /\ art'[q] = artifacts[art[q].slot]
                           \/ BuildArtifact(q)
<1> USE DEF Typed, TypeOK, Holding
<1>1. CASE UNCHANGED <<ppc, pcall, art>>
  BY <1>1
<1>2. ASSUME NEW p \in Preparers, PrepareNext(p)
      PROVE  /\ ppc'[q] # "idle" => \/ ppc[q] # "idle" /\ pcall'[q] = pcall[q]
                                    \/ pcall'[q].at = now
             /\ Holding(q)' => \/ Holding(q) /\ art'[q] = art[q]
                               \/ /\ art[q].slot \in Slots
                                  /\ artifacts[art[q].slot] # NoArtifact
                                  /\ art'[q] = artifacts[art[q].slot]
                               \/ BuildArtifact(q)
  <2>1. ASSUME NEW u \in Users, NEW k \in Keys, NEW f \in Filters, NEW r \in RequestIds,
               PrepareExport(p, u, k, f, r)
        PROVE  /\ ppc'[p] = "list" /\ pcall'[p].at = now /\ art' = art
               /\ q # p => ppc'[q] = ppc[q] /\ pcall'[q] = pcall[q]
    BY <2>1 DEF PrepareExport
  <2>2. BuildArtifact(p) => /\ ppc[p] = "list" /\ pcall' = pcall
                            /\ q # p => ppc'[q] = ppc[q] /\ art'[q] = art[q]
    BY DEF BuildArtifact, PrepareGoes
  <2>3. ASSUME ppc[p] \in {"find", "reread"}, UseStored(p)
        PROVE  /\ pcall' = pcall
               /\ q # p => ppc'[q] = ppc[q] /\ art'[q] = art[q]
               /\ art'[p] = art[p] \/ /\ art[p].slot \in Slots
                                      /\ artifacts[art[p].slot] # NoArtifact
                                      /\ art'[p] = artifacts[art[p].slot]
    BY <2>3, SlotsInHand DEF UseStored, Answer, PrepareGoes
  <2>4. ASSUME PrepareReturns(p)
        PROVE  /\ ppc'[p] = "idle"
               /\ q # p => ppc'[q] = ppc[q] /\ art'[q] = art[q] /\ pcall'[q] = pcall[q]
    BY <2>4 DEF PrepareReturns
  <2>5. \A l : PrepareGoes(p, l) => pcall' = pcall /\ (q # p => ppc'[q] = ppc[q])
    BY DEF PrepareGoes
  <2>6. CASE \E u \in Users, k \in Keys, f \in Filters, r \in RequestIds :
               PrepareExport(p, u, k, f, r)
    BY <2>1, <2>6
  <2>7. CASE BuildArtifact(p)
    BY <2>2, <2>7
  <2>8. CASE ExportByIdempotency(p) \/ RereadArtifact(p)
    BY <2>3, <2>5, <2>8 DEF ExportByIdempotency, RereadArtifact
  <2>9. CASE \/ InsertArtifact(p) \/ InsertRefused(p) \/ SignToken(p)
             \/ AppendPreparedEvidence(p) \/ AppendConflictEvidence(p)
    BY <2>5, <2>9 DEF InsertArtifact, InsertRefused, SignToken, AppendPreparedEvidence,
                      AppendConflictEvidence
  <2>10. CASE AnswerToken(p) \/ AnswerConflict(p) \/ PrepareFails(p)
    BY <2>4, <2>10 DEF AnswerToken, AnswerConflict, PrepareFails
  <2> QED BY <1>2, <2>6, <2>7, <2>8, <2>9, <2>10 DEF PrepareNext
<1>3. HostNext => UNCHANGED <<ppc, pcall, art>>
  BY DEF HostNext, Tick, ConfigureExport, ChangeAuthorization, AppendBusinessEvent,
         EraseSubject, prepVars
<1>4. ASSUME NEW d \in Downloaders, DownloadNext(d) PROVE UNCHANGED <<ppc, pcall, art>>
  BY <1>4 DEF DownloadNext, DownloadExport, CheckDownload, ReadDownloadCount, MarkDownloaded,
              AppendDownloadEvidence, DeliverContent, DownloadFails, DownloadGoes,
              DownloadReturns, prepVars
<1>5. UNCHANGED vars => UNCHANGED <<ppc, pcall, art>>
  BY DEF vars, prepVars
<1> QED BY <1>1, <1>2, <1>3, <1>4, <1>5 DEF Next

\* What is built now names nobody erased before, and expires exportTTL after
\* the request's time.
LEMMA BuiltDated ==
  ASSUME Typed, DatesOK, NEW p \in Preparers, BuildArtifact(p)
  PROVE  Dated(art'[p])
<1> DEFINE c == pcall[p]
           content == ExportRows(c.filters, PrepareScope[c.user][c.rev])
           a == art'[p]
<1>1. /\ a.expires = c.at + exportTTL /\ a.content = content
      /\ c.at <= now /\ c.at \in Int /\ now \in Int /\ exportTTL \in Int
  BY ConstantAssumption
     DEF BuildArtifact, Typed, TypeOK, CallsOK, PrepareCall, DatesOK
<1>2. \A row \in content : /\ row.id \in DOMAIN ledger
                           /\ row.actor # Erased => ledger[row.id].erased = NoTime
  <2>1. ledger \in Seq(Entry)
    BY DEF Typed, TypeOK
  <2> QED BY <2>1, ExportRowsAre
<1> HIDE DEF c, content, a
<1>3. a.expires <= now + exportTTL
  BY <1>1
<1> QED BY <1>1, <1>2, <1>3 DEF Dated, a

\* Nothing is dated at first.
LEMMA DatesInit == Init => DatesOK
BY DEF Init, DatesOK, Holding

\* Every step keeps the dates, of stored artifacts and of those in hand.
LEMMA DatesStep == Inv /\ DatesOK /\ [Next]_vars => DatesOK'
<1> SUFFICES ASSUME Inv, DatesOK, [Next]_vars PROVE DatesOK'
  OBVIOUS
<1> USE DEF Inv
<1>1. ASSUME NEW s \in Slots, artifacts'[s] # NoArtifact
      PROVE  \E a \in Artifact : /\ Dated(a) /\ artifacts'[s].expires = a.expires
                                 /\ artifacts'[s].content = a.content
  <2>1. CASE artifacts[s] # NoArtifact
    <3>1. artifacts[s] \in Artifact /\ Dated(artifacts[s])
      BY <2>1 DEF Typed, TypeOK, DatesOK
    <3> QED BY <2>1, <3>1, ArtifactsBecome, DownloadedKeeps
  <2>2. CASE artifacts[s] = NoArtifact
    <3>1. ASSUME NEW p \in Preparers, InsertArtifact(p)
          PROVE  art[p] \in Artifact /\ Dated(art[p]) /\ artifacts'[s] = art[p]
      BY <1>1, <2>2, <3>1 DEF InsertArtifact, Holding, Typed, TypeOK, CallsOK, DatesOK
    <3>2. ASSUME NEW d \in Downloaders, MarkDownloaded(d)
          PROVE  FALSE
      BY <1>1, <2>2, <3>2 DEF MarkDownloaded, Admitted, Typed, TypeOK, CallsOK
    <3> QED BY <1>1, <2>2, <3>1, <3>2, ArtifactsMove
  <2> QED BY <2>1, <2>2
<1>2. ASSUME NEW q \in Preparers, Holding(q)'
      PROVE  art'[q] \in Artifact /\ Dated(art'[q])
  <2>1. CASE Holding(q) /\ art'[q] = art[q]
    BY <2>1 DEF DatesOK, Typed, CallsOK
  <2>2. CASE /\ art[q].slot \in Slots /\ artifacts[art[q].slot] # NoArtifact
             /\ art'[q] = artifacts[art[q].slot]
    BY <2>2 DEF DatesOK, Typed, TypeOK
  <2>3. CASE BuildArtifact(q)
    BY <2>3, BuiltDated, BuiltType
  <2> QED BY <1>2, <2>1, <2>2, <2>3, InHandFrom
<1>3. \A s \in Slots : artifacts'[s] # NoArtifact => Dated(artifacts[s])'
  <2> SUFFICES ASSUME NEW s \in Slots, artifacts'[s] # NoArtifact PROVE Dated(artifacts[s])'
    OBVIOUS
  <2>1. PICK a \in Artifact : /\ Dated(a) /\ artifacts'[s].expires = a.expires
                              /\ artifacts'[s].content = a.content
    BY <1>1
  <2> QED BY <2>1, StaysDated DEF Dated
<1>4. \A q \in Preparers : Holding(q)' => Dated(art[q])'
  <2> SUFFICES ASSUME NEW q \in Preparers, Holding(q)' PROVE Dated(art[q])'
    OBVIOUS
  <2> DEFINE a == art'[q]
  <2>1. a \in Artifact /\ Dated(a)
    BY <1>2
  <2> HIDE DEF a
  <2>2. /\ a.expires <= now' + exportTTL
        /\ \A row \in a.content :
             /\ row.id \in DOMAIN ledger'
             /\ row.actor # Erased /\ ledger'[row.id].erased # NoTime =>
                  a.expires <= ledger'[row.id].erased + exportTTL
    BY <2>1, StaysDated
  <2> QED BY <2>2 DEF Dated, a
<1>5. \A q \in Preparers : ppc'[q] # "idle" => pcall'[q].at <= now'
  <2>1. now <= now' /\ now \in Int /\ now' \in Int
    BY LedgerMoves
  <2>2. \A q \in Preparers : ppc[q] # "idle" => pcall[q].at \in Int /\ pcall[q].at <= now
    BY DEF Typed, CallsOK, PrepareCall, DatesOK
  <2> QED BY <2>1, <2>2, InHandFrom
<1> QED BY <1>3, <1>4, <1>5 DEF DatesOK, Holding

\* Only the checks of downloadExport put an artifact in a downloader's hands.
LEMMA SeenFrom ==
  ASSUME Typed, [Next]_vars, NEW d \in Downloaders, seen[d] = NoArtifact, seen'[d] # NoArtifact
  PROVE  CheckDownload(d)
<1> USE DEF Typed, TypeOK
<1>1. HostNext \/ (\E p \in Preparers : PrepareNext(p)) \/ UNCHANGED vars => UNCHANGED seen
  <2>1. HostNext => UNCHANGED seen
    BY DEF HostNext, Tick, ConfigureExport, ChangeAuthorization, AppendBusinessEvent,
           EraseSubject, downVars
  <2>2. ASSUME NEW p \in Preparers, PrepareNext(p) PROVE UNCHANGED seen
    <3>1. (\E u \in Users, k \in Keys, f \in Filters, r \in RequestIds :
             PrepareExport(p, u, k, f, r)) => UNCHANGED downVars
      BY DEF PrepareExport
    <3>2. BuildArtifact(p) \/ ExportByIdempotency(p) \/ RereadArtifact(p) => UNCHANGED downVars
      BY DEF BuildArtifact, ExportByIdempotency, UseStored, Answer, RereadArtifact, PrepareGoes
    <3>3. InsertArtifact(p) \/ InsertRefused(p) \/ SignToken(p) => UNCHANGED downVars
      BY DEF InsertArtifact, InsertRefused, SignToken, PrepareGoes
    <3>4. AppendPreparedEvidence(p) \/ AppendConflictEvidence(p) => UNCHANGED downVars
      BY DEF AppendPreparedEvidence, AppendConflictEvidence, PrepareGoes
    <3>5. AnswerToken(p) \/ AnswerConflict(p) \/ PrepareFails(p) => UNCHANGED downVars
      BY DEF AnswerToken, AnswerConflict, PrepareFails, PrepareReturns
    <3>6. UNCHANGED downVars
      BY <2>2, <3>1, <3>2, <3>3, <3>4, <3>5 DEF PrepareNext
    <3> QED BY <3>6 DEF downVars
  <2>3. UNCHANGED vars => UNCHANGED seen
    BY DEF vars, downVars
  <2> QED BY <2>1, <2>2, <2>3
<1>2. ASSUME NEW e \in Downloaders, DownloadNext(e)
      PROVE  e = d /\ CheckDownload(d)
  <2>1. DownloadReturns(e) => seen'[d] = NoArtifact \/ seen'[d] = seen[d]
    BY DEF DownloadReturns
  <2>2. CASE CheckDownload(e)
    BY <2>2 DEF CheckDownload
  <2>3. CASE ~CheckDownload(e)
    BY <1>2, <2>1, <2>3 DEF DownloadNext, DownloadExport, ReadDownloadCount, MarkDownloaded,
           AppendDownloadEvidence, DeliverContent, DownloadFails
  <2> QED BY <2>2, <2>3
<1> QED BY <1>1, <1>2 DEF Next

\* A file that still names an erased subject leaves downloadExport's checks
\* only within exportTTL of the erasure, whatever is replayed or re-signed.
THEOREM ErasedNamesDoExpire == Spec => ErasedNamesExpire
<1>1. Inv /\ DatesOK /\ [Next]_vars =>
        [\A d \in Downloaders : seen[d] = NoArtifact /\ seen'[d] # NoArtifact =>
           \A row \in seen'[d].content :
             row.actor # Erased /\ ledger[row.id].erased # NoTime =>
               now < ledger[row.id].erased + exportTTL]_vars
  <2> SUFFICES ASSUME Inv, DatesOK, [Next]_vars, NEW d \in Downloaders,
                      seen[d] = NoArtifact, seen'[d] # NoArtifact,
                      NEW row \in seen'[d].content,
                      row.actor # Erased, ledger[row.id].erased # NoTime
               PROVE  now < ledger[row.id].erased + exportTTL
    OBVIOUS
  <2>1. PICK s \in Slots : /\ artifacts[s] # NoArtifact /\ now < artifacts[s].expires
                           /\ seen'[d] = artifacts[s]
    <3>1. CheckDownload(d) /\ seen \in [Downloaders -> Artifact \cup {NoArtifact}]
      BY SeenFrom DEF Inv, Typed, TypeOK
    <3>2. PICK s \in Slots : /\ ExportByTokenHash(artifacts[s], dcall[d])
                             /\ MayDownload(dcall[d], artifacts[s])
                             /\ seen' = [seen EXCEPT ![d] = artifacts[s]]
      BY <3>1 DEF CheckDownload
    <3> QED BY <3>1, <3>2 DEF ExportByTokenHash, MayDownload
  <2> DEFINE a == artifacts[s]
             e == ledger[row.id].erased
  <2>2. Dated(a) /\ a \in Artifact
    BY <2>1 DEF DatesOK, Inv, Typed, TypeOK
  <2>3. row.id \in DOMAIN ledger /\ a.expires <= e + exportTTL
    BY <2>1, <2>2 DEF Dated
  <2>4. ledger[row.id] \in Entry
    BY <2>3 DEF Inv, Typed, TypeOK
  <2>5. e \in Int /\ now \in Int /\ exportTTL \in Int /\ a.expires \in Int
    <3>1. e \in Int
      BY <2>4 DEF Entry
    <3>2. now \in Int
      BY DEF Inv, Typed, TypeOK
    <3>3. exportTTL \in Int /\ a.expires \in Int
      BY <2>2, ConstantAssumption DEF Artifact
    <3> QED BY <3>1, <3>2, <3>3
  <2> QED BY <2>1, <2>3, <2>5
<1> QED BY <1>1, DatesInit, DatesStep, InvAlways, PTL DEF Spec, ErasedNamesExpire

-----------------------------------------------------------------------------
(* ExportLifecycle implements ExportContract. *)

\* The file and stage of a slot, as the contract sees them.
View(a) == IF a = NoArtifact THEN NoArtifact ELSE [token |-> a.token, content |-> a.content]
Stage(a) == IF a = NoArtifact THEN "none" ELSE IF a.downloaded THEN "downloaded" ELSE "prepared"

\* What a caller sees of an artifact is not the sentinel for none.
LEMMA ViewIsFile ==
  ASSUME NEW a \in Artifact
  PROVE  View(a) # NoArtifact /\ View(a).token = a.token
BY SentinelAssumption DEF View, Artifact

\* Initial states map to initial states of the contract.
LEMMA ContractInit == Init => Contract!Init
BY DEF Init, NoEvidence, Contract!Init

\* The contract's variables, and its actions in terms of them.
File == [s \in Slots |-> View(artifacts[s])]
Stages == [s \in Slots |-> Stage(artifacts[s])]

\* What each action of the contract says of the mapped variables.
LEMMA ContractActions ==
  ASSUME NEW s \in Slots
  PROVE  /\ Contract!Prepare(s) <=>
              /\ Stages[s] = "none" /\ Stages' = [Stages EXCEPT ![s] = "prepared"]
              /\ File'[s] # NoArtifact /\ File' = [File EXCEPT ![s] = File'[s]]
              /\ UNCHANGED <<evidence, issued>>
         /\ Contract!RecordPrepared(s) <=>
              /\ Stages[s] # "none"
              /\ \/ evidence[s].first = 0 /\ evidence' = [evidence EXCEPT ![s].first = 1]
                 \/ evidence' = [evidence EXCEPT ![s].replay = TRUE]
              /\ UNCHANGED <<File, Stages, issued>>
         /\ Contract!RecordConflict(s) <=>
              /\ Stages[s] # "none"
              /\ evidence' = [evidence EXCEPT ![s].conflict = TRUE]
              /\ UNCHANGED <<File, Stages, issued>>
         /\ Contract!Issue(s) <=>
              /\ evidence[s].first = 1 \/ evidence[s].replay
              /\ issued' = issued \cup {File[s].token}
              /\ UNCHANGED <<File, Stages, evidence>>
         /\ Contract!Download(s) <=>
              /\ Stages[s] = "prepared" /\ File[s].token \in issued
              /\ Stages' = [Stages EXCEPT ![s] = "downloaded"]
              /\ UNCHANGED <<File, evidence, issued>>
         /\ Contract!RecordDownload(s) <=>
              /\ Stages[s] = "downloaded" /\ evidence[s].downloaded = 0
              /\ evidence' = [evidence EXCEPT ![s].downloaded = 1]
              /\ UNCHANGED <<File, Stages, issued>>
BY DEF File, Stages, View, Stage, Contract!Prepare, Contract!RecordPrepared,
       Contract!RecordConflict, Contract!Issue, Contract!Download, Contract!RecordDownload

\* A step that stores an artifact changes one slot of what the contract sees.
LEMMA SlotChanges ==
  ASSUME Inv, NEW s \in Slots, NEW a, artifacts' = [artifacts EXCEPT ![s] = a]
  PROVE  /\ File' = [File EXCEPT ![s] = View(a)]
         /\ Stages' = [Stages EXCEPT ![s] = Stage(a)]
BY DEF Inv, Typed, TypeOK, File, Stages, View, Stage

\* Steps that leave the table alone leave every file at its stage.
LEMMA SlotsStay == UNCHANGED artifacts => UNCHANGED <<File, Stages>>
BY DEF File, Stages, View, Stage

\* The INSERT that stores an artifact is the contract's preparation.
LEMMA ContractPrepare ==
  ASSUME Inv, NEW p \in Preparers, InsertArtifact(p)
  PROVE  \E s \in Slots : Contract!Prepare(s)
<1> DEFINE here == art[p].slot
<1>1. here \in Slots /\ artifacts[here] = NoArtifact /\ art[p] \in Artifact /\ ~art[p].downloaded
  BY SlotsInHand DEF InsertArtifact, KeyFree, Inv, Typed, CallsOK, Holding, Safe, PrepareOK
<1>2. artifacts' = [artifacts EXCEPT ![here] = art[p]] /\ UNCHANGED <<evidence, issued>>
  BY DEF InsertArtifact
<1>3. View(art[p]) # NoArtifact /\ Stage(art[p]) = "prepared" /\ Stages[here] = "none"
  BY <1>1, ViewIsFile, SentinelAssumption DEF Stage, Stages
<1>4. File' = [File EXCEPT ![here] = View(art[p])] /\ Stages' = [Stages EXCEPT ![here] = "prepared"]
  BY <1>1, <1>2, <1>3, SlotChanges
<1>5. File'[here] = View(art[p])
  BY <1>1, <1>4 DEF File
<1> QED BY <1>1, <1>2, <1>3, <1>4, <1>5, ContractActions

\* Appending the prepared event is the contract's recording of it.
LEMMA ContractRecordPrepared ==
  ASSUME Inv, NEW p \in Preparers, AppendPreparedEvidence(p)
  PROVE  \E s \in Slots : Contract!RecordPrepared(s)
<1> DEFINE here == art[p].slot
<1>1. /\ here \in Slots /\ artifacts[here] # NoArtifact /\ fresh[p] \in BOOLEAN
      /\ fresh[p] => evidence[here].first = 0
  BY SlotsInHand DEF AppendPreparedEvidence, Holding, Answered, Creating, Inv, Typed, TypeOK,
                     Safe, PrepareOK, OnceEach
<1>2. Stages[here] # "none"
  BY <1>1 DEF Stages, Stage
<1>3. UNCHANGED <<artifacts, issued>>
  BY DEF AppendPreparedEvidence
<1>4. CASE fresh[p]
  <2>1. evidence[here].first = 0
    BY <1>1, <1>4
  <2>2. evidence' = [evidence EXCEPT ![here] = [evidence[here] EXCEPT !.first = @ + 1]]
    BY <1>4 DEF AppendPreparedEvidence, PreparedEvent
  <2>3. evidence' = [evidence EXCEPT ![here].first = 1]
    BY <2>1, <2>2
  <2> QED BY <1>1, <1>2, <1>3, <2>1, <2>3, SlotsStay, ContractActions
<1>5. CASE ~fresh[p]
  <2>1. evidence' = [evidence EXCEPT ![here].replay = TRUE]
    BY <1>5 DEF AppendPreparedEvidence, PreparedEvent
  <2> QED BY <1>1, <1>2, <1>3, <2>1, SlotsStay, ContractActions
<1> QED BY <1>4, <1>5

\* Appending the conflict event is the contract's recording of it.
LEMMA ContractRecordConflict ==
  ASSUME Inv, NEW p \in Preparers, AppendConflictEvidence(p)
  PROVE  \E s \in Slots : Contract!RecordConflict(s)
<1> DEFINE here == art[p].slot
<1>1. here \in Slots /\ artifacts[here] # NoArtifact
  BY SlotsInHand DEF AppendConflictEvidence, Holding, Inv, Safe, PrepareOK
<1>2. Stages[here] # "none"
  BY <1>1 DEF Stages, Stage
<1>3. UNCHANGED <<artifacts, issued>> /\ evidence' = [evidence EXCEPT ![here].conflict = TRUE]
  BY DEF AppendConflictEvidence
<1> QED BY <1>1, <1>2, <1>3, SlotsStay, ContractActions

\* Answering with the token is the contract's issue, of a recorded file.
LEMMA ContractIssue ==
  ASSUME Inv, NEW p \in Preparers, AnswerToken(p)
  PROVE  \E s \in Slots : Contract!Issue(s)
<1> DEFINE here == art[p].slot
<1>1. /\ here \in Slots /\ artifacts[here] \in Artifact /\ artifacts[here] # NoArtifact
      /\ artifacts[here].token = tok[p]
      /\ PreparedEvidence(here)
  BY SlotsInHand DEF AnswerToken, Holding, Answered, Inv, Typed, TypeOK, Safe, PrepareOK
<1>2. File[here].token = tok[p]
  BY <1>1, ViewIsFile DEF File
<1>3. evidence[here].first = 1 \/ evidence[here].replay
  BY <1>1 DEF PreparedEvidence, Inv, Typed, TypeOK, Safe, OnceEach, RecordedOnce
<1>4. issued' = issued \cup {tok[p]} /\ UNCHANGED <<artifacts, evidence>>
  BY DEF AnswerToken
<1> QED BY <1>1, <1>2, <1>3, <1>4, SlotsStay, ContractActions

\* The UPDATE of the download count is the contract's download.
LEMMA ContractDownload ==
  ASSUME Inv, NEW d \in Downloaders, MarkDownloaded(d)
  PROVE  \E s \in Slots : Contract!Download(s)
<1> DEFINE here == seen[d].slot
           a == artifacts[here]
<1>0. dpc[d] = "mark" /\ ~a.downloaded
  BY DEF MarkDownloaded, NotYetDownloaded
<1>1. /\ here \in Slots /\ a \in Artifact /\ a # NoArtifact /\ ~a.downloaded
      /\ a.token \in issued
  <2>1. Typed /\ DownloadOK(d) /\ Admitted(d)
    BY <1>0 DEF Inv, Safe, Admitted
  <2>2. here \in Slots
    BY <2>1, SlotsInHand
  <2>3. a \in Artifact /\ a # NoArtifact
    BY <2>1, <2>2 DEF Typed, TypeOK, CallsOK
  <2>4. a.token = dcall[d].token /\ dcall[d].token \in issued
    BY <1>0, <2>1 DEF DownloadOK
  <2> QED BY <1>0, <2>2, <2>3, <2>4
<1>2. artifacts' = [artifacts EXCEPT ![here] = Downloaded(a)] /\ UNCHANGED <<evidence, issued>>
  BY DEF MarkDownloaded
<1>3. /\ Downloaded(a) # NoArtifact /\ View(Downloaded(a)) = View(a)
      /\ Stage(Downloaded(a)) = "downloaded"
  BY <1>1, DownloadedKeeps, SentinelAssumption DEF View, Stage
<1>4. File[here] = View(a) /\ File[here].token \in issued /\ Stages[here] = "prepared"
  BY <1>1, ViewIsFile DEF File, Stages, Stage
<1> HIDE DEF a, here
<1>5. File' = [File EXCEPT ![here] = File[here]] /\ Stages' = [Stages EXCEPT ![here] = "downloaded"]
  <2>1. /\ File' = [File EXCEPT ![here] = View(Downloaded(a))]
        /\ Stages' = [Stages EXCEPT ![here] = Stage(Downloaded(a))]
    BY <1>1, <1>2, SlotChanges
  <2> QED BY <1>3, <1>4, <2>1
<1>6. UNCHANGED File
  BY <1>5 DEF File
<1> QED BY <1>1, <1>2, <1>4, <1>5, <1>6, ContractActions

\* Appending the downloaded event is the contract's recording of it.
LEMMA ContractRecordDownload ==
  ASSUME Inv, NEW d \in Downloaders, AppendDownloadEvidence(d)
  PROVE  \E s \in Slots : Contract!RecordDownload(s)
<1> DEFINE here == seen[d].slot
<1>1. /\ here \in Slots /\ artifacts[here] # NoArtifact /\ artifacts[here].downloaded
      /\ evidence[here].downloaded = 0
  BY SlotsInHand DEF AppendDownloadEvidence, Admitted, Inv, Typed, CallsOK,
                     Safe, DownloadOK, OnceEach
<1>2. Stages[here] = "downloaded"
  BY <1>1 DEF Stages, Stage
<1>3. /\ UNCHANGED <<artifacts, issued>>
      /\ evidence' = [evidence EXCEPT ![here] = [evidence[here] EXCEPT !.downloaded = @ + 1]]
  BY DEF AppendDownloadEvidence
<1>4. evidence' = [evidence EXCEPT ![here].downloaded = 1]
  BY <1>1, <1>3
<1> QED BY <1>1, <1>2, <1>3, <1>4, SlotsStay, ContractActions

\* Every other step is invisible to the callers and the auditors of a key.
LEMMA ContractStep == Inv /\ [Next]_vars => [Contract!Next]_(Contract!contractVars)
<1> SUFFICES ASSUME Inv, [Next]_vars
             PROVE  Contract!Next \/ UNCHANGED Contract!contractVars
  OBVIOUS
<1>1. UNCHANGED <<artifacts, evidence, issued>> => UNCHANGED Contract!contractVars
  BY DEF Contract!contractVars
<1>2. HostNext \/ UNCHANGED vars => UNCHANGED <<artifacts, evidence, issued>>
  BY DEF HostNext, Tick, ConfigureExport, ChangeAuthorization, AppendBusinessEvent,
         EraseSubject, vars, storeVars
<1>3. ASSUME NEW p \in Preparers, PrepareNext(p)
      PROVE  \/ InsertArtifact(p) \/ AppendPreparedEvidence(p) \/ AppendConflictEvidence(p)
             \/ AnswerToken(p) \/ UNCHANGED <<artifacts, evidence, issued>>
  BY <1>3 DEF PrepareNext, PrepareExport, BuildArtifact, ExportByIdempotency, UseStored, Answer,
              InsertRefused, RereadArtifact, SignToken, AnswerConflict, PrepareFails, storeVars
<1>4. ASSUME NEW d \in Downloaders, DownloadNext(d)
      PROVE  \/ MarkDownloaded(d) \/ AppendDownloadEvidence(d)
             \/ UNCHANGED <<artifacts, evidence, issued>>
  BY <1>4 DEF DownloadNext, DownloadExport, CheckDownload, ReadDownloadCount,
              DeliverContent, DownloadFails, storeVars
<1>5. ASSUME NEW p \in Preparers, PrepareNext(p)
      PROVE  Contract!Next \/ UNCHANGED Contract!contractVars
  BY <1>1, <1>3, <1>5, ContractPrepare, ContractRecordPrepared, ContractRecordConflict,
     ContractIssue DEF Contract!Next
<1>6. ASSUME NEW d \in Downloaders, DownloadNext(d)
      PROVE  Contract!Next \/ UNCHANGED Contract!contractVars
  BY <1>1, <1>4, <1>6, ContractDownload, ContractRecordDownload DEF Contract!Next
<1> QED BY <1>1, <1>2, <1>5, <1>6 DEF Next

\* ExportService and its table implement the sequential life of ExportContract.
THEOREM ExportImplementsContract == Spec => ImplementsContract
BY ContractInit, ContractStep, InvAlways, PTL DEF Spec, ImplementsContract, Contract!Spec
=============================================================================
