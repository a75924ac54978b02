-------------------------- MODULE ExportLifecycle --------------------------
(***************************************************************************)
(* The business export of the Audit module: ExportService (prepare and     *)
(* download) over the table _audit_export_artifacts, with the evidence it  *)
(* appends to the event store.                                             *)
(*                                                                         *)
(* Each goroutine serves one request at a time and takes one step per call *)
(* of a repository.  Hashes are collision free: a hash is what it hashes.  *)
(* A token is the HMAC of (artifact, filters, expiry) under a key, and     *)
(* nobody makes one without the key.  One workspace is modelled.  The      *)
(* unit of time is the second, the resolution of the retention cutoff.     *)
(***************************************************************************)
EXTENDS Integers, Sequences, FiniteSets

CONSTANTS
  Actors, Orgs,   \* identities that act, and their organizations
  Users,          \* those that export
  Keys,           \* caller idempotency keys
  Revisions,      \* role, authorization revision, system scope and capabilities
  RevisionsOf,    \* RevisionsOf[u]: those that user u may come to have
  Results,        \* results that an event's metadata states
  Filters,        \* export filters as asked: [actor, from, result]
  AnyActor, AnyResult,   \* no such filter
  Erasable,       \* actors that may be erased as data subjects
  Erased,         \* what an erased column holds: a pseudonym, no result
  NoTime,         \* created_from left out
  RequestIds,     \* request ids of prepare calls, perhaps NoRequestId
  NoRequestId,
  Secrets,        \* values of the token key
  LongSecrets,    \* those of 16 bytes or more
  NoSecret,       \* the key before the host is bound
  PrepareScope,   \* PrepareScope[u][v]: data scope of user u at revision v for
  DownloadScope,  \* preparing and for downloading: [all, subjects, orgs]
  OrgOf,          \* actor_org_id of an actor's events
  FirstLedger,    \* business events at the start
  Preparers, Downloaders,
  NoCall, NoArtifact, NoConflict,
  exportTTL, exportMaxRows, Retention,
  MaxTime, MaxEvents   \* bounds of the model

Slots == [user : Users, key : Keys]    \* exportArtifactID(workspace, user, key)

Scope == [all : BOOLEAN, subjects : SUBSET Actors, orgs : SUBSET Orgs]

FilterRange == [actor : Actors \cup {AnyActor}, from : Int \cup {NoTime},
                result : Results \cup {AnyResult}]

\* A business event, and when its subject was erased.
Entry == [actor : Actors, at : Int, result : Results, erased : Int \cup {NoTime}]

ASSUME ConstantAssumption ==
  /\ {exportTTL, exportMaxRows, Retention, MaxTime, MaxEvents} \subseteq Nat
  /\ PrepareScope \in [Users -> [Revisions -> Scope]]
  /\ DownloadScope \in [Users -> [Revisions -> Scope]]
  /\ RevisionsOf \in [Users -> SUBSET Revisions]
  /\ Users \subseteq Actors
  /\ OrgOf \in [Actors -> Orgs]
  /\ LongSecrets \subseteq Secrets /\ NoSecret \in Secrets \ LongSecrets
  /\ Filters \subseteq FilterRange
  /\ NoTime \notin Int
  /\ Erased \notin Actors \cup Results \cup {AnyActor, AnyResult}
  /\ Erasable \subseteq Actors
  /\ FirstLedger \in Seq(Entry)

VARIABLES
  now,        \* the clock
  secret,     \* ExportService.exportTokenKey
  revision,   \* the host's current authorization of each user
  ledger,     \* business events, in the order (created_at, id)
  artifacts,  \* _audit_export_artifacts
  evidence,   \* export events in the event store, per artifact
  conflicts,  \* conflict events in the event store, by request id
  issued,     \* tokens handed to callers
  ppc, pcall, art, fresh, tok,   \* prepare: step, request, artifact in hand,
                                 \* created, token
  dpc, dcall, seen               \* download: step, request, artifact in hand

prepVars == <<ppc, pcall, art, fresh, tok>>
downVars == <<dpc, dcall, seen>>
hostVars == <<now, secret, revision, ledger>>
storeVars == <<artifacts, evidence, conflicts, issued>>
vars == <<hostVars, storeVars, prepVars, downVars>>

NoEvidence == [first |-> 0, replay |-> FALSE, downloaded |-> 0, conflict |-> FALSE]

Init ==
  /\ now = 0 /\ secret = NoSecret /\ ledger = FirstLedger
  /\ revision \in {f \in [Users -> Revisions] : \A u \in Users : f[u] \in RevisionsOf[u]}
  /\ artifacts = [s \in Slots |-> NoArtifact]
  /\ evidence = [s \in Slots |-> NoEvidence]
  /\ conflicts = [r \in RequestIds \ {NoRequestId} |-> NoConflict]
  /\ issued = {}
  /\ ppc = [p \in Preparers |-> "idle"]
  /\ pcall = [p \in Preparers |-> NoCall]
  /\ art = [p \in Preparers |-> NoArtifact]
  /\ fresh = [p \in Preparers |-> FALSE]
  /\ tok = [p \in Preparers |-> NoCall]
  /\ dpc = [d \in Downloaders |-> "idle"]
  /\ dcall = [d \in Downloaders |-> NoCall]
  /\ seen = [d \in Downloaders |-> NoArtifact]

-----------------------------------------------------------------------------
(* The host (external): time, binding, authorization, business events. *)

Tick == /\ now < MaxTime
        /\ now' = now + 1
        /\ UNCHANGED <<secret, revision, ledger, storeVars, prepVars, downVars>>

ConfigureExport(k) ==
  /\ secret' = k
  /\ UNCHANGED <<now, revision, ledger, storeVars, prepVars, downVars>>

ChangeAuthorization(u, v) ==
  /\ revision' = [revision EXCEPT ![u] = v]
  /\ UNCHANGED <<now, secret, ledger, storeVars, prepVars, downVars>>

AppendBusinessEvent(a, x) ==
  /\ Len(ledger) < MaxEvents
  /\ ledger' = Append(ledger, [actor |-> a, at |-> now, result |-> x, erased |-> NoTime])
  /\ UNCHANGED <<now, secret, revision, storeVars, prepVars, downVars>>

\* EraseSubject, as far as exports see it.  Artifacts are not touched.
EraseSubject(a) ==
  /\ \E i \in DOMAIN ledger : ledger[i].actor = a /\ ledger[i].erased = NoTime
  /\ ledger' = [i \in DOMAIN ledger |->
       IF ledger[i].actor = a /\ ledger[i].erased = NoTime
       THEN [ledger[i] EXCEPT !.erased = now] ELSE ledger[i]]
  /\ UNCHANGED <<now, secret, revision, storeVars, prepVars, downVars>>

-----------------------------------------------------------------------------
(* prepareExport *)

Cutoff(t) == t - Retention

NormalizeExportFilters(f, t) ==
  IF f.from = NoTime THEN [f EXCEPT !.from = Cutoff(t)]
  ELSE IF f.from < Cutoff(t) THEN [f EXCEPT !.from = Cutoff(t)] ELSE f

\* The columns of an event that an export reads; its name states no result.
Stored(e) == IF e.erased = NoTime THEN [actor |-> e.actor, result |-> e.result]
             ELSE [actor |-> Erased, result |-> Erased]

InScope(actor, scope) == \/ scope.all
                         \/ actor \in scope.subjects
                         \/ actor \in Actors /\ OrgOf[actor] \in scope.orgs

\* ListWithinDataScope, newest first, at most exportMaxRows rows.
ListWithinDataScope(filters, scope) ==
  LET rows == {i \in DOMAIN ledger :
                 /\ filters.actor \in {AnyActor, Stored(ledger[i]).actor}
                 /\ ledger[i].at >= filters.from
                 /\ InScope(Stored(ledger[i]).actor, scope)}
  IN  {i \in rows : Cardinality({j \in rows : j > i}) < exportMaxRows}

\* The rows of the CSV.  The result filter comes after the limit.
ExportRows(filters, scope) ==
  {[id |-> i, actor |-> Stored(ledger[i]).actor] :
     i \in {j \in ListWithinDataScope(filters, scope) :
              filters.result \in {AnyResult, Stored(ledger[j]).result}}}

exportToken(slot, filters, expires, k) ==
  [slot |-> slot, filters |-> filters, expires |-> expires, secret |-> k]

SlotOf(c) == [user |-> c.user, key |-> c.key]

\* Variant: the user is hashed in place of the revision.
exportAuthorizationHashUser(c) == [user |-> c.user, rev |-> c.user]

exportAuthorizationHash(c) == [user |-> c.user, rev |-> c.rev]

PrepareReturns(p) ==
  /\ ppc' = [ppc EXCEPT ![p] = "idle"]
  /\ pcall' = [pcall EXCEPT ![p] = NoCall]
  /\ art' = [art EXCEPT ![p] = NoArtifact]
  /\ fresh' = [fresh EXCEPT ![p] = FALSE]
  /\ tok' = [tok EXCEPT ![p] = NoCall]

PrepareGoes(p, to) ==
  /\ ppc' = [ppc EXCEPT ![p] = to]
  /\ UNCHANGED <<pcall, hostVars, downVars>>

\* The key is long enough, the clock is read, the filters are normalized.
PrepareExport(p, u, k, f, r) ==
  /\ ppc[p] = "idle"
  /\ secret \in LongSecrets
  /\ pcall' = [pcall EXCEPT ![p] =
       [user |-> u, key |-> k, rev |-> revision[u], asked |-> f,
        filters |-> NormalizeExportFilters(f, now), rid |-> r, at |-> now]]
  /\ ppc' = [ppc EXCEPT ![p] = "list"]
  /\ UNCHANGED <<art, fresh, tok, hostVars, storeVars, downVars>>

\* List the rows and build the artifact; without a row: export_no_results.
BuildArtifact(p) ==
  LET c == pcall[p]
      content == ExportRows(c.filters, PrepareScope[c.user][c.rev])
      expires == c.at + exportTTL
  IN  /\ ppc[p] = "list"
      /\ content # {}
      /\ art' = [art EXCEPT ![p] =
           [slot |-> SlotOf(c), asked |-> c.asked, filters |-> c.filters,
            auth |-> exportAuthorizationHash(c), content |-> content,
            expires |-> expires, downloaded |-> FALSE,
            token |-> exportToken(SlotOf(c), c.filters, expires, secret)]]
      /\ PrepareGoes(p, "find")
      /\ UNCHANGED <<fresh, tok, storeVars>>

sameExportRequest(a, b) == a.filters = b.filters /\ a.auth = b.auth

\* CreateOrGetExport found the row of its key: the stored artifact, or conflict.
Answer(p, created) ==
  LET stored == artifacts[art[p].slot]
  IN  /\ stored # NoArtifact
      /\ \/ /\ sameExportRequest(stored, art[p])
            /\ art' = [art EXCEPT ![p] = stored]
            /\ PrepareGoes(p, "sign")
         \/ /\ ~sameExportRequest(stored, art[p])
            /\ PrepareGoes(p, "conflict")
            /\ UNCHANGED art
      /\ fresh' = [fresh EXCEPT ![p] = created]
      /\ UNCHANGED <<tok, storeVars>>

\* Variant: an artifact that was found is reported as created.
UseStoredAsCreated(p) == Answer(p, TRUE)

UseStored(p) == Answer(p, FALSE)

ExportByIdempotency(p) ==
  /\ ppc[p] = "find"
  /\ \/ UseStored(p)
     \/ /\ artifacts[art[p].slot] = NoArtifact
        /\ PrepareGoes(p, "insert")
        /\ UNCHANGED <<art, fresh, tok, storeVars>>

\* Variant: an upsert, INSERT ... ON CONFLICT DO UPDATE.
KeyFreeAlways(slot) == TRUE

\* The unique index over requester and key.
KeyFree(slot) == artifacts[slot] = NoArtifact

InsertArtifact(p) ==
  /\ ppc[p] = "insert"
  /\ KeyFree(art[p].slot)
  /\ artifacts' = [artifacts EXCEPT ![art[p].slot] = art[p]]
  /\ \/ fresh' = [fresh EXCEPT ![p] = TRUE] /\ PrepareGoes(p, "sign")
     \/ UNCHANGED fresh /\ PrepareGoes(p, "reread")    \* the answer is lost
  /\ UNCHANGED <<art, tok, evidence, conflicts, issued>>

\* The key exists, or the INSERT failed for another reason.
InsertRefused(p) ==
  /\ ppc[p] = "insert"
  /\ PrepareGoes(p, "reread")
  /\ UNCHANGED <<art, fresh, tok, storeVars>>

RereadArtifact(p) == ppc[p] = "reread" /\ UseStored(p)

\* Variant: the new token is not compared with the stored hash.
TokenStandsUnchecked(a, t) == TRUE

\* Else export_integrity_failed.
TokenStands(a, t) == t = a.token

\* The token is made again from the stored artifact, with the key of now.
SignToken(p) ==
  LET t == exportToken(art[p].slot, art[p].filters, art[p].expires, secret)
  IN  /\ ppc[p] = "sign"
      /\ TokenStands(art[p], t)
      /\ tok' = [tok EXCEPT ![p] = t]
      /\ PrepareGoes(p, "evidence")
      /\ UNCHANGED <<art, fresh, storeVars>>

\* Variant: telemetry, whose failure is ignored.
PreparedTelemetry(trail, created) == trail

\* audit_export_prepared, with idempotency_replayed unless created.
PreparedEvent(trail, created) ==
  IF created THEN [trail EXCEPT !.first = @ + 1] ELSE [trail EXCEPT !.replay = TRUE]

AppendPreparedEvidence(p) ==
  /\ ppc[p] = "evidence"
  /\ evidence' = [evidence EXCEPT ![art[p].slot] = PreparedEvent(@, fresh[p])]
  /\ PrepareGoes(p, "answer")
  /\ UNCHANGED <<art, fresh, tok, artifacts, conflicts, issued>>

AnswerToken(p) ==
  /\ ppc[p] = "answer"
  /\ issued' = issued \cup {tok[p]}
  /\ PrepareReturns(p)
  /\ UNCHANGED <<artifacts, evidence, conflicts, hostVars, downVars>>

\* Variant: an upsert; the event of the id's last use replaces the one before.
ConflictEventFitsAlways(found, event) == TRUE

\* Else the event store refuses the id: export_audit_failed.
ConflictEventFits(found, event) == found \in {NoConflict, event}

\* appendExportConflictAudit: its event id is the request id, if there is one,
\* so a retry of the request is a replay and another use of the id is refused.
AppendConflictEvidence(p) ==
  LET slot == art[p].slot
      r == pcall[p].rid
      event == [slot |-> slot, rev |-> pcall[p].rev]
  IN  /\ ppc[p] = "conflict"
      /\ \/ r = NoRequestId /\ UNCHANGED conflicts
         \/ /\ r # NoRequestId
            /\ ConflictEventFits(conflicts[r], event)
            /\ conflicts' = [conflicts EXCEPT ![r] = event]
      /\ evidence' = [evidence EXCEPT ![slot].conflict = TRUE]
      /\ PrepareGoes(p, "refused")
      /\ UNCHANGED <<art, fresh, tok, artifacts, issued>>

AnswerConflict(p) ==
  /\ ppc[p] = "refused"
  /\ PrepareReturns(p)
  /\ UNCHANGED <<storeVars, hostVars, downVars>>

\* Every other way out: the authorizer refuses, no rows, a repository or the
\* appender fails, the key has changed, the process stops.
PrepareFails(p) ==
  /\ ppc[p] # "idle"
  /\ PrepareReturns(p)
  /\ UNCHANGED <<storeVars, hostVars, downVars>>

-----------------------------------------------------------------------------
(* downloadExport *)

DownloadReturns(d) ==
  /\ dpc' = [dpc EXCEPT ![d] = "idle"]
  /\ dcall' = [dcall EXCEPT ![d] = NoCall]
  /\ seen' = [seen EXCEPT ![d] = NoArtifact]
  /\ UNCHANGED <<hostVars, prepVars>>

DownloadGoes(d, to) ==
  /\ dpc' = [dpc EXCEPT ![d] = to]
  /\ UNCHANGED <<hostVars, prepVars>>

DownloadExport(d, u, t) ==
  /\ dpc[d] = "idle"
  /\ secret \in LongSecrets
  /\ dcall' = [dcall EXCEPT ![d] = [user |-> u, rev |-> revision[u], token |-> t]]
  /\ DownloadGoes(d, "check")
  /\ UNCHANGED <<seen, storeVars>>

exportArtifactDataScopePredicate(scope, requester) ==
  scope.all \/ requester \in scope.subjects

\* Artifact a of the table answers token t asked for by call c.
ExportByTokenHash(a, c) ==
  /\ a # NoArtifact
  /\ a.token = c.token
  /\ a.slot.user = c.user
  /\ exportArtifactDataScopePredicate(DownloadScope[c.user][c.rev], a.slot.user)

\* Variant: the authorization at preparation is not compared with that of now.
MayDownloadAnyRevision(c, a) ==
  c.token = exportToken(a.slot, a.filters, a.expires, secret) /\ now < a.expires

\* Variant: the moment of expiry still counts.
MayDownloadAtExpiry(c, a) ==
  /\ c.token = exportToken(a.slot, a.filters, a.expires, secret)
  /\ now <= a.expires
  /\ exportAuthorizationHash(c) = a.auth

\* The token's HMAC, the expiry and the authorization.
MayDownload(c, a) ==
  /\ c.token = exportToken(a.slot, a.filters, a.expires, secret)
  /\ now < a.expires
  /\ exportAuthorizationHash(c) = a.auth

\* The lookup and the checks before the download is recorded.
CheckDownload(d) ==
  /\ dpc[d] = "check"
  /\ \E s \in Slots :
       /\ ExportByTokenHash(artifacts[s], dcall[d])
       /\ MayDownload(dcall[d], artifacts[s])
       /\ seen' = [seen EXCEPT ![d] = artifacts[s]]
  /\ DownloadGoes(d, "count")
  /\ UNCHANGED <<dcall, storeVars>>

\* Variant: the evidence is appended before the download is recorded.
AfterCountEarly(a) == IF a.downloaded THEN "deliver" ELSE "evidence"

AfterCount(a) == IF a.downloaded THEN "deliver" ELSE "mark"

\* RecordExportDownload, first half: read download_count in a transaction.
ReadDownloadCount(d) ==
  /\ dpc[d] = "count"
  /\ DownloadGoes(d, AfterCount(artifacts[seen[d].slot]))
  /\ UNCHANGED <<dcall, seen, storeVars>>

\* Variant: the UPDATE does not ask for download_count = 0.
NotYetDownloadedUnasked(a) == TRUE

\* Else "changed during scoped update".
NotYetDownloaded(a) == ~a.downloaded

\* Variant: a download extends the life of the artifact.
DownloadedSliding(a) == [a EXCEPT !.downloaded = TRUE, !.expires = now + exportTTL + 1]

Downloaded(a) == [a EXCEPT !.downloaded = TRUE]

\* Second half: UPDATE ... WHERE download_count = 0, and commit.  The answer of
\* the commit may be lost.
MarkDownloaded(d) ==
  LET s == seen[d].slot
  IN  /\ dpc[d] = "mark"
      /\ NotYetDownloaded(artifacts[s])
      /\ artifacts' = [artifacts EXCEPT ![s] = Downloaded(@)]
      /\ \/ DownloadGoes(d, "evidence") /\ UNCHANGED <<dcall, seen>>
         \/ DownloadReturns(d)
      /\ UNCHANGED <<evidence, conflicts, issued>>

AppendDownloadEvidence(d) ==
  /\ dpc[d] = "evidence"
  /\ evidence' = [evidence EXCEPT ![seen[d].slot].downloaded = @ + 1]
  /\ DownloadGoes(d, "deliver")
  /\ UNCHANGED <<dcall, seen, artifacts, conflicts, issued>>

DeliverContent(d) ==
  /\ dpc[d] = "deliver"
  /\ DownloadReturns(d)
  /\ UNCHANGED storeVars

\* Not found, expired, changed scope, a repository or the appender fails, the
\* process stops.
DownloadFails(d) ==
  /\ dpc[d] # "idle"
  /\ DownloadReturns(d)
  /\ UNCHANGED storeVars

-----------------------------------------------------------------------------
HostNext ==
  \/ Tick
  \/ \E k \in Secrets : ConfigureExport(k)
  \/ \E u \in Users : \E v \in RevisionsOf[u] : ChangeAuthorization(u, v)
  \/ \E a \in Actors, x \in Results : AppendBusinessEvent(a, x)
  \/ \E a \in Erasable : EraseSubject(a)

PrepareNext(p) ==
  \/ \E u \in Users, k \in Keys, f \in Filters, r \in RequestIds :
       PrepareExport(p, u, k, f, r)
  \/ BuildArtifact(p) \/ ExportByIdempotency(p)
  \/ InsertArtifact(p) \/ InsertRefused(p) \/ RereadArtifact(p)
  \/ SignToken(p) \/ AppendPreparedEvidence(p) \/ AnswerToken(p)
  \/ AppendConflictEvidence(p) \/ AnswerConflict(p) \/ PrepareFails(p)

DownloadNext(d) ==
  \/ \E u \in Users, t \in issued : DownloadExport(d, u, t)
  \/ CheckDownload(d) \/ ReadDownloadCount(d) \/ MarkDownloaded(d)
  \/ AppendDownloadEvidence(d) \/ DeliverContent(d) \/ DownloadFails(d)

Next == \/ HostNext
        \/ \E p \in Preparers : PrepareNext(p)
        \/ \E d \in Downloaders : DownloadNext(d)

Spec == Init /\ [][Next]_vars

-----------------------------------------------------------------------------
(* Properties *)

Token == [slot : Slots, filters : FilterRange, expires : Int, secret : Secrets]

Artifact == [slot : Slots, asked : Filters, filters : FilterRange,
             auth : [user : Users, rev : Revisions],
             content : SUBSET [id : Nat, actor : Actors \cup {Erased}],
             expires : Int, downloaded : BOOLEAN, token : Token]

PrepareCall == [user : Users, key : Keys, rev : Revisions, asked : Filters,
                filters : FilterRange, rid : RequestIds, at : Int]

DownloadCall == [user : Users, rev : Revisions, token : Token]

\* No artifact, nor what a caller sees of one, is the sentinel for none, and no
\* conflict event is that for no event.
ASSUME SentinelAssumption ==
  /\ NoConflict \notin [slot : Slots, rev : Revisions]
  /\ NoArtifact \notin Artifact
  /\ NoArtifact \notin [token : Token, content : SUBSET [id : Nat, actor : Actors \cup {Erased}]]

\* Every variable holds values of its kind (export_service.go, export store).
TypeOK ==
  /\ now \in Nat
  /\ secret \in Secrets
  /\ revision \in [Users -> Revisions]
  /\ ledger \in Seq(Entry)
  /\ artifacts \in [Slots -> Artifact \cup {NoArtifact}]
  /\ evidence \in [Slots -> [first : Nat, replay : BOOLEAN,
                             downloaded : Nat, conflict : BOOLEAN]]
  /\ conflicts \in [RequestIds \ {NoRequestId} ->
                      [slot : Slots, rev : Revisions] \cup {NoConflict}]
  /\ issued \in SUBSET Token
  /\ ppc \in [Preparers -> {"idle", "list", "find", "insert", "reread", "sign",
                            "evidence", "answer", "conflict", "refused"}]
  /\ pcall \in [Preparers -> PrepareCall \cup {NoCall}]
  /\ art \in [Preparers -> Artifact \cup {NoArtifact}]
  /\ fresh \in [Preparers -> BOOLEAN]
  /\ tok \in [Preparers -> Token \cup {NoCall}]
  /\ dpc \in [Downloaders -> {"idle", "check", "count", "mark", "evidence", "deliver"}]
  /\ dcall \in [Downloaders -> DownloadCall \cup {NoCall}]
  /\ seen \in [Downloaders -> Artifact \cup {NoArtifact}]

\* Every token handed out is the token of the artifact stored under its
\* idempotency key: all successful answers to one key are the same answer,
\* whatever races, lost answers, key rotations and clock steps come between.
IssuedTokenIsStored ==
  \A t \in issued : /\ artifacts[t.slot] # NoArtifact
                    /\ artifacts[t.slot].token = t

PreparedEvidence(s) == evidence[s].first > 0 \/ evidence[s].replay

\* No caller holds a token whose preparation is not in the audit trail
\* (audit_export_prepared is appended before the token is returned).
IssuedHasEvidence == \A t \in issued : PreparedEvidence(t.slot)

\* However many requests race on one key or one token, at most one is recorded
\* as the creation of the artifact and at most one as its first download.
RecordedOnce ==
  \A s \in Slots : evidence[s].first <= 1 /\ evidence[s].downloaded <= 1

\* Evidence never states what did not happen: prepared and conflict events
\* name an artifact that exists, and a downloaded event one that was marked.
EvidenceTruthful ==
  /\ \A s \in Slots :
       /\ PreparedEvidence(s) \/ evidence[s].conflict => artifacts[s] # NoArtifact
       /\ evidence[s].downloaded > 0 =>
            artifacts[s] # NoArtifact /\ artifacts[s].downloaded
  /\ \A r \in DOMAIN conflicts :
       conflicts[r] # NoConflict => evidence[conflicts[r].slot].conflict

\* Whoever is told of an idempotency conflict has that conflict on record under
\* the id of its own request: the artifact and the authorization it was asked
\* with.  An id that stands for another conflict already is answered with the
\* internal error instead, however many requests carry it at once
\* (appendExportConflictAudit before idempotency_key_conflict).
ConflictRecorded ==
  \A p \in Preparers : ppc[p] = "refused" =>
    /\ evidence[art[p].slot].conflict
    /\ pcall[p].rid # NoRequestId =>
         conflicts[pcall[p].rid] = [slot |-> art[p].slot, rev |-> pcall[p].rev]

\* What reaches a downloader is the content that was prepared, by the same
\* user under the same authorization, holds only rows that this authorization
\* may export, has its preparation in the audit trail, and is marked downloaded.
DeliverySound ==
  \A d \in Downloaders : dpc[d] = "deliver" =>
    LET a == seen[d]
        c == dcall[d]
    IN  /\ a.slot.user = c.user
        /\ a.content = artifacts[a.slot].content
        /\ a.auth = [user |-> c.user, rev |-> c.rev]
        /\ \A row \in a.content : InScope(row.actor, PrepareScope[c.user][c.rev])
        /\ PreparedEvidence(a.slot)
        /\ artifacts[a.slot].downloaded

\* A stored artifact never changes, except that it becomes downloaded, once.
ArtifactImmutable ==
  [][\A s \in Slots : artifacts[s] # NoArtifact =>
       artifacts'[s] \in {artifacts[s], [artifacts[s] EXCEPT !.downloaded = TRUE]}]_vars

\* A file that names a subject whose event has since been erased is let out
\* only within exportTTL of the erasure: artifacts keep what they copied, but
\* no replay, retry, re-signing or download brings one back past its expiry.
ErasedNamesExpire ==
  [][\A d \in Downloaders : seen[d] = NoArtifact /\ seen'[d] # NoArtifact =>
       \A row \in seen'[d].content :
         row.actor # Erased /\ ledger[row.id].erased # NoTime =>
           now < ledger[row.id].erased + exportTTL]_vars

\* "retain export/download evidence if a file is produced"
\* (capability/agent/query-export.md): content that reaches a downloader has an
\* audit_export_downloaded event, or one is about to be appended.
DeliveryHasEvidence ==
  \A d \in Downloaders : dpc[d] = "deliver" =>
    \/ evidence[seen[d].slot].downloaded > 0
    \/ \E e \in Downloaders : dpc[e] = "evidence" /\ seen[e].slot = seen[d].slot

\* The same request under the same key and authorization is a replay, never an
\* idempotency conflict (module/factory_test.go prepares the same request twice).
RetryIsReplay ==
  \A p \in Preparers : ppc[p] = "refused" =>
    LET stored == artifacts[art[p].slot]
    IN  ~(stored.asked = pcall[p].asked /\ stored.auth = art[p].auth)

Contract == INSTANCE ExportContract WITH
  NoFile <- NoArtifact,
  file   <- [s \in Slots |-> IF artifacts[s] = NoArtifact THEN NoArtifact
                ELSE [token |-> artifacts[s].token, content |-> artifacts[s].content]],
  stage  <- [s \in Slots |-> IF artifacts[s] = NoArtifact THEN "none"
                ELSE IF artifacts[s].downloaded THEN "downloaded" ELSE "prepared"],
  trail  <- evidence

\* Whatever requests race, retry, fail, expire or change authorization, what
\* each key's callers and auditors see is the sequential life of module
\* ExportContract: prepared once, recorded, issued, downloaded once, recorded.
ImplementsContract == Contract!Spec
=============================================================================
