---------------------------- MODULE HostBinding ----------------------------
(***************************************************************************)
(* Assembly of the module in a host process (factory.go), binding of       *)
(* application hosts (binding.go) and what export requests see of it.      *)
(*                                                                         *)
(* OpenModule migrates the schema and makes the Binding.  Binding a host   *)
(* writes the token key and the authorizer of the shared ExportService     *)
(* without synchronisation and publishes the host's HTTP adapter under a   *)
(* lock.  Adapters a host has fetched stay mounted.  Requests read the key *)
(* up to three times.  A slice is a pointer and a length, written and read *)
(* one word at a time, so a reader may pair the bytes of one key with the  *)
(* length of another; the authorizer is one word.  The process may crash;  *)
(* the schema, the stored artifacts and the tokens given out outlive it.   *)
(***************************************************************************)
EXTENDS Naturals, Sequences

CONSTANTS
  Hosts,          \* application hosts; each returns the same key on every call
  KeySize,        \* bytes of a host's export token key
  NoHost,         \* nil: no key, no authorizer, nothing bound
  SDK,            \* a caller of the Exporter port
  DirectHosts,    \* those whose key is also configured at the Exporter port
  Drivers,        \* drivers that a module host may name
  Binders,        \* goroutines that bind hosts or configure the Exporter
  Requesters,     \* goroutines that serve export requests
  NoCall

ASSUME BindingAssumption ==
  /\ KeySize \in [Hosts -> Nat]
  /\ NoHost \notin Hosts /\ SDK \notin Hosts \cup {NoHost}
  /\ NoCall \notin [host : Hosts, direct : BOOLEAN]
  /\ DirectHosts \subseteq Hosts

\* The versions of SchemaMigrations, by name.
Migrations == <<"audit_events", "audit_exports_and_indexes",
                "audit_event_actor_organization_scope">>

VARIABLES
  schema,       \* applied migrations (durable)
  phase,        \* the process: "down", "migrating", "open"
  key,          \* ExportService.exportTokenKey: whose bytes, whose length
  authorizer,   \* ExportService.exportAuthorizer: the host it asks, or nil
  adapters,     \* Binding.adapters: the hosts behind them
  mounted,      \* hosts whose adapters were fetched and serve requests
  bpc, bcall,   \* binders: step and call
  rpc, req,     \* requests: step and [via, op, ask, early, token]
  by,           \* whose authorizer let the request pass
  stored,       \* the key of the token hash of the artifact stored last (durable)
  issued,       \* the key of a token given out since, or none (durable)
  bound,        \* history: a BindApplicationHost has returned
  overlapped,   \* history: two configurations ran at once
  direct        \* history: the Exporter was configured past the Binding

serviceVars == <<key, authorizer>>
bindVars == <<adapters, bpc, bcall, bound, overlapped, direct>>
requestVars == <<rpc, req, by>>
tokenVars == <<stored, issued>>
vars == <<schema, phase, serviceVars, mounted, bindVars, requestVars, tokenVars>>

KeyWords == {"bytes", "size"}

Nil == [bytes |-> NoHost, size |-> NoHost]

\* What a process starts with.
Fresh ==
  [key |-> Nil, bpc |-> [b \in Binders |-> "idle"], bcall |-> [b \in Binders |-> NoCall],
   rpc |-> [r \in Requesters |-> "idle"], req |-> [r \in Requesters |-> NoCall],
   by |-> [r \in Requesters |-> NoHost]]

Init ==
  /\ schema = 0 /\ phase = "down" /\ issued = NoCall /\ stored = NoCall
  /\ key = Fresh.key /\ authorizer = NoHost /\ adapters = {} /\ mounted = {}
  /\ bpc = Fresh.bpc /\ bcall = Fresh.bcall
  /\ rpc = Fresh.rpc /\ req = Fresh.req /\ by = Fresh.by
  /\ bound = FALSE /\ overlapped = FALSE /\ direct = FALSE

-----------------------------------------------------------------------------
(* Factory.OpenModule *)

NewEngine(driver) == driver \in {"sqlite", "mysql", "postgres"}

Assembly(to) == /\ phase' = to
                /\ UNCHANGED <<serviceVars, mounted, bindVars, requestVars, tokenVars>>

\* An incomplete host and an unknown driver are refused before any change.
OpenModule(driver) ==
  /\ phase = "down" /\ NewEngine(driver)
  /\ Assembly("migrating") /\ UNCHANGED schema

\* The host's runner applies the versions that are not applied yet, in order.
ApplyOwnedMigration ==
  /\ phase = "migrating" /\ schema < Len(Migrations)
  /\ schema' = schema + 1
  /\ Assembly("migrating")

\* A migration fails, the context is done or the application is not valid.
OpenFails == phase = "migrating" /\ Assembly("down") /\ UNCHANGED schema

\* Variant: the error of ApplyOwnedMigrations is not looked at.
MigratedMostly == schema > 0

Migrated == schema = Len(Migrations)

open == phase = "migrating" /\ Migrated /\ Assembly("open") /\ UNCHANGED schema

Crash ==
  /\ phase # "down" /\ phase' = "down"
  /\ key' = Fresh.key /\ authorizer' = NoHost /\ adapters' = {} /\ mounted' = {}
  /\ bpc' = Fresh.bpc /\ bcall' = Fresh.bcall
  /\ rpc' = Fresh.rpc /\ req' = Fresh.req /\ by' = Fresh.by
  /\ bound' = FALSE /\ overlapped' = FALSE /\ direct' = FALSE
  /\ UNCHANGED <<schema, tokenVars>>

-----------------------------------------------------------------------------
(* Binding.BindApplicationHost, and ConfigureExport called on the Exporter *)

StartsConfiguring(b, h, isDirect, at) ==
  /\ phase = "open" /\ bpc[b] = "idle"
  /\ bpc' = [bpc EXCEPT ![b] = at]
  /\ bcall' = [bcall EXCEPT ![b] = [host |-> h, direct |-> isDirect]]
  /\ overlapped' = (overlapped \/ \E o \in Binders : bpc[o] # "idle")
  /\ UNCHANGED <<schema, phase, serviceVars, adapters, mounted, bound, requestVars, tokenVars>>

BindApplicationHost(b, h) ==
  StartsConfiguring(b, h, FALSE, "construct") /\ UNCHANGED direct

ConfigureExportDirectly(b, h) ==
  StartsConfiguring(b, h, TRUE, "key") /\ direct' = TRUE

BinderGoes(b, to) ==
  /\ bpc' = [bpc EXCEPT ![b] = to]
  /\ bcall' = IF to = "idle" THEN [bcall EXCEPT ![b] = NoCall] ELSE bcall
  /\ UNCHANGED <<schema, phase, mounted, overlapped, direct, requestVars, tokenVars>>

\* Variant: the host's key may have any length.
HostCompleteUnchecked(h) == TRUE

HostComplete(h) == KeySize[h] >= 16

\* Variant: a host that is refused leaves the service without a key.
NewAuditQueryApplicationServiceClears(b) ==
  /\ bpc[b] = "construct"
  /\ BinderGoes(b, IF HostComplete(bcall[b].host) THEN "key" ELSE "idle")
  /\ key' = IF HostComplete(bcall[b].host) THEN key ELSE Nil
  /\ UNCHANGED <<authorizer, adapters, bound>>

NewAuditQueryApplicationService(b) ==
  /\ bpc[b] = "construct"
  /\ BinderGoes(b, IF HostComplete(bcall[b].host) THEN "key" ELSE "idle")
  /\ UNCHANGED <<serviceVars, adapters, bound>>

\* ConfigureExport: the two words of the key, in the order the build stores
\* them, then the authorizer.
WriteKeyWord(b, word) ==
  /\ bpc[b] \in {"key", word}
  /\ key' = [key EXCEPT ![word] = bcall[b].host]
  /\ BinderGoes(b, IF bpc[b] = word THEN "authorizer"
                   ELSE CHOOSE other \in KeyWords : other # word)
  /\ UNCHANGED <<authorizer, adapters, bound>>

\* Variant: only the first host's authorizer is kept.
AuthorizerOfFirst(c) == IF authorizer # NoHost THEN authorizer ELSE c.host

\* Variant: binding passes no authorizer either.
AuthorizerNever(c) == NoHost

\* The callback that a configuration passes.
AuthorizerOf(c) == IF c.direct THEN NoHost ELSE c.host

WriteAuthorizer(b) ==
  /\ bpc[b] = "authorizer"
  /\ authorizer' = AuthorizerOf(bcall[b])
  /\ BinderGoes(b, IF bcall[b].direct THEN "idle" ELSE "publish")
  /\ UNCHANGED <<key, adapters, bound>>

\* Variant: the new adapter is added to the published ones.
PublishedAlso(h) == adapters \cup {h}

Published(h) == {h}

\* NewAuditHTTPAdapter, then the lock; BindApplicationHost returns.
PublishAdapters(b) ==
  /\ bpc[b] = "publish"
  /\ adapters' = Published(bcall[b].host)
  /\ bound' = TRUE
  /\ BinderGoes(b, "idle")
  /\ UNCHANGED serviceVars

HTTPAdapters ==
  /\ mounted' = mounted \cup adapters
  /\ UNCHANGED <<schema, phase, serviceVars, bindVars, requestVars, tokenVars>>

-----------------------------------------------------------------------------
(* Export requests *)

Operations == {"prepare", "download"}

RequestGoes(r, to) ==
  /\ rpc' = [rpc EXCEPT ![r] = to]
  /\ UNCHANGED <<schema, phase, serviceVars, mounted, bindVars>>

Starts(r, via, op, ask, token) ==
  /\ rpc[r] = "idle"
  /\ req' = [req EXCEPT ![r] = [via |-> via, op |-> op, ask |-> ask,
                                early |-> ~bound, token |-> token]]
  /\ RequestGoes(r, "check")
  /\ UNCHANGED <<by, tokenVars>>

\* What a request brings: a download, the token that was given out last.
Tokens(op) == IF op = "prepare" THEN {Nil} ELSE {issued} \ {NoCall}

\* Variant: requests through an adapter use the service's shared authorizer.
authorizeExportRecordShared(h) == authorizer

\* The callback that an adapter's requests carry: its own service's.
authorizeExportRecord(h) == h

\* prepareBusinessExport and downloadBusinessExport of a mounted adapter whose
\* host has resolved the principal.
HandlerRequest(r, h, op, token) ==
  h \in mounted /\ Starts(r, h, op, authorizeExportRecord(h), token)

\* PrepareExport and DownloadExport read the authorizer before the key.
ExporterRequest(r, op, token) ==
  phase = "open" /\ Starts(r, SDK, op, authorizer, token)

LongEnough(k) == k.size # NoHost /\ KeySize[k.size] >= 16

\* The length of the key; export_unavailable is the other answer.
CheckKey(r) ==
  /\ rpc[r] = "check"
  /\ RequestGoes(r, IF ~LongEnough(key) THEN "unavailable"
                    ELSE IF req[r].op = "prepare" THEN "authorize" ELSE "verify")
  /\ UNCHANGED <<req, by, tokenVars>>

\* Without an authorizer there is no check.  The authorizer refuses a principal
\* that did not come through the application service; its host may refuse too.
Authorize(r) ==
  /\ rpc[r] = "authorize"
  /\ req[r].ask # NoHost => req[r].via # SDK
  /\ by' = [by EXCEPT ![r] = req[r].ask]
  /\ RequestGoes(r, IF req[r].op = "prepare" THEN "sign" ELSE "served")
  /\ UNCHANGED <<req, tokenVars>>

\* Two words that make the same key are the same key.
Value(k) == IF k.bytes # NoHost /\ k.size # NoHost /\ KeySize[k.bytes] = KeySize[k.size]
            THEN [bytes |-> k.bytes, size |-> k.bytes] ELSE k

\* A length without bytes panics in the request.
Readable(k) == k.size # NoHost => k.bytes # NoHost

\* The token of the new artifact.
SignNew(r) ==
  /\ rpc[r] = "sign" /\ Readable(key)
  /\ req' = [req EXCEPT ![r].token = Value(key)]
  /\ RequestGoes(r, "store")
  /\ UNCHANGED <<by, tokenVars>>

\* A new artifact takes the place of the one looked at so far; a replay finds
\* the one that an earlier request stored, in this process or an earlier one.
CreateOrGetExport(r) ==
  /\ rpc[r] = "store"
  /\ \/ stored' = req[r].token /\ issued' = NoCall /\ UNCHANGED req
     \/ stored # NoCall /\ req' = [req EXCEPT ![r].token = stored] /\ UNCHANGED tokenVars
  /\ RequestGoes(r, "resign") /\ UNCHANGED by

\* The token of the stored artifact, made again, must have the stored hash.
SignStored(r) ==
  /\ rpc[r] = "resign" /\ Readable(key) /\ Value(key) = req[r].token
  /\ issued' = req[r].token
  /\ RequestGoes(r, "served")
  /\ UNCHANGED <<req, by, stored>>

\* The HMAC of a token that is presented.
VerifyToken(r) ==
  /\ rpc[r] = "verify" /\ Readable(key) /\ Value(key) = req[r].token
  /\ RequestGoes(r, "authorize")
  /\ UNCHANGED <<req, by, tokenVars>>

\* The answer is given: served, unavailable, or any refusal or failure.
RequestReturns(r) ==
  /\ rpc[r] # "idle"
  /\ req' = [req EXCEPT ![r] = NoCall] /\ by' = [by EXCEPT ![r] = NoHost]
  /\ RequestGoes(r, "idle")
  /\ UNCHANGED tokenVars

-----------------------------------------------------------------------------
AssemblyNext == \/ \E d \in Drivers : OpenModule(d)
                \/ ApplyOwnedMigration \/ OpenFails \/ open \/ Crash

BinderNext(b) ==
  \/ \E h \in Hosts : BindApplicationHost(b, h)
  \/ \E h \in DirectHosts : ConfigureExportDirectly(b, h)
  \/ NewAuditQueryApplicationService(b)
  \/ \E word \in KeyWords : WriteKeyWord(b, word)
  \/ WriteAuthorizer(b) \/ PublishAdapters(b)

RequestNext(r) ==
  \/ \E op \in Operations : \E t \in Tokens(op) :
       (\E h \in Hosts : HandlerRequest(r, h, op, t)) \/ ExporterRequest(r, op, t)
  \/ CheckKey(r) \/ Authorize(r) \/ SignNew(r) \/ CreateOrGetExport(r) \/ SignStored(r)
  \/ VerifyToken(r) \/ RequestReturns(r)

Next == \/ AssemblyNext \/ HTTPAdapters
        \/ \E b \in Binders : BinderNext(b)
        \/ \E r \in Requesters : RequestNext(r)

Spec == Init /\ [][Next]_vars

-----------------------------------------------------------------------------
(* Properties *)

Words == [bytes : Hosts \cup {NoHost}, size : Hosts \cup {NoHost}]

\* Every variable holds values of its kind; at most one adapter is published
\* (BindApplicationHost replaces the list).
TypeOK ==
  /\ schema \in 0..Len(Migrations)
  /\ phase \in {"down", "migrating", "open"}
  /\ key \in Words /\ {issued, stored} \subseteq Words \cup {NoCall}
  /\ authorizer \in Hosts \cup {NoHost}
  /\ adapters \in {{}} \cup {{h} : h \in Hosts} /\ mounted \subseteq Hosts
  /\ bpc \in [Binders -> {"idle", "construct", "key", "authorizer", "publish"} \cup KeyWords]
  /\ bcall \in [Binders -> [host : Hosts, direct : BOOLEAN] \cup {NoCall}]
  /\ rpc \in [Requesters -> {"idle", "check", "unavailable", "verify", "authorize",
                             "sign", "store", "resign", "served"}]
  /\ req \in [Requesters ->
       [via : Hosts \cup {SDK}, op : Operations, ask : Hosts \cup {NoHost},
        early : BOOLEAN, token : Words] \cup {NoCall}]
  /\ by \in [Requesters -> Hosts \cup {NoHost}]
  /\ {bound, overlapped, direct} \subseteq BOOLEAN

Served(r) == rpc[r] = "served"

\* An export served through an adapter was authorized by the host that the
\* adapter was made for, whatever host was bound before, after or meanwhile
\* (PrepareBusinessExport passes its own service's authorizeExportRecord).
OwnHostAuthorizes ==
  \A r \in Requesters : Served(r) /\ req[r].via # SDK => by[r] = req[r].via

\* Once BindApplicationHost has returned, no request that begins at the
\* Exporter port is served past a host's authorization: "Product HTTP requests
\* must use the scoped application services" (README.md of the repository).
\* Only a request that read the nil authorizer before the first binding
\* completed may slip through.
ExporterClosedOnceBound ==
  \A r \in Requesters :
    Served(r) /\ req[r].via = SDK /\ ~direct => req[r].early

\* No token is given out or honoured under a key shorter than 16 bytes, although the
\* length is checked once and the key is read again for each signature, while
\* other goroutines bind hosts whose keys may be too short.
WeakKeyNeverSigns ==
  \A r \in Requesters :
    Served(r) /\ ~direct => req[r].token.size # NoHost /\ KeySize[req[r].token.size] >= 16

\* A request that comes through an adapter finds the whole schema and a token
\* key: it is never answered export_unavailable, whatever crashes, failed
\* migrations and bindings came before.
AdapterReady ==
  \A r \in Requesters : rpc[r] # "idle" /\ req[r].via # SDK =>
    schema = Len(Migrations) /\ (rpc[r] = "unavailable" => direct)

\* When no configuration is running and none ever overlapped another, the key,
\* the authorizer and the published adapter are those of one host.
BoundTogether ==
  (\A b \in Binders : bpc[b] = "idle") /\ ~overlapped /\ ~direct =>
    \A h \in adapters : key = [bytes |-> h, size |-> h] /\ authorizer = h

\* From the first binding that completes on, and whatever bindings overlap, are
\* half done or are refused then, the service has a key that is long enough and
\* can be read, an authorizer and a published adapter: a binding writes over what
\* it finds (ConfigureExport) and takes nothing away.
StaysUsable ==
  bound /\ ~direct =>
    key.bytes # NoHost /\ LongEnough(key) /\ authorizer # NoHost /\ adapters # {}
=============================================================================
