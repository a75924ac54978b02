------------------------- MODULE HostBindingProofs -------------------------
(* Theorems about HostBinding, for every value of its constants. *)
EXTENDS HostBinding, TLAPS

-----------------------------------------------------------------------------
(* The inductive invariant, by parts. *)

Call == [host : Hosts, direct : BOOLEAN]

Request == [via : Hosts \cup {SDK}, op : Operations, ask : Hosts \cup {NoHost},
            early : BOOLEAN, token : Words]

\* What runs runs in an open module, whose schema is whole; a process that is
\* not open holds nothing.
Opened ==
  /\ phase = "open" => schema = Len(Migrations)
  /\ phase # "open" => /\ key = Nil /\ authorizer = NoHost
                       /\ adapters = {} /\ mounted = {}
                       /\ ~bound /\ ~overlapped /\ ~direct
  /\ \A b \in Binders : bpc[b] # "idle" =>
       /\ bcall[b] \in Call /\ phase = "open"
       /\ bcall[b].direct => direct /\ bpc[b] \notin {"construct", "publish"}
  /\ \A r \in Requesters : rpc[r] # "idle" => req[r] \in Request /\ phase = "open"

Typed == TypeOK /\ Opened

\* Request r has been told that there is a key, or came through an adapter.
NeedsKey(r) == \/ rpc[r] \in {"verify", "authorize", "sign", "store", "resign", "served"}
               \/ rpc[r] # "idle" /\ req[r].via # SDK

\* The length of the key is written before an adapter is published, and stays.
KeySet ==
  /\ \A b \in Binders : bpc[b] \in {"bytes", "authorizer", "publish"} => key.size # NoHost
  /\ adapters \cup mounted # {} => key.size # NoHost
  /\ \A r \in Requesters : NeedsKey(r) => key.size # NoHost

StrongSize(h) == h # NoHost /\ KeySize[h] >= 16

\* The token of request r was made again, or verified, in this process.
Signed(r) == \/ rpc[r] = "served"
             \/ rpc[r] = "authorize" /\ req[r].op = "download"

\* Only a direct configuration brings in a short key.
KeyStrong ==
  ~direct =>
    /\ key.size # NoHost => StrongSize(key.size)
    /\ \A b \in Binders : bpc[b] \notin {"idle", "construct"} => StrongSize(bcall[b].host)
    /\ \A r \in Requesters : Signed(r) => StrongSize(req[r].token.size)
    /\ \A r \in Requesters : rpc[r] = "unavailable" => req[r].via = SDK

\* Whom a request asks, and when there is somebody to ask.
Authority ==
  /\ ~direct /\ (bound \/ \E b \in Binders : bpc[b] = "publish") => authorizer # NoHost
  /\ \A r \in Requesters : rpc[r] # "idle" =>
       /\ req[r].via # SDK => req[r].ask = req[r].via
       /\ req[r].via = SDK /\ ~req[r].early /\ ~direct => req[r].ask # NoHost
       /\ rpc[r] \in {"sign", "store", "resign", "served"} =>
            by[r] = req[r].ask /\ (req[r].ask # NoHost => req[r].via # SDK)

\* The bytes of the key, too, are written before an adapter is published, and stay.
Usable ==
  /\ \A b \in Binders : bpc[b] \in {"size", "authorizer", "publish"} => key.bytes # NoHost
  /\ bound => adapters # {}
  /\ adapters # {} => key.bytes # NoHost

\* How far the only binder has come with the key and the authorizer.
Staged ==
  ~overlapped /\ ~direct =>
    /\ \A b, c \in Binders : bpc[b] # "idle" /\ bpc[c] # "idle" => b = c
    /\ (\A b \in Binders : bpc[b] \in {"idle", "construct", "key"}) =>
         \A h \in adapters : key.bytes = h /\ key.size = h /\ authorizer = h
    /\ \A b \in Binders :
         /\ bpc[b] \in {"size", "authorizer", "publish"} => key.bytes = bcall[b].host
         /\ bpc[b] \in {"bytes", "authorizer", "publish"} => key.size = bcall[b].host
         /\ bpc[b] = "publish" => authorizer = bcall[b].host

-----------------------------------------------------------------------------
(* Types *)

\* There is a number of schema versions.
LEMMA MigrationsCount == Len(Migrations) \in Nat
BY DEF Migrations

\* The word of the key that is written second.
LEMMA OtherWord ==
  /\ (CHOOSE other \in KeyWords : other # "bytes") = "size"
  /\ (CHOOSE other \in KeyWords : other # "size") = "bytes"
BY DEF KeyWords

\* What a process that has just started holds: no key, no call.
LEMMA FreshFields ==
  /\ Fresh.key = Nil
  /\ Fresh.bpc = [b \in Binders |-> "idle"] /\ Fresh.bcall = [b \in Binders |-> NoCall]
  /\ Fresh.rpc = [r \in Requesters |-> "idle"] /\ Fresh.req = [r \in Requesters |-> NoCall]
  /\ Fresh.by = [r \in Requesters |-> NoHost]
BY DEF Fresh

\* All is well typed before the first OpenModule.
LEMMA TypedInit == Init => Typed
<1> SUFFICES ASSUME Init PROVE Typed
  OBVIOUS
<1>1. TypeOK
  <2>1. Nil \in Words
    BY DEF Nil, Words
  <2>2. 0 \in 0..Len(Migrations)
    BY MigrationsCount
  <2>3. key \in Words /\ schema \in 0..Len(Migrations) /\ {stored, issued} \subseteq Words \cup {NoCall}
    BY <2>1, <2>2, FreshFields DEF Init
  <2>4. {bound, overlapped, direct} \subseteq BOOLEAN
    BY DEF Init
  <2>5. bpc = [b \in Binders |-> "idle"] /\ bcall = [b \in Binders |-> NoCall]
    BY FreshFields DEF Init
  <2>6. /\ rpc = [r \in Requesters |-> "idle"] /\ req = [r \in Requesters |-> NoCall]
        /\ by = [r \in Requesters |-> NoHost]
    BY FreshFields DEF Init
  <2> QED BY <2>3, <2>4, <2>5, <2>6 DEF Init, TypeOK
<1>2. Opened
  BY FreshFields DEF Init, Opened
<1> QED BY <1>1, <1>2 DEF Typed

\* A crash, or the end of a failed start, leaves nothing in the process.
LEMMA TypedAssembly == Typed /\ AssemblyNext => Typed'
<1> SUFFICES ASSUME Typed, AssemblyNext PROVE Typed'
  OBVIOUS
<1> USE MigrationsCount DEF Typed, TypeOK, Opened, Assembly, serviceVars, bindVars, requestVars, tokenVars
<1>1. ASSUME NEW d \in Drivers, OpenModule(d) PROVE Typed'
  BY <1>1 DEF OpenModule
<1>2. CASE ApplyOwnedMigration
  BY <1>2 DEF ApplyOwnedMigration
<1>3. CASE OpenFails
  BY <1>3 DEF OpenFails
<1>4. CASE open
  BY <1>4 DEF open, Migrated
<1>5. CASE Crash
  BY <1>5 DEF Crash, Fresh, Nil, Words
<1> QED BY <1>1, <1>2, <1>3, <1>4, <1>5 DEF AssemblyNext

\* A step of a binding or a direct configuration keeps everything typed.
LEMMA TypedBinder ==
  ASSUME Typed, NEW b \in Binders, BinderNext(b)
  PROVE  Typed'
<1> USE DEF Typed, TypeOK, Opened, BinderGoes, serviceVars, bindVars, requestVars, tokenVars
<1>1. ASSUME NEW h \in Hosts, NEW isDirect \in BOOLEAN, NEW at \in {"construct", "key"},
             StartsConfiguring(b, h, isDirect, at), at = "construct" => ~isDirect,
             direct' = (direct \/ isDirect)
      PROVE  Typed'
  <2>1. [host |-> h, direct |-> isDirect] \in Call
    BY DEF Call
  <2> QED BY <1>1, <2>1 DEF StartsConfiguring
<1>2. ASSUME NEW h \in Hosts, BindApplicationHost(b, h) PROVE Typed'
  BY <1>1, <1>2 DEF BindApplicationHost
<1>3. ASSUME NEW h \in DirectHosts, ConfigureExportDirectly(b, h) PROVE Typed'
  BY <1>1, <1>3, BindingAssumption DEF ConfigureExportDirectly
<1>4. CASE NewAuditQueryApplicationService(b)
  BY <1>4 DEF NewAuditQueryApplicationService
<1>5. ASSUME NEW word \in KeyWords, WriteKeyWord(b, word) PROVE Typed'
  <2>1. bcall[b] \in Call /\ phase = "open" /\ bcall[b].host \in Hosts
    BY <1>5 DEF WriteKeyWord, KeyWords, Call
  <2>2. key' \in Words
    BY <1>5, <2>1 DEF WriteKeyWord, Words, KeyWords
  <2>3. /\ UNCHANGED bcall
        /\ \/ bpc' = [bpc EXCEPT ![b] = "authorizer"]
           \/ bpc' = [bpc EXCEPT ![b] = "size"]
           \/ bpc' = [bpc EXCEPT ![b] = "bytes"]
    BY <1>5, OtherWord DEF WriteKeyWord, KeyWords
  <2> QED BY <1>5, <2>1, <2>2, <2>3 DEF WriteKeyWord, KeyWords
<1>6. CASE WriteAuthorizer(b)
  <2>1. bcall[b].host \in Hosts /\ phase = "open"
    BY <1>6 DEF WriteAuthorizer, Call
  <2> QED BY <1>6, <2>1 DEF WriteAuthorizer, AuthorizerOf
<1>7. CASE PublishAdapters(b)
  <2>1. bcall[b].host \in Hosts /\ phase = "open"
    BY <1>7 DEF PublishAdapters, Call
  <2> QED BY <1>7, <2>1 DEF PublishAdapters, Published
<1> QED BY <1>2, <1>3, <1>4, <1>5, <1>6, <1>7 DEF BinderNext

\* A token is as long as the key that it was made with.
LEMMA ValueKeeps ==
  ASSUME NEW k \in Words
  PROVE  /\ Value(k) \in Words
         /\ k.size # NoHost => /\ Value(k).size # NoHost
                               /\ KeySize[Value(k).size] = KeySize[k.size]
BY DEF Value, Words

\* A step of an export request keeps everything typed.
LEMMA TypedRequest ==
  ASSUME Typed, NEW r \in Requesters, RequestNext(r)
  PROVE  Typed'
<1> USE DEF Typed, TypeOK, Opened, RequestGoes, serviceVars, bindVars, tokenVars
<1>1. ASSUME NEW via \in Hosts \cup {SDK}, NEW op \in Operations, NEW ask \in Hosts \cup {NoHost},
             NEW t \in Tokens(op), phase = "open", Starts(r, via, op, ask, t)
      PROVE  Typed'
  <2>1. t \in Words
    BY DEF Tokens, Nil, Words
  <2>2. [via |-> via, op |-> op, ask |-> ask, early |-> ~bound, token |-> t] \in Request
    BY <2>1 DEF Request
  <2> QED BY <1>1, <2>2 DEF Starts, Request
<1>2. ASSUME NEW h \in Hosts, NEW op \in Operations, NEW t \in Tokens(op),
             HandlerRequest(r, h, op, t)
      PROVE  Typed'
  BY <1>1, <1>2 DEF HandlerRequest, authorizeExportRecord
<1>3. ASSUME NEW op \in Operations, NEW t \in Tokens(op), ExporterRequest(r, op, t)
      PROVE  Typed'
  BY <1>1, <1>3 DEF ExporterRequest
<1>4. CASE CheckKey(r)
  BY <1>4 DEF CheckKey
<1>5. CASE Authorize(r)
  <2>1. req[r].ask \in Hosts \cup {NoHost}
    BY <1>5 DEF Authorize, Request
  <2> QED BY <1>5, <2>1 DEF Authorize
<1>6. CASE SignNew(r)
  <2>1. [req[r] EXCEPT !.token = Value(key)] \in Request
    BY <1>6, ValueKeeps DEF SignNew, Request
  <2>2. req' = [req EXCEPT ![r] = [req[r] EXCEPT !.token = Value(key)]]
    BY <1>6 DEF SignNew
  <2> QED BY <1>6, <2>1, <2>2 DEF SignNew, Request
<1>7. CASE SignStored(r)
  <2>1. req[r].token \in Words
    BY <1>7 DEF SignStored, Request
  <2> QED BY <1>7, <2>1 DEF SignStored
<1>8. CASE VerifyToken(r)
  BY <1>8 DEF VerifyToken
<1>9. CASE RequestReturns(r)
  BY <1>9 DEF RequestReturns
<1>10. CASE CreateOrGetExport(r)
  <2>1. /\ req[r] \in Request /\ phase = "open"
        /\ rpc' = [rpc EXCEPT ![r] = "resign"]
    BY <1>10 DEF CreateOrGetExport
  <2>2. CASE stored' = req[r].token /\ issued' = NoCall /\ UNCHANGED req
    <3>1. stored' \in Words
      BY <2>1, <2>2 DEF Request
    <3> QED BY <1>10, <2>1, <2>2, <3>1 DEF CreateOrGetExport
  <2>3. CASE stored # NoCall /\ req' = [req EXCEPT ![r].token = stored] /\ UNCHANGED tokenVars
    <3>1. /\ [req[r] EXCEPT !.token = stored] \in Request
          /\ req' = [req EXCEPT ![r] = [req[r] EXCEPT !.token = stored]]
      BY <2>1, <2>3 DEF Request
    <3> QED BY <1>10, <2>1, <2>3, <3>1 DEF CreateOrGetExport, Request
  <2> QED BY <1>10, <2>2, <2>3 DEF CreateOrGetExport
<1> QED BY <1>2, <1>3, <1>4, <1>5, <1>6, <1>7, <1>8, <1>9, <1>10 DEF RequestNext

\* Every step keeps everything typed.
LEMMA TypedStep == Typed /\ [Next]_vars => Typed'
<1> SUFFICES ASSUME Typed, [Next]_vars PROVE Typed'
  OBVIOUS
<1>1. CASE UNCHANGED vars
  BY <1>1 DEF vars, serviceVars, bindVars, requestVars, tokenVars, Typed, TypeOK, Opened
<1>2. CASE HTTPAdapters
  BY <1>2 DEF HTTPAdapters, serviceVars, bindVars, requestVars, tokenVars, Typed, TypeOK, Opened
<1> QED BY <1>1, <1>2, TypedAssembly, TypedBinder, TypedRequest DEF Next

\* Every state of every assembly, binding and request is well typed.
THEOREM TypeCorrect == Spec => []TypeOK
<1>1. Typed => TypeOK
  BY DEF Typed
<1> QED BY <1>1, TypedInit, TypedStep, PTL DEF Spec

-----------------------------------------------------------------------------
(* Assembly *)

Inv == Typed /\ KeySet /\ KeyStrong /\ Authority /\ Staged

\* In a process that is not open nothing runs, and nothing is set.
LEMMA NothingRuns ==
  ASSUME Typed', phase' # "open"
  PROVE  Inv'
<1> USE DEF Typed, Opened
<1>1. /\ key' = Nil /\ authorizer' = NoHost /\ adapters' = {} /\ mounted' = {}
      /\ ~bound' /\ ~overlapped' /\ ~direct'
      /\ \A b \in Binders : bpc'[b] = "idle"
      /\ \A r \in Requesters : rpc'[r] = "idle"
  OBVIOUS
<1>2. KeySet' /\ KeyStrong' /\ Authority'
  BY <1>1 DEF KeySet, NeedsKey, KeyStrong, Signed, StrongSize, Authority, Nil
<1>3. Staged'
  BY <1>1 DEF Staged
<1> QED BY <1>2, <1>3 DEF Inv

\* The parts that read nothing of the assembly.
LEMMA InvSame ==
  ASSUME Inv, Typed', UNCHANGED <<serviceVars, bindVars, requestVars, mounted>>
  PROVE  Inv'
<1> USE DEF serviceVars, bindVars, requestVars
<1>1. KeySet' /\ KeyStrong'
  BY DEF Inv, KeySet, NeedsKey, KeyStrong, Signed, StrongSize
<1>2. Authority' /\ Staged'
  BY DEF Inv, Authority, Staged
<1> QED BY <1>1, <1>2 DEF Inv

\* Opening, migrating, crashing and mounting keep the invariant.
LEMMA InvAssembly ==
  ASSUME Inv, AssemblyNext
  PROVE  Inv'
<1>1. Typed'
  BY TypedAssembly DEF Inv
<1>2. CASE Crash
  BY <1>1, <1>2, NothingRuns DEF Crash
<1>3. CASE ~Crash
  BY <1>1, <1>3, InvSame DEF AssemblyNext, OpenModule, ApplyOwnedMigration, OpenFails, open,
                             Assembly
<1> QED BY <1>2, <1>3

-----------------------------------------------------------------------------
(* Requests *)

\* A request changes neither the service nor the binders.
LEMMA StagedByRequest ==
  ASSUME Inv, UNCHANGED <<serviceVars, bindVars>>
  PROVE  Staged'
BY DEF Inv, Staged, serviceVars, bindVars

\* A step of request r keeps the invariant if r stays right.
LEMMA RequestFrame ==
  ASSUME Inv, NEW r \in Requesters, UNCHANGED <<serviceVars, mounted, bindVars>>,
         \A q \in Requesters \ {r} : rpc'[q] = rpc[q] /\ req'[q] = req[q] /\ by'[q] = by[q],
         Typed',
         NeedsKey(r)' => key.size # NoHost,
         ~direct => /\ Signed(r)' => StrongSize(req'[r].token.size)
                    /\ rpc'[r] = "unavailable" => req'[r].via = SDK,
         rpc'[r] # "idle" =>
           /\ req'[r].via # SDK => req'[r].ask = req'[r].via
           /\ req'[r].via = SDK /\ ~req'[r].early /\ ~direct => req'[r].ask # NoHost
           /\ rpc'[r] \in {"sign", "store", "resign", "served"} =>
                by'[r] = req'[r].ask /\ (req'[r].ask # NoHost => req'[r].via # SDK)
  PROVE  Inv'
<1> USE DEF serviceVars, bindVars
<1>1. KeySet'
  BY DEF Inv, KeySet, NeedsKey
<1>2. KeyStrong'
  BY DEF Inv, KeyStrong, Signed, StrongSize
<1>3. Authority'
  BY DEF Inv, Authority
<1> QED BY <1>1, <1>2, <1>3, StagedByRequest DEF Inv

\* While nobody configured past the Binding, a key that is there is long.
LEMMA KeyIsLong ==
  ASSUME Inv, key.size # NoHost, ~direct
  PROVE  StrongSize(key.size) /\ LongEnough(key)
BY DEF Inv, KeyStrong, StrongSize, LongEnough

\* A token that equals the key of now is as long as the key of now.
LEMMA MatchesKey ==
  ASSUME Inv, key.size # NoHost
  PROVE  /\ Value(key) \in Words
         /\ ~direct => StrongSize(Value(key).size)
<1>1. key \in Words
  BY DEF Inv, Typed, TypeOK
<1>2. /\ Value(key) \in Words /\ Value(key).size # NoHost
      /\ KeySize[Value(key).size] = KeySize[key.size]
  BY <1>1, ValueKeeps
<1> QED BY <1>2, KeyIsLong DEF StrongSize

\* Every step of an export request keeps the invariant.
LEMMA InvRequest ==
  ASSUME Inv, NEW r \in Requesters, RequestNext(r)
  PROVE  Inv'
<1>1. Typed' /\ Typed
  BY TypedRequest DEF Inv
<1> USE DEF RequestGoes
<1>2. ASSUME NEW via \in Hosts \cup {SDK}, NEW op, NEW ask, NEW t, Starts(r, via, op, ask, t),
             via # SDK => via \in mounted /\ ask = via,
             via = SDK => ask = authorizer
      PROVE  Inv'
  <2>1. /\ \A q \in Requesters \ {r} : rpc'[q] = rpc[q] /\ req'[q] = req[q] /\ by'[q] = by[q]
        /\ rpc'[r] = "check" /\ req'[r].via = via /\ req'[r].ask = ask /\ req'[r].early = ~bound
    BY <1>1, <1>2 DEF Starts, Typed, TypeOK
  <2>2. UNCHANGED <<serviceVars, mounted, bindVars>>
    BY <1>2 DEF Starts
  <2>3. via # SDK => key.size # NoHost
    BY <1>2 DEF Inv, KeySet
  <2>4. via = SDK /\ bound /\ ~direct => ask # NoHost
    BY <1>2 DEF Inv, Authority
  <2> QED BY <1>1, <1>2, <2>1, <2>2, <2>3, <2>4, RequestFrame DEF NeedsKey, Signed
<1>3. ASSUME NEW h \in Hosts, NEW op \in Operations, NEW t \in Tokens(op),
             HandlerRequest(r, h, op, t)
      PROVE  Inv'
  BY <1>2, <1>3, BindingAssumption DEF HandlerRequest, authorizeExportRecord
<1>4. ASSUME NEW op \in Operations, NEW t \in Tokens(op), ExporterRequest(r, op, t)
      PROVE  Inv'
  BY <1>2, <1>4 DEF ExporterRequest
<1>5. CASE CheckKey(r)
  <2>1. /\ \A q \in Requesters \ {r} : rpc'[q] = rpc[q] /\ req'[q] = req[q] /\ by'[q] = by[q]
        /\ rpc[r] = "check" /\ req'[r] = req[r] /\ by'[r] = by[r]
        /\ \/ rpc'[r] = "unavailable" /\ ~LongEnough(key)
           \/ rpc'[r] = "authorize" /\ LongEnough(key) /\ req[r].op = "prepare"
           \/ rpc'[r] = "verify" /\ LongEnough(key)
    BY <1>1, <1>5 DEF CheckKey, Typed, TypeOK
  <2>2. LongEnough(key) => key.size # NoHost
    BY DEF LongEnough
  <2>3. req[r].via # SDK => key.size # NoHost
    BY <2>1 DEF Inv, KeySet, NeedsKey
  <2>4. UNCHANGED <<serviceVars, mounted, bindVars>>
    BY <1>5 DEF CheckKey
  <2>5. ~Signed(r)'
    BY <2>1 DEF Signed
  <2>6. ~direct /\ rpc'[r] = "unavailable" => req'[r].via = SDK
    BY <2>1, <2>3, KeyIsLong
  <2>7. NeedsKey(r)' => key.size # NoHost
    BY <2>1, <2>2, <2>3 DEF NeedsKey
  <2>8. /\ req'[r].via # SDK => req'[r].ask = req'[r].via
        /\ req'[r].via = SDK /\ ~req'[r].early /\ ~direct => req'[r].ask # NoHost
        /\ rpc'[r] \notin {"sign", "store", "resign", "served"}
    BY <2>1 DEF Inv, Authority
  <2> QED BY <1>1, <2>1, <2>4, <2>5, <2>6, <2>7, <2>8, RequestFrame
<1>6. CASE Authorize(r)
  <2>1. /\ \A q \in Requesters \ {r} : rpc'[q] = rpc[q] /\ req'[q] = req[q] /\ by'[q] = by[q]
        /\ rpc[r] = "authorize" /\ req'[r] = req[r] /\ by'[r] = req[r].ask
        /\ req[r].ask # NoHost => req[r].via # SDK
        /\ \/ rpc'[r] = "sign" /\ req[r].op = "prepare"
           \/ rpc'[r] = "served" /\ req[r].op # "prepare"
    BY <1>1, <1>6 DEF Authorize, Typed, TypeOK
  <2>2. req[r].op \in Operations
    BY <1>1, <2>1 DEF Typed, Opened, Request
  <2>3. Signed(r)' => Signed(r)
    BY <2>1, <2>2 DEF Signed, Operations
  <2>4. UNCHANGED <<serviceVars, mounted, bindVars>>
    BY <1>6 DEF Authorize
  <2>5. key.size # NoHost
    BY <2>1 DEF Inv, KeySet, NeedsKey
  <2>6. ~direct => (Signed(r)' => StrongSize(req'[r].token.size))
    BY <2>1, <2>3 DEF Inv, KeyStrong
  <2>7. /\ req'[r].via # SDK => req'[r].ask = req'[r].via
        /\ req'[r].via = SDK /\ ~req'[r].early /\ ~direct => req'[r].ask # NoHost
    BY <2>1 DEF Inv, Authority
  <2> QED BY <1>1, <2>1, <2>4, <2>5, <2>6, <2>7, RequestFrame
<1>7. CASE SignNew(r) \/ CreateOrGetExport(r)
  <2>1. /\ \A q \in Requesters \ {r} : rpc'[q] = rpc[q] /\ req'[q] = req[q] /\ by'[q] = by[q]
        /\ by'[r] = by[r] /\ \E t : req'[r] = [req[r] EXCEPT !.token = t]
        /\ \/ rpc[r] = "sign" /\ rpc'[r] = "store"
           \/ rpc[r] = "store" /\ rpc'[r] = "resign"
    <3>1. CASE SignNew(r)
      BY <1>1, <3>1 DEF SignNew, Typed, TypeOK
    <3>2. CASE CreateOrGetExport(r)
      <4>1. req[r] \in Request /\ req \in [Requesters -> Request \cup {NoCall}]
        BY <1>1, <3>2 DEF CreateOrGetExport, Typed, TypeOK, Opened, Request
      <4>2. req' = req => req'[r] = [req[r] EXCEPT !.token = req[r].token]
        BY <4>1 DEF Request
      <4> QED BY <1>1, <3>2, <4>1, <4>2 DEF CreateOrGetExport, Typed, TypeOK
    <3> QED BY <1>7, <3>1, <3>2
  <2>2. req[r] \in Request
    BY <1>1, <2>1 DEF Typed, Opened
  <2>3. req'[r].via = req[r].via /\ req'[r].ask = req[r].ask /\ req'[r].early = req[r].early
    BY <2>1, <2>2 DEF Request
  <2>4. UNCHANGED <<serviceVars, mounted, bindVars>>
    BY <1>7 DEF SignNew, CreateOrGetExport
  <2>5. key.size # NoHost
    BY <2>1 DEF Inv, KeySet, NeedsKey
  <2>6. ~Signed(r)' /\ rpc'[r] # "unavailable"
    BY <2>1 DEF Signed
  <2>7. /\ req'[r].via # SDK => req'[r].ask = req'[r].via
        /\ req'[r].via = SDK /\ ~req'[r].early /\ ~direct => req'[r].ask # NoHost
        /\ by'[r] = req'[r].ask /\ (req'[r].ask # NoHost => req'[r].via # SDK)
    BY <2>1, <2>3 DEF Inv, Authority
  <2> QED BY <1>1, <2>1, <2>4, <2>5, <2>6, <2>7, RequestFrame
<1>8. CASE SignStored(r) \/ VerifyToken(r)
  <2>1. /\ \A q \in Requesters \ {r} : rpc'[q] = rpc[q] /\ req'[q] = req[q] /\ by'[q] = by[q]
        /\ req'[r] = req[r] /\ by'[r] = by[r] /\ Value(key) = req[r].token
        /\ \/ rpc[r] = "resign" /\ rpc'[r] = "served"
           \/ rpc[r] = "verify" /\ rpc'[r] = "authorize"
    BY <1>1, <1>8 DEF SignStored, VerifyToken, Typed, TypeOK
  <2>2. UNCHANGED <<serviceVars, mounted, bindVars>>
    BY <1>8 DEF SignStored, VerifyToken
  <2>3. key.size # NoHost
    BY <2>1 DEF Inv, KeySet, NeedsKey
  <2>4. ~direct => StrongSize(req'[r].token.size)
    BY <2>1, <2>3, MatchesKey
  <2>5. /\ req'[r].via # SDK => req'[r].ask = req'[r].via
        /\ req'[r].via = SDK /\ ~req'[r].early /\ ~direct => req'[r].ask # NoHost
        /\ rpc'[r] \in {"sign", "store", "resign", "served"} =>
             by'[r] = req'[r].ask /\ (req'[r].ask # NoHost => req'[r].via # SDK)
    BY <2>1 DEF Inv, Authority
  <2> QED BY <1>1, <2>1, <2>2, <2>3, <2>4, <2>5, RequestFrame
<1>9. CASE RequestReturns(r)
  <2>1. /\ \A q \in Requesters \ {r} : rpc'[q] = rpc[q] /\ req'[q] = req[q] /\ by'[q] = by[q]
        /\ rpc'[r] = "idle" /\ UNCHANGED <<serviceVars, mounted, bindVars>>
    BY <1>1, <1>9 DEF RequestReturns, Typed, TypeOK
  <2> QED BY <1>1, <2>1, RequestFrame DEF NeedsKey, Signed
<1> QED BY <1>3, <1>4, <1>5, <1>6, <1>7, <1>8, <1>9 DEF RequestNext

-----------------------------------------------------------------------------
(* Binders *)

\* The other binders stand still, and so do the requests.
OthersStand(b) ==
  /\ \A c \in Binders \ {b} : bpc'[c] = bpc[c] /\ bcall'[c] = bcall[c]
  /\ UNCHANGED <<mounted, requestVars>>

\* What requests have been told of the key and the authorizer stays true.
LEMMA BinderFrame ==
  ASSUME Inv, UNCHANGED <<mounted, requestVars>>, direct => direct',
         key.size # NoHost => key'.size # NoHost
  PROVE  /\ mounted' # {} => key'.size # NoHost
         /\ \A r \in Requesters : NeedsKey(r)' => key'.size # NoHost
         /\ ~direct' => /\ \A r \in Requesters : Signed(r)' => StrongSize(req'[r].token.size)
                        /\ \A r \in Requesters : rpc'[r] = "unavailable" => req'[r].via = SDK
         /\ \A r \in Requesters : rpc'[r] # "idle" =>
              /\ req'[r].via # SDK => req'[r].ask = req'[r].via
              /\ req'[r].via = SDK /\ ~req'[r].early /\ ~direct' => req'[r].ask # NoHost
              /\ rpc'[r] \in {"sign", "store", "resign", "served"} =>
                   by'[r] = req'[r].ask /\ (req'[r].ask # NoHost => req'[r].via # SDK)
<1> USE DEF requestVars
<1>1. /\ mounted' # {} => key'.size # NoHost
      /\ \A r \in Requesters : NeedsKey(r)' => key'.size # NoHost
  BY DEF Inv, KeySet, NeedsKey
<1>2. ~direct' => /\ \A r \in Requesters : Signed(r)' => StrongSize(req'[r].token.size)
                  /\ \A r \in Requesters : rpc'[r] = "unavailable" => req'[r].via = SDK
  BY DEF Inv, KeyStrong, Signed
<1>3. \A r \in Requesters : rpc'[r] # "idle" =>
        /\ req'[r].via # SDK => req'[r].ask = req'[r].via
        /\ req'[r].via = SDK /\ ~req'[r].early /\ ~direct' => req'[r].ask # NoHost
        /\ rpc'[r] \in {"sign", "store", "resign", "served"} =>
             by'[r] = req'[r].ask /\ (req'[r].ask # NoHost => req'[r].via # SDK)
  BY DEF Inv, Authority
<1> QED BY <1>1, <1>2, <1>3

\* What is left to show of a step of binder b.
LEMMA BinderStep ==
  ASSUME Inv, Typed', NEW b \in Binders, OthersStand(b), direct => direct',
         key.size # NoHost => key'.size # NoHost,
         bpc'[b] \in {"bytes", "authorizer", "publish"} => key'.size # NoHost,
         adapters' # {} => key'.size # NoHost,
         ~direct' => /\ key'.size # NoHost => StrongSize(key'.size)
                     /\ bpc'[b] \notin {"idle", "construct"} => StrongSize(bcall'[b].host)
                     /\ authorizer # NoHost => authorizer' # NoHost
                     /\ (bound' /\ ~bound) \/ bpc'[b] = "publish" => authorizer' # NoHost,
         Staged'
  PROVE  Inv'
<1>1. KeySet'
  BY BinderFrame DEF OthersStand, Inv, KeySet
<1>2. KeyStrong'
  <2>1. ~direct' => \A c \in Binders : bpc'[c] \notin {"idle", "construct"} => StrongSize(bcall'[c].host)
    BY DEF OthersStand, Inv, KeyStrong
  <2> QED BY <2>1, BinderFrame DEF OthersStand, KeyStrong, StrongSize
<1>3. Authority'
  <2>1. ~direct' /\ (bound' \/ \E c \in Binders : bpc'[c] = "publish") => authorizer' # NoHost
    BY DEF OthersStand, Inv, Authority
  <2> QED BY <2>1, BinderFrame DEF OthersStand, Authority
<1> QED BY <1>1, <1>2, <1>3 DEF Inv

\* A configuration that begins keeps the invariant, be it another's overlap.
LEMMA InvStarts ==
  ASSUME Inv, NEW b \in Binders, NEW h \in Hosts, NEW isDirect \in BOOLEAN,
         NEW at \in {"construct", "key"}, StartsConfiguring(b, h, isDirect, at),
         direct' = (direct \/ isDirect), at = "key" => isDirect, Typed'
  PROVE  Inv'
<1>1. /\ \A c \in Binders \ {b} : bpc'[c] = bpc[c] /\ bcall'[c] = bcall[c]
      /\ bpc[b] = "idle" /\ bpc'[b] = at
      /\ UNCHANGED <<mounted, requestVars, key, authorizer, adapters, bound>>
      /\ overlapped' = (overlapped \/ \E o \in Binders : bpc[o] # "idle")
  BY DEF StartsConfiguring, Inv, Typed, TypeOK, serviceVars
<1>2. Staged'
  <2> SUFFICES ASSUME ~overlapped', ~direct' PROVE Staged'
    BY DEF Staged
  <2>1. ~overlapped /\ ~direct /\ \A c \in Binders : bpc[c] = "idle"
    BY <1>1
  <2>2. \A g \in adapters : key.bytes = g /\ key.size = g /\ authorizer = g
    BY <2>1 DEF Inv, Staged
  <2> QED BY <1>1, <2>1, <2>2 DEF Staged
<1> QED BY <1>1, <1>2, BinderStep DEF OthersStand, Inv, KeySet, KeyStrong

\* Every step of a configuration keeps the invariant: the words of the key are
\* written before the authorizer, and that before the adapter is published.
LEMMA InvBinder ==
  ASSUME Inv, NEW b \in Binders, BinderNext(b)
  PROVE  Inv'
<1> DEFINE host == bcall[b].host
<1>1. Typed /\ Typed'
  BY TypedBinder DEF Inv
<1>2. bpc[b] # "idle" => bcall[b] \in Call /\ host \in Hosts /\ host # NoHost
  BY <1>1, BindingAssumption DEF Typed, Opened, Call
<1>3. ASSUME NEW h \in Hosts, BindApplicationHost(b, h) PROVE Inv'
  <2>1. direct' = (direct \/ FALSE)
    BY <1>1, <1>3 DEF BindApplicationHost, Typed, TypeOK
  <2> QED BY <1>1, <1>3, <2>1, InvStarts DEF BindApplicationHost
<1>4. ASSUME NEW h \in DirectHosts, ConfigureExportDirectly(b, h) PROVE Inv'
  BY <1>1, <1>4, InvStarts, BindingAssumption DEF ConfigureExportDirectly
<1> USE DEF BinderGoes
<1>5. CASE NewAuditQueryApplicationService(b)
  <2>1. /\ OthersStand(b) /\ bpc[b] = "construct"
        /\ \/ bpc'[b] = "key" /\ bcall'[b] = bcall[b] /\ HostComplete(host)
           \/ bpc'[b] = "idle"
        /\ UNCHANGED <<key, authorizer, adapters, bound, direct, overlapped>>
    BY <1>1, <1>5 DEF NewAuditQueryApplicationService, OthersStand, Typed, TypeOK, serviceVars
  <2>2. Staged'
    BY <2>1 DEF OthersStand, Inv, Staged
  <2>3. bpc'[b] # "idle" => StrongSize(host)
    BY <1>2, <2>1 DEF HostComplete, StrongSize
  <2> QED BY <1>1, <2>1, <2>2, <2>3, BinderStep DEF Inv, KeySet, KeyStrong
<1>6. ASSUME NEW word \in KeyWords, WriteKeyWord(b, word) PROVE Inv'
  <2>1. /\ OthersStand(b) /\ bcall'[b] = bcall[b] /\ key' = [key EXCEPT ![word] = host]
        /\ UNCHANGED <<authorizer, adapters, bound, direct, overlapped>>
        /\ \/ word = "bytes" /\ bpc[b] = "key" /\ bpc'[b] = "size"
           \/ word = "size" /\ bpc[b] = "key" /\ bpc'[b] = "bytes"
           \/ word = bpc[b] /\ bpc'[b] = "authorizer"
    BY <1>1, <1>6, OtherWord DEF WriteKeyWord, OthersStand, KeyWords, Typed, TypeOK
  <2>2. /\ word = "bytes" => key'.bytes = host /\ key'.size = key.size
        /\ word = "size" => key'.size = host /\ key'.bytes = key.bytes
        /\ word \in {"bytes", "size"}
    BY <1>1, <2>1 DEF KeyWords, Typed, TypeOK, Words
  <2>3. /\ bpc[b] = "bytes" => key.size # NoHost
        /\ ~direct => StrongSize(host)
    BY <2>1, <2>2 DEF Inv, KeySet, KeyStrong
  <2>4. Staged'
    BY <1>2, <2>1, <2>2 DEF OthersStand, Inv, Staged
  <2>5. \/ key'.size # NoHost
        \/ bpc'[b] = "size" /\ key'.size = key.size
    BY <1>2, <2>1, <2>2, <2>3
  <2> HIDE DEF host
  <2> QED BY <1>1, <2>1, <2>2, <2>3, <2>4, <2>5, BinderStep DEF Inv, KeySet, KeyStrong, host
<1>7. CASE WriteAuthorizer(b)
  <2>1. /\ OthersStand(b) /\ bpc[b] = "authorizer" /\ authorizer' = AuthorizerOf(bcall[b])
        /\ UNCHANGED <<key, adapters, bound, direct, overlapped>>
        /\ \/ bpc'[b] = "publish" /\ bcall'[b] = bcall[b] /\ ~bcall[b].direct
           \/ bpc'[b] = "idle" /\ bcall[b].direct
    BY <1>1, <1>7 DEF WriteAuthorizer, OthersStand, Typed, TypeOK
  <2>2. ~direct => ~bcall[b].direct /\ authorizer' = host
    BY <1>1, <2>1 DEF Typed, Opened, AuthorizerOf
  <2>3. Staged'
    BY <2>1, <2>2 DEF OthersStand, Inv, Staged
  <2> QED BY <1>1, <1>2, <2>1, <2>2, <2>3, BinderStep DEF Inv, KeySet, KeyStrong
<1>8. CASE PublishAdapters(b)
  <2>1. /\ OthersStand(b) /\ bpc[b] = "publish" /\ bpc'[b] = "idle"
        /\ adapters' = {host}
        /\ UNCHANGED <<key, authorizer, direct, overlapped>>
    BY <1>1, <1>8 DEF PublishAdapters, Published, OthersStand, Typed, TypeOK, serviceVars
  <2>2. key.size # NoHost /\ (~direct => authorizer # NoHost)
    BY <2>1 DEF Inv, KeySet, Authority
  <2>3. Staged'
    BY <2>1 DEF OthersStand, Inv, Staged
  <2> QED BY <1>1, <2>1, <2>2, <2>3, BinderStep DEF Inv, KeyStrong
<1> QED BY <1>3, <1>4, <1>5, <1>6, <1>7, <1>8 DEF BinderNext

-----------------------------------------------------------------------------
(* The theorems *)

\* The invariant holds before the first OpenModule.
LEMMA InvInit == Init => Inv
<1> SUFFICES ASSUME Init PROVE Inv
  OBVIOUS
<1>1. /\ key = Nil /\ \A b \in Binders : bpc[b] = "idle"
      /\ \A r \in Requesters : rpc[r] = "idle"
      /\ ~bound /\ adapters = {} /\ mounted = {}
  BY FreshFields DEF Init
<1>2. KeySet /\ KeyStrong /\ Authority
  BY <1>1 DEF KeySet, NeedsKey, KeyStrong, Signed, Nil, Authority
<1>3. Staged
  BY <1>1 DEF Staged
<1> QED BY <1>2, <1>3, TypedInit DEF Inv

\* Every step keeps the inductive invariant.
LEMMA InvStep == Inv /\ [Next]_vars => Inv'
<1> SUFFICES ASSUME Inv, [Next]_vars PROVE Inv'
  OBVIOUS
<1>1. Typed'
  BY TypedStep DEF Inv
<1>2. CASE UNCHANGED vars
  BY <1>1, <1>2, InvSame DEF vars
<1>3. CASE HTTPAdapters
  <2>1. /\ mounted' = mounted \cup adapters
        /\ UNCHANGED <<serviceVars, bindVars, requestVars>>
    BY <1>3 DEF HTTPAdapters
  <2>2. KeySet' /\ KeyStrong'
    BY <2>1 DEF Inv, KeySet, NeedsKey, KeyStrong, Signed, StrongSize,
                serviceVars, bindVars, requestVars
  <2>3. Authority' /\ Staged'
    BY <2>1 DEF Inv, Authority, Staged, serviceVars, bindVars, requestVars
  <2> QED BY <1>1, <2>2, <2>3 DEF Inv
<1> QED BY <1>2, <1>3, InvAssembly, InvBinder, InvRequest DEF Next

\* The inductive invariant holds in every state of every behaviour.
THEOREM InvAlways == Spec => []Inv
BY InvInit, InvStep, PTL DEF Spec

\* Whatever hosts are bound before, after or meanwhile, an export served by an
\* adapter was authorized by the host it was made for (authorizeExportRecord).
THEOREM HostsAuthorizeTheirOwn == Spec => []OwnHostAuthorizes
<1>1. Inv => OwnHostAuthorizes
  BY DEF Inv, Authority, OwnHostAuthorizes, Served
<1> QED BY <1>1, InvAlways, PTL

\* Once a BindApplicationHost has returned, the Exporter port serves no request
\* that begins, unless somebody configures it past the Binding.
THEOREM ExporterCloses == Spec => []ExporterClosedOnceBound
<1>1. Inv => ExporterClosedOnceBound
  BY DEF Inv, Authority, ExporterClosedOnceBound, Served
<1> QED BY <1>1, InvAlways, PTL

\* The key is checked once and read again unsynchronised for each signature;
\* still no token is made or honoured under less than 16 bytes.
THEOREM WeakKeysNeverSign == Spec => []WeakKeyNeverSigns
<1>1. Inv => WeakKeyNeverSigns
  BY DEF Inv, KeyStrong, WeakKeyNeverSigns, Served, Signed, StrongSize
<1> QED BY <1>1, InvAlways, PTL

\* A request through an adapter finds the whole schema and a token key.
THEOREM AdaptersReady == Spec => []AdapterReady
<1>1. Inv => AdapterReady
  BY DEF Inv, Typed, Opened, KeyStrong, AdapterReady
<1> QED BY <1>1, InvAlways, PTL

\* Nothing sets the bytes of the key, or the adapters, back to nil.
LEMMA UsableStep == Typed /\ Usable /\ [Next]_vars => Usable'
<1> SUFFICES ASSUME Typed, Usable, [Next]_vars PROVE Usable'
  OBVIOUS
<1> DEFINE Kept == UNCHANGED <<key, adapters, bpc, bound>>
<1>1. Kept => Usable'
  BY DEF Usable
<1>2. CASE UNCHANGED vars \/ HTTPAdapters
  BY <1>1, <1>2 DEF vars, HTTPAdapters, serviceVars, bindVars
<1>3. CASE AssemblyNext
  <2>1. CASE Crash
    BY <2>1, FreshFields DEF Crash, Usable
  <2>2. CASE ~Crash
    BY <1>1, <1>3, <2>2 DEF AssemblyNext, OpenModule, ApplyOwnedMigration, OpenFails, open,
                            Assembly, serviceVars, bindVars
  <2> QED BY <2>1, <2>2
<1>4. ASSUME NEW r \in Requesters, RequestNext(r) PROVE Usable'
  BY <1>1, <1>4 DEF RequestNext, HandlerRequest, ExporterRequest, Starts, CheckKey, Authorize,
                    SignNew, CreateOrGetExport, SignStored, VerifyToken, RequestReturns,
                    RequestGoes, serviceVars, bindVars
<1>5. ASSUME NEW b \in Binders, BinderNext(b) PROVE Usable'
  <2> USE DEF BinderGoes, serviceVars
  <2>1. /\ \E S : bpc \in [Binders -> S]
        /\ key \in Words
    BY DEF Typed, TypeOK
  <2>2. bpc[b] # "idle" => bcall[b].host # NoHost
    BY BindingAssumption DEF Typed, Opened, Call
  <2>3. ASSUME NEW h \in Hosts, BindApplicationHost(b, h) \/ ConfigureExportDirectly(b, h)
        PROVE  Usable'
    BY <2>1, <2>3 DEF BindApplicationHost, ConfigureExportDirectly, StartsConfiguring, Usable
  <2>4. CASE NewAuditQueryApplicationService(b)
    BY <2>1, <2>4 DEF NewAuditQueryApplicationService, Usable
  <2>5. ASSUME NEW word \in KeyWords, WriteKeyWord(b, word) PROVE Usable'
    <3>1. /\ key' = [key EXCEPT ![word] = bcall[b].host] /\ UNCHANGED <<adapters, bound>>
          /\ bcall[b].host # NoHost
          /\ \/ word = "bytes" /\ bpc' = [bpc EXCEPT ![b] = "size"]
             \/ word = "size" /\ bpc[b] = "key" /\ bpc' = [bpc EXCEPT ![b] = "bytes"]
             \/ word = bpc[b] /\ bpc' = [bpc EXCEPT ![b] = "authorizer"]
      BY <2>1, <2>2, <2>5, OtherWord DEF WriteKeyWord, KeyWords
    <3>2. word = "bytes" \/ word = "size"
      BY DEF KeyWords
    <3>3. word = "bytes" => key'.bytes # NoHost
      BY <2>1, <3>1 DEF Words
    <3>4. word = "size" => key'.bytes = key.bytes
      BY <2>1, <3>1 DEF Words
    <3> QED BY <2>1, <3>1, <3>2, <3>3, <3>4 DEF Usable
  <2>6. CASE WriteAuthorizer(b)
    BY <2>1, <2>6 DEF WriteAuthorizer, Usable
  <2>7. CASE PublishAdapters(b)
    BY <2>1, <2>7 DEF PublishAdapters, Published, Usable
  <2> QED BY <1>5, <2>3, <2>4, <2>5, <2>6, <2>7, BindingAssumption DEF BinderNext
<1> QED BY <1>2, <1>3, <1>4, <1>5 DEF Next

\* From the first completed binding on the service has a key that can be read
\* and is long enough, an authorizer and an adapter, whatever bindings overlap.
THEOREM ServiceStaysUsable == Spec => []StaysUsable
<1>1. Inv /\ Usable => StaysUsable
  <2> SUFFICES ASSUME Inv, Usable, bound, ~direct
               PROVE  key.bytes # NoHost /\ LongEnough(key) /\ authorizer # NoHost /\ adapters # {}
    BY DEF StaysUsable
  <2>1. adapters # {} /\ key.bytes # NoHost
    BY DEF Usable
  <2>2. key.size # NoHost
    BY <2>1 DEF Inv, KeySet
  <2> QED BY <2>1, <2>2, KeyIsLong DEF Inv, Authority
<1>2. Init => Usable
  BY FreshFields DEF Init, Usable
<1>3. Inv => Typed
  BY DEF Inv
<1> QED BY <1>1, <1>2, <1>3, UsableStep, InvAlways, PTL DEF Spec

\* If configurations never overlapped, then between them the key, the
\* authorizer and the published adapter are those of one host.
THEOREM HostsAreBoundTogether == Spec => []BoundTogether
<1>1. Inv => BoundTogether
  <2> SUFFICES ASSUME Inv, \A b \in Binders : bpc[b] = "idle", ~overlapped, ~direct,
                      NEW h \in adapters
               PROVE  key = [bytes |-> h, size |-> h] /\ authorizer = h
    BY DEF BoundTogether
  <2>1. key.bytes = h /\ key.size = h /\ authorizer = h
    BY DEF Inv, Staged
  <2>2. key \in Words
    BY DEF Inv, Typed, TypeOK
  <2> QED BY <2>1, <2>2 DEF Words
<1> QED BY <1>1, InvAlways, PTL
=============================================================================
