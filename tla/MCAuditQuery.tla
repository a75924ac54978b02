---------------------------- MODULE MCAuditQuery ----------------------------
(* Small instances of AuditQuery for TLC. *)
EXTENDS AuditQuery

CONSTANTS u1, u2, o1

Reader1 == [id |-> u1, org |-> o1, orgScope |-> {}, supportScope |-> {}]

Holder(scopes, expires) ==
  [known |-> TRUE, granted |-> TRUE, own |-> TRUE, expires |-> expires,
   subject |-> Reader1, guardrails |-> {},
   policies |-> {[resource |-> "same", action |-> "same", allow |-> TRUE,
                  scopes |-> scopes,
                  predicate |-> canonicalAuditScopePredicate(scopes)]}]

\* The reader sees everything, or its own events until its bundle expires.
MCPrincipals == {Holder(<<"all">>, 9), Holder(<<"owner">>, 2)}
Everything == {Holder(<<"all">>, 9)}

MCRetention == [k \in Kinds |-> IF k = "business" THEN 1 ELSE 2]

MCOrgOf == [a \in {u1, u2} |-> IF a = u1 THEN o1 ELSE Blank]

\* The writer of new events is the reader itself.
MCOneWriter == [a \in {u1} |-> o1]

Stored(id, at, a, k) ==
  [id |-> id, at |-> at, actor |-> a, org |-> MCOrgOf[a], kind |-> k]

\* Business events of one moment, of the reader and of another actor.
TwoEvents == {Stored(2, 0, u1, "business"), Stored(4, 0, u2, "business")}

\* The same with a governance event.
ThreeEvents == TwoEvents \cup {Stored(6, 0, u1, "governance")}

\* No bound or a bound in UTC; a bound with an offset of minus one.
UtcFroms == {NoTime, [instant |-> 0, offset |-> 0]}
OffsetFroms == {[instant |-> 1, offset |-> -1]}
=============================================================================
