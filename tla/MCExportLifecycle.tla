------------------------- MODULE MCExportLifecycle -------------------------
(* Small instances of ExportLifecycle for TLC. *)
EXTENDS ExportLifecycle, TLC

CONSTANTS a1, u1, u2, v1, v2, org, ok, bad, k1, r1, s1, s2, p1, p2, d1, d2

Owner(u) == [all |-> FALSE, subjects |-> {u}, orgs |-> {}]
Everyone == [all |-> TRUE, subjects |-> {}, orgs |-> {}]
OrgOnly  == [all |-> FALSE, subjects |-> {}, orgs |-> {org}]

\* At revision v1 user u1 exports everything, at v2 its own events only; u2
\* exports its own events only.
MCPrepareScope == [u \in Users |-> [v \in Revisions |->
                     IF u = u1 /\ v = v1 THEN Everyone ELSE Owner(u)]]

\* u1 may download its artifacts; u2 has an organization scope, which reaches
\* events but no artifact.
MCDownloadScope == [u \in Users |-> [v \in Revisions |->
                      IF u = u1 THEN Owner(u) ELSE OrgOnly]]

\* Only the authorization of u1 changes.
MCRevisionsOf == [u \in Users |-> IF u = u1 THEN Revisions ELSE {v1}]

MCOrgOf == [a \in Actors |-> org]

MCFirstLedger == <<[actor |-> a1, at |-> 0, result |-> ok, erased |-> NoTime]>>

\* Everything retained; the successes from a fixed time; everything from one.
OpenFilter   == [actor |-> AnyActor, from |-> NoTime, result |-> AnyResult]
ResultFilter == [actor |-> a1, from |-> -1, result |-> ok]
FixedFilter  == [actor |-> AnyActor, from |-> 0, result |-> AnyResult]
BothFilters  == {OpenFilter, ResultFilter}
FixedOnly    == {FixedFilter}
ResultOnly   == {ResultFilter}

ProcessSymmetry == Permutations(Preparers) \cup Permutations(Downloaders)
=============================================================================
