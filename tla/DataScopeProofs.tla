-------------------------- MODULE DataScopeProofs --------------------------
(***************************************************************************)
(* The translation from policies to rows, proved for all principals.       *)
(***************************************************************************)
EXTENDS DataScope, TLAPS

\* The predicate that a list of supported scopes stands for: no restriction
\* when one of them is "all", otherwise the facts that they name.
LEMMA CanonicalMeans ==
  ASSUME NEW scopes \in Seq(ScopeKinds \cup {"other"}),
         \A k \in 1..Len(scopes) : scopes[k] \in ScopeKinds
  PROVE  LET q == canonicalAuditScopePredicate(scopes)
         IN  \/ /\ q.shape = "none"
                /\ \E k \in 1..Len(scopes) : scopes[k] = "all"
             \/ /\ q.shape \in {"one", "any"}
                /\ q.facts = scopes
                /\ \A k \in 1..Len(scopes) : scopes[k] # "all"
<1>1. CASE \A k \in 1..Len(scopes) : scopes[k] \in ScopeKinds \ {"all"}
  BY <1>1 DEF canonicalAuditScopePredicate
<1>2. CASE \E k \in 1..Len(scopes) : scopes[k] \notin ScopeKinds \ {"all"}
  <2>1. PICK k \in 1..Len(scopes) : scopes[k] = "all"
    BY <1>2
  <2>2. \A l \in 1..k : scopes[l] \in ScopeKinds
    BY <2>1
  <2>3. canonicalAuditScopePredicate(scopes) = [shape |-> "none", facts |-> <<>>]
    BY <1>2, <2>1, <2>2 DEF canonicalAuditScopePredicate
  <2> QED BY <2>1, <2>3
<1> QED BY <1>1, <1>2

\* A policy whose predicate is the canonical one of its supported scopes
\* covers a row exactly when one of the scopes does.
LEMMA PolicyMeans ==
  ASSUME NEW d, d.scopes \in Seq(ScopeKinds \cup {"other"}),
         \A k \in 1..Len(d.scopes) : d.scopes[k] \in ScopeKinds,
         d.predicate = canonicalAuditScopePredicate(d.scopes),
         NEW subject, NEW e
  PROVE  PredicateHolds(d.predicate, subject, e) <=>
           \E k \in 1..Len(d.scopes) :
             d.scopes[k] = "all" \/ FactHolds(d.scopes[k], subject, e)
<1> DEFINE q == d.predicate
<1>1. CASE q.shape = "none" /\ \E k \in 1..Len(d.scopes) : d.scopes[k] = "all"
  BY <1>1 DEF PredicateHolds
<1>2. CASE /\ q.shape \in {"one", "any"} /\ q.facts = d.scopes
           /\ \A k \in 1..Len(d.scopes) : d.scopes[k] # "all"
  BY <1>2 DEF PredicateHolds
<1> QED BY <1>1, <1>2, CanonicalMeans

\* The union of the scopes of the policies, applied to one row.
Covered(p, e) == \E x \in ScopesOf(p) : x = "all" \/ FactHolds(x, p.subject, e)

\* The rows that one of the policies allows are those that the union covers.
LEMMA UnionMeans ==
  ASSUME NEW p \in Principals, NEW e, Translatable(p)
  PROVE  Allows(p, e) <=> Covered(p, e)
<1>1. \A d \in PoliciesOf(p) :
        /\ d.allow
        /\ d.scopes \in Seq(ScopeKinds \cup {"other"})
        /\ \A k \in 1..Len(d.scopes) : d.scopes[k] \in ScopeKinds
        /\ d.predicate = canonicalAuditScopePredicate(d.scopes)
  BY PrincipalAssumption DEF Translatable, PoliciesOf, ScopesOf
<1>2. \A d \in PoliciesOf(p) :
        PredicateHolds(d.predicate, p.subject, e) <=>
          \E k \in 1..Len(d.scopes) :
            d.scopes[k] = "all" \/ FactHolds(d.scopes[k], p.subject, e)
  BY <1>1, PolicyMeans
<1>3. Covered(p, e) <=>
        \E d \in PoliciesOf(p) : \E k \in 1..Len(d.scopes) :
          d.scopes[k] = "all" \/ FactHolds(d.scopes[k], p.subject, e)
  BY DEF Covered, ScopesOf
<1> QED BY <1>1, <1>2, <1>3 DEF Allows

\* Normalizing a restricted scope leaves out the blanks and nothing else.
LEMMA NormalizedMeans ==
  ASSUME NEW A, NEW B
  PROVE  Normalized([all |-> FALSE, subjects |-> A, orgs |-> B])
           = [all |-> FALSE, subjects |-> A \ {Blank}, orgs |-> B \ {Blank}]
BY DEF Normalized

\* What is resolved is the union of the policies with the blanks left out, and
\* the SQL predicate selects exactly the rows that the union covers.
LEMMA ResolvedMeans ==
  ASSUME NEW p \in Principals, NEW t, NEW e,
         HasBundle(p, t), Translatable(p), ~\E g \in p.guardrails : Restricts(g)
  PROVE  /\ resolveAuditDataScope(p, t) \in Scope
         /\ auditEventDataScopePredicate(resolveAuditDataScope(p, t), e) <=> Covered(p, e)
<1> DEFINE s == resolveAuditDataScope(p, t)
           asked == ScopesOf(p)
           someSubjects == IF "owner" \in asked THEN {p.subject.id} ELSE {}
           someOrgs == (IF "org" \in asked THEN {p.subject.org} ELSE {})
                         \cup (IF "org_child" \in asked THEN p.subject.orgScope ELSE {})
                         \cup (IF "target_org" \in asked THEN p.subject.supportScope ELSE {})
           subjects == someSubjects \ {Blank}
           orgs == someOrgs \ {Blank}
<1>1. CASE "all" \in asked
  <2>1. s = [all |-> TRUE, subjects |-> {}, orgs |-> {}]
    BY <1>1 DEF resolveAuditDataScope, Normalized
  <2> QED BY <1>1, <2>1 DEF Scope, auditEventDataScopePredicate, Normalized, Covered
<1>2. CASE "all" \notin asked
  <2>1. s = [all |-> FALSE, subjects |-> subjects, orgs |-> orgs]
    <3>1. s = Normalized([all |-> "all" \in asked, subjects |-> someSubjects,
                          orgs |-> someOrgs])
      BY DEF resolveAuditDataScope
    <3>2. ("all" \in asked) = FALSE
      BY <1>2
    <3>3. s = Normalized([all |-> FALSE, subjects |-> someSubjects, orgs |-> someOrgs])
      BY <3>1, <3>2, Zenon
    <3> HIDE DEF someSubjects, someOrgs
    <3> QED BY <3>3, NormalizedMeans
  <2>2. subjects \in SUBSET Identities /\ orgs \in SUBSET Orgs
    BY PrincipalAssumption
  <2>3. auditEventDataScopePredicate(s, e) <=> e.actor \in subjects \/ e.org \in orgs
    BY <2>1 DEF auditEventDataScopePredicate, Normalized
  <2>4. Covered(p, e) <=> e.actor \in subjects \/ e.org \in orgs
    BY <1>2 DEF Covered, FactHolds
  <2> QED BY <2>1, <2>2, <2>3, <2>4 DEF Scope
<1> QED BY <1>1, <1>2

\* Whoever is not refused holds a valid bundle that Audit can translate.
LEMMA NotDenied ==
  ASSUME NEW p, NEW t, resolveAuditDataScope(p, t) # Denied
  PROVE  HasBundle(p, t) /\ Translatable(p) /\ ~\E g \in p.guardrails : Restricts(g)
BY DEF resolveAuditDataScope

\* The clock and the principal stay in their sets.
Ranges == now \in 0..MaxTime /\ principal \in Principals

\* The host's steps keep the clock and the principal in their sets.
THEOREM RangesKept == ScopeSpec => []Ranges
<1>1. ScopeInit => Ranges
  BY ScopeAssumption DEF ScopeInit, Ranges
<1>2. Ranges /\ [ScopeNext]_scopeVars => Ranges'
  BY ScopeAssumption DEF Ranges, ScopeNext, Tick, ChangeAuthorization, scopeVars
<1> QED BY <1>1, <1>2, PTL DEF ScopeSpec

\* What is resolved is a data scope without blanks, or a refusal.
LEMMA TypesFollow == Ranges => ScopeTypeOK
<1> SUFFICES ASSUME Ranges, resolveAuditDataScope(principal, now) # Denied
             PROVE  resolveAuditDataScope(principal, now) \in Scope
  BY DEF ScopeTypeOK, Ranges
<1>1. PICK e : e = [actor |-> Blank, org |-> Blank]
  OBVIOUS
<1> QED BY <1>1, NotDenied, ResolvedMeans DEF Ranges, OwnedRow

\* A row that a query may return is granted by the policies, whoever asks and
\* whenever.
LEMMA GrantFollows ==
  ASSUME NEW p \in Principals, NEW t, NEW e, MaySee(p, t, e)
  PROVE  HasBundle(p, t) /\ Allows(p, e) /\ ~Forbids(p, e)
<1>1. /\ HasBundle(p, t) /\ Translatable(p)
      /\ ~\E g \in p.guardrails : Restricts(g)
  BY NotDenied DEF MaySee
<1>2. Allows(p, e)
  BY <1>1, ResolvedMeans, UnionMeans DEF MaySee
<1>3. ~Forbids(p, e)
  BY <1>1 DEF Forbids, Translatable
<1> QED BY <1>1, <1>2, <1>3

\* So it is for the principal and the clock of any moment.
LEMMA WideningFollows == Ranges => NeverWidens
BY GrantFollows DEF Ranges, NeverWidens

\* A row that an authored policy allows is returned.
LEMMA NarrowingFollows == Ranges => NeverNarrows
<1> SUFFICES ASSUME Ranges, NEW e \in OwnedRow,
                    HasBundle(principal, now), Authored(principal), Allows(principal, e)
             PROVE  MaySee(principal, now, e)
  BY DEF NeverNarrows
<1>1. Translatable(principal)
  BY DEF Authored, Allows, Translatable, ScopesOf
<1>2. ~\E g \in principal.guardrails : Restricts(g)
  BY DEF Authored
<1> QED BY <1>1, <1>2, ResolvedMeans, UnionMeans, ScopeAssumption DEF MaySee, Ranges

\* The resolved scope has its type at all times, for every set of principals.
THEOREM ScopeTyped == ScopeSpec => []ScopeTypeOK
BY RangesKept, TypesFollow, PTL

\* Neither the translation of the policies nor the SQL predicate ever shows a
\* principal a row that it was not granted.
THEOREM ScopeNeverWidens == ScopeSpec => []NeverWidens
BY RangesKept, WideningFollows, PTL

\* Policies in the authoring vocabulary show every row that they allow.
THEOREM ScopeNeverNarrows == ScopeSpec => []NeverNarrows
BY RangesKept, NarrowingFollows, PTL
=============================================================================
