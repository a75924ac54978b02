----------------------------- MODULE DataScope -----------------------------
(***************************************************************************)
(* From the policies of a principal to the rows a query may return:        *)
(* resolveAuditDataScope (application), DataScope.Normalized (repository)  *)
(* and the predicate the event store adds to its SQL.                      *)
(*                                                                         *)
(* Identifiers are trimmed; Blank is the empty one.  The permission asked  *)
(* for is fixed, and a policy or guardrail says how it relates to it.      *)
(***************************************************************************)
EXTENDS Naturals, Sequences

CONSTANTS
  Identities,   \* ids of subjects
  Orgs,         \* ids of organizations
  Blank,        \* the empty id
  Denied,       \* view_permission_required
  Principals,   \* what the host may resolve a request's principal to
  MaxTime       \* bound of the model

VARIABLES
  now,          \* the clock
  principal     \* the reader, as the host resolves it for the next request

scopeVars == <<now, principal>>

\* The closed vocabulary of data scopes; every other one is unsupported.
ScopeKinds == {"all", "owner", "org", "org_child", "target_org"}

\* An identity SDK predicate: unrestricted, one fact, any of several facts,
\* or something else.  A fact is named by the scope that stands for it.
Predicate == [shape : {"none", "one", "any", "other"}, facts : Seq(ScopeKinds)]

\* The columns of an event that a data scope looks at.
OwnedRow == [actor : Identities \cup {Blank}, org : Orgs \cup {Blank}]

Scope == [all : BOOLEAN, subjects : SUBSET Identities, orgs : SUBSET Orgs]

ASSUME ScopeAssumption ==
  /\ Blank \notin Identities /\ Blank \notin Orgs
  /\ Denied \notin Scope
  /\ MaxTime \in Nat

\* A scope that is not in the vocabulary is "other".
ASSUME PrincipalAssumption ==
  \A p \in Principals :
    /\ p.subject \in [id : Identities \cup {Blank}, org : Orgs \cup {Blank},
                      orgScope : SUBSET (Orgs \cup {Blank}),
                      supportScope : SUBSET (Orgs \cup {Blank})]
    /\ \A d \in p.policies : d.scopes \in Seq(ScopeKinds \cup {"other"})

-----------------------------------------------------------------------------
(* repository.DataScope *)

\* Variant: blank values are kept.
NormalizedBlank(s) ==
  IF s.all THEN [all |-> TRUE, subjects |-> {}, orgs |-> {}] ELSE s

Normalized(s) ==
  IF s.all THEN [all |-> TRUE, subjects |-> {}, orgs |-> {}]
  ELSE [s EXCEPT !.subjects = @ \ {Blank}, !.orgs = @ \ {Blank}]

\* Variant: both branches are required.
PredicateBothBranches(s, e) ==
  LET scope == Normalized(s)
  IN  scope.all \/ (e.actor \in scope.subjects /\ e.org \in scope.orgs)

\* The WHERE that the event store adds; without a branch it is false.
auditEventDataScopePredicate(s, e) ==
  LET scope == Normalized(s)
  IN  scope.all \/ e.actor \in scope.subjects \/ e.org \in scope.orgs

-----------------------------------------------------------------------------
(* resolveAuditDataScope *)

\* Scopes are read in order up to the first "all" or unsupported one.
canonicalAuditScopePredicate(scopes) ==
  LET places == 1..Len(scopes)
  IN  IF \A k \in places : scopes[k] \in ScopeKinds \ {"all"}
      THEN [shape |-> IF Len(scopes) = 1 THEN "one" ELSE "any", facts |-> scopes]
      ELSE IF \E k \in places : scopes[k] = "all" /\ \A l \in 1..k : scopes[l] \in ScopeKinds
      THEN [shape |-> "none", facts |-> <<>>]
      ELSE [shape |-> "other", facts |-> <<>>]

\* The policies of exactly the permission that is asked for.
PoliciesOf(p) == {d \in p.policies : d.resource = "same" /\ d.action = "same"}

\* The guardrails that would restrict rows.
Restricts(g) == /\ g.resource \in {Blank, "same"}
                /\ g.action \in {Blank, "same"}
                /\ g.predicate
                /\ g.field = Blank

\* The principal is known, has the permission, and its bundle is its own and
\* still valid.
HasBundle(p, t) == p.known /\ p.granted /\ p.own /\ t < p.expires

\* The scopes of all these policies together.
ScopesOf(p) == UNION {{d.scopes[k] : k \in 1..Len(d.scopes)} : d \in PoliciesOf(p)}

\* Variant: the scopes are trusted without a look at the predicate.
TranslatableUnchecked(p) ==
  /\ PoliciesOf(p) # {}
  /\ \A d \in PoliciesOf(p) : d.allow
  /\ ScopesOf(p) \subseteq ScopeKinds

\* Audit can translate the policies: at least one, all of them allow, each
\* predicate is the one its scopes stand for, and no scope is unsupported.
Translatable(p) ==
  /\ PoliciesOf(p) # {}
  /\ \A d \in PoliciesOf(p) :
       d.allow /\ d.predicate = canonicalAuditScopePredicate(d.scopes)
  /\ ScopesOf(p) \subseteq ScopeKinds

resolveAuditDataScope(p, t) ==
  LET asked == ScopesOf(p)
      If(kind, ids) == IF kind \in asked THEN ids ELSE {}
  IN  IF HasBundle(p, t) /\ Translatable(p) /\ ~\E g \in p.guardrails : Restricts(g)
      THEN Normalized([all |-> "all" \in asked,
                       subjects |-> If("owner", {p.subject.id}),
                       orgs |-> If("org", {p.subject.org})
                                \cup If("org_child", p.subject.orgScope)
                                \cup If("target_org", p.subject.supportScope)])
      ELSE Denied

\* The rows that a principal's query may return.
MaySee(p, t, e) ==
  LET s == resolveAuditDataScope(p, t)
  IN  s # Denied /\ auditEventDataScopePredicate(s, e)

-----------------------------------------------------------------------------
(* The host (external): time passes, and bundles are replaced. *)

ScopeInit == now = 0 /\ principal \in Principals

Tick == now < MaxTime /\ now' = now + 1 /\ UNCHANGED principal

ChangeAuthorization == principal' \in Principals /\ UNCHANGED now

ScopeNext == Tick \/ ChangeAuthorization

ScopeSpec == ScopeInit /\ [][ScopeNext]_scopeVars

-----------------------------------------------------------------------------
(* What the policies mean, stated on one row (external: identity SDK). *)

\* A fact compares an attribute of the row with one of the subject; a missing
\* attribute satisfies none.
FactHolds(fact, subject, e) ==
  \/ fact = "owner"      /\ e.actor # Blank /\ e.actor = subject.id
  \/ fact = "org"        /\ e.org # Blank /\ e.org = subject.org
  \/ fact = "org_child"  /\ e.org # Blank /\ e.org \in subject.orgScope
  \/ fact = "target_org" /\ e.org # Blank /\ e.org \in subject.supportScope

PredicateHolds(q, subject, e) ==
  \/ q.shape = "none"
  \/ /\ q.shape \in {"one", "any"}
     /\ \E k \in 1..Len(q.facts) : FactHolds(q.facts[k], subject, e)

Allows(p, e) == \E d \in PoliciesOf(p) : d.allow /\ PredicateHolds(d.predicate, p.subject, e)

\* A predicate outside the vocabulary may hold of any row.
Forbids(p, e) ==
  \/ \E d \in PoliciesOf(p) :
       ~d.allow /\ (d.predicate.shape = "other" \/ PredicateHolds(d.predicate, p.subject, e))
  \/ \E g \in p.guardrails : Restricts(g)

\* The policies stay inside the role-authoring vocabulary.
Authored(p) ==
  /\ \A d \in PoliciesOf(p) :
       /\ d.allow
       /\ d.predicate = canonicalAuditScopePredicate(d.scopes)
       /\ \A k \in 1..Len(d.scopes) : d.scopes[k] \in ScopeKinds
  /\ ~\E g \in p.guardrails : Restricts(g)

-----------------------------------------------------------------------------
\* One type invariant: what is resolved is a data scope without blanks.
ScopeTypeOK ==
  /\ now \in 0..MaxTime
  /\ principal \in Principals
  /\ resolveAuditDataScope(principal, now) \in Scope \cup {Denied}

\* A query never returns a row that the policies do not grant: the holder has
\* the permission and a valid bundle of its own, some allow policy of exactly
\* this permission covers the row, and no deny policy or guardrail may apply
\* to it.  In particular a subject without an organization does not see the
\* events recorded without one ("unsupported deny predicates fail closed",
\* data_scope.go; blank values dropped by DataScope.Normalized).
NeverWidens ==
  \A e \in OwnedRow :
    MaySee(principal, now, e) =>
      HasBundle(principal, now) /\ Allows(principal, e) /\ ~Forbids(principal, e)

\* Policies written in the authoring vocabulary lose nothing in the
\* translation: every row that one of them allows is returned, whatever
\* several scopes and several policies combine to (an allow union).
NeverNarrows ==
  \A e \in OwnedRow :
    HasBundle(principal, now) /\ Authored(principal) /\ Allows(principal, e)
      => MaySee(principal, now, e)
=============================================================================
