---------------------------- MODULE MCDataScope ----------------------------
(* A small instance of DataScope: principals with up to two policies of up to
   two scopes each, or with a guardrail, or not entitled at all. *)
EXTENDS DataScope

CONSTANTS u1, u2, o1, o2

\* A scope list, with and without the predicate it stands for.
ScopeLists ==
  {<<>>} \cup {<<x>> : x \in ScopeKinds \cup {"other"}}
         \cup {<<"owner", "org">>, <<"org_child", "target_org">>,
               <<"owner", "all">>, <<"other", "all">>}

Policy(scopes, predicate, allow, resource, action) ==
  [resource |-> resource, action |-> action, allow |-> allow,
   scopes |-> scopes, predicate |-> predicate]

AuthoredPolicies ==
  {Policy(l, canonicalAuditScopePredicate(l), TRUE, "same", "same") : l \in ScopeLists}

\* A deny, a predicate that is not the one of its scopes, another resource,
\* another action.
OddPolicies ==
  {Policy(<<"owner">>, canonicalAuditScopePredicate(<<"owner">>), FALSE, "same", "same"),
   Policy(<<"all">>, [shape |-> "other", facts |-> <<>>], FALSE, "same", "same"),
   Policy(<<"all">>, canonicalAuditScopePredicate(<<"owner">>), TRUE, "same", "same"),
   Policy(<<"owner">>, [shape |-> "any", facts |-> <<"owner">>], TRUE, "same", "same"),
   Policy(<<"all">>, canonicalAuditScopePredicate(<<"all">>), TRUE, "other", "same"),
   Policy(<<"all">>, canonicalAuditScopePredicate(<<"all">>), TRUE, "same", "other")}

\* Alone, or beside an owner policy or an organization policy.
One(kind) == Policy(<<kind>>, canonicalAuditScopePredicate(<<kind>>), TRUE, "same", "same")

PolicySets == LET all == AuthoredPolicies \cup OddPolicies
              IN  {{}} \cup {{d} : d \in all}
                     \cup {{d, One(k)} : d \in all, k \in {"owner", "org"}}

Guardrails == [resource : {Blank, "same", "other"}, action : {Blank, "other"},
               predicate : BOOLEAN, field : {Blank, "email"}]

\* A member of an organization with a child, one without organization, one
\* whose scope lists carry a blank.
Subjects ==
  {[id |-> u1, org |-> o1, orgScope |-> {o1, o2}, supportScope |-> {}],
   [id |-> u1, org |-> Blank, orgScope |-> {}, supportScope |-> {o2}],
   [id |-> u1, org |-> o2, orgScope |-> {Blank}, supportScope |-> {Blank, o1}]}

Principal(standing, subject, policies, guardrails, expires) ==
  [known |-> standing # "unknown", granted |-> standing # "ungranted",
   own |-> standing # "foreign", expires |-> expires,
   subject |-> subject, policies |-> policies, guardrails |-> guardrails]

MCPrincipals ==
  {Principal("good", s, ps, {}, 1) : s \in Subjects, ps \in PolicySets}
  \cup {Principal("good", s, {d}, {g}, 2) :
          s \in Subjects, d \in {One("all"), One("org_child")}, g \in Guardrails}
  \cup {Principal(st, s, {d}, {}, 2) :
          st \in {"unknown", "ungranted", "foreign"}, s \in Subjects,
          d \in {One("all"), One("owner")}}
=============================================================================
