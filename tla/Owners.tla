------------------------------- MODULE Owners -------------------------------
(***************************************************************************)
(* Who may answer for a path: the CODEOWNERS policy of a commit            *)
(* (src/src/codeowners.rs), the ownership snapshot and its resolution      *)
(* (src/src/ownership.rs), and the answers of GitHub that a snapshot is    *)
(* collected from (src/src/github_ownership.rs).                           *)
(*                                                                         *)
(* Users and logins are integers; an identity is a user's login, a team or *)
(* an e-mail address.  A pattern is the set of paths that it matches.      *)
(***************************************************************************)
EXTENDS Integers, Sequences, SequencesExt

CONSTANTS
    MaxRules,         \* MAX_CODEOWNERS_RULES
    MaxOwnersPerRule, \* MAX_OWNERS_PER_RULE
    MaxUsers,         \* MAX_OWNERSHIP_USERS
    MaxMembers,       \* MAX_TEAM_MEMBERS
    PageSize,         \* GITHUB_PAGE_SIZE
    MaxRequests       \* MAX_GITHUB_OWNERSHIP_API_REQUESTS

ASSUME OwnersAssumption ==
    /\ {MaxRules, MaxOwnersPerRule, MaxUsers, MaxMembers, MaxRequests} \subseteq Nat
    /\ PageSize \in Nat \ {0}

User(login) == [kind |-> "user", name |-> login]
Team(slug)  == [kind |-> "team", name |-> slug]

-----------------------------------------------------------------------------
(* CODEOWNERS                                                              *)

NoPolicy == [ok |-> FALSE, rules |-> <<>>]

\* validate_lexical_policy_limits and validate_policy_counts
WithinPolicyLimits(rules) ==
    /\ Len(rules) <= MaxRules
    /\ \A i \in DOMAIN rules : Cardinality(rules[i].owners) <= MaxOwnersPerRule

\* find_source_entry: the first place that holds anything at all.
SourceEntry(places) ==
    LET found == {i \in DOMAIN places : places[i].present}
    IN  IF found = {} THEN {} ELSE {places[Min(found)]}

\* CodeownersPolicy::load
LoadPolicy(places) ==
    IF \E entry \in SourceEntry(places) :
          /\ entry.regular
          /\ WithinPolicyLimits(entry.rules)
          /\ \A i \in DOMAIN entry.rules : entry.rules[i].legal
    THEN [ok |-> TRUE, rules |-> (CHOOSE entry \in SourceEntry(places) : TRUE).rules]
    ELSE NoPolicy

\* resolve_utf8_path: the last rule that matches.
MatchingRule(rules, p) ==
    LET matching == {i \in DOMAIN rules : p \in rules[i].paths}
    IN  IF matching = {} THEN {} ELSE {rules[Max(matching)]}

\* owner_identities
OwnerIdentities(rules) == UNION {rules[i].owners : i \in DOMAIN rules}

-----------------------------------------------------------------------------
(* Permissions                                                             *)

Standard == {"admin", "maintain", "write", "triage", "read"}

\* permits_review
PermitsReview(permission) == permission \in {"admin", "maintain", "write"}

\* legacy_base_permission
LegacyBase(permission) ==
    CASE permission = "maintain" -> "write"
      [] permission = "triage"   -> "read"
      [] OTHER -> permission

\* permission_from_user_response: none when the answer contradicts itself.
PermissionFromUser(answer) ==
    IF answer.base \notin {"admin", "write", "read"} THEN {}
    ELSE IF answer.role \in Standard
    THEN IF LegacyBase(answer.role) = answer.base THEN {answer.role} ELSE {}
    ELSE {answer.base}

\* permission_from_bits: yes and no are the bits that an answer sets and
\* clears; triage and maintain may be left out.
PermissionFromBits(yes, no, role) ==
    LET base == IF "admin" \in yes THEN "admin" ELSE IF "push" \in yes THEN "write" ELSE "read"
        contradicts ==
            \/ "pull" \notin yes
            \/ yes \cap {"admin", "maintain"} # {} /\ "push" \notin yes
            \/ role \in Standard /\ LegacyBase(role) # base
            \/ role \in {"maintain", "triage"} /\ role \in no
            \/ role = "write" /\ "maintain" \in yes
            \/ role = "read" /\ "triage" \in yes
    IN  IF contradicts THEN {}
        ELSE IF role \in Standard THEN {role}
        ELSE IF base = "write" /\ "maintain" \in yes THEN {"maintain"}
        ELSE IF base = "read" /\ "triage" \in yes THEN {"triage"}
        ELSE {base}

-----------------------------------------------------------------------------
(* Ownership snapshots                                                     *)

\* GithubOwnershipSnapshot::validate
ValidSnapshot(s) ==
    /\ Cardinality(s.users) <= MaxUsers
    /\ \A u, v \in s.users : (u.id = v.id \/ u.login = v.login) => u = v
    /\ \A t, v \in s.teams : t.slug = v.slug => t = v
    /\ \A t \in s.teams :
          /\ Cardinality(t.members) <= MaxMembers
          /\ t.members \subseteq {u.id : u \in s.users}

Blocked == [ok |-> FALSE, ids |-> {}]

\* Mutant: a member of a team answers for it whatever they may do themselves.
ResolveAnyMember(s, owner) ==
    LET teams == {t \in s.teams : owner.kind = "team" /\ t.slug = owner.name}
        users == {u \in s.users : owner.kind = "user" /\ u.login = owner.name}
        ids   == {u.id : u \in {v \in users : PermitsReview(v.perm)}} \cup UNION {t.members : t \in teams}
    IN  IF ids = {} THEN Blocked ELSE [ok |-> TRUE, ids |-> ids]

\* GithubOwnershipIndex::resolve
Resolve(s, owner) ==
    LET users == {u \in s.users : owner.kind = "user" /\ u.login = owner.name}
        teams == {t \in s.teams : /\ owner.kind = "team" /\ t.slug = owner.name
                                  /\ t.closed /\ PermitsReview(t.perm)}
        able  == users \cup {u \in s.users : \E t \in teams : u.id \in t.members}
        ids   == {u.id : u \in {v \in able : PermitsReview(v.perm)}}
    IN  IF ids = {} THEN Blocked ELSE [ok |-> TRUE, ids |-> ids]

-----------------------------------------------------------------------------
(* Collecting a snapshot.  github is what GitHub would answer now:         *)
(*   repo, closed, team (permission bits and role), members (of the team), *)
(*   login and answer (of every user).                                     *)

\* CollectionPlan::new
Plan(rules) ==
    [ok    |-> \A o \in OwnerIdentities(rules) : o.kind # "email",
     users |-> {o.name : o \in {i \in OwnerIdentities(rules) : i.kind = "user"}},
     teams |-> {o.name : o \in {i \in OwnerIdentities(rules) : i.kind = "team"}}]

\* minimum_collection_requests
MinimumRequests(plan) == 2 * (3 * Cardinality(plan.teams) + Cardinality(plan.users) + 4)

\* get_paginated: the page of a list sorted by identifier, which is decided
\* by the number of members in front.
MembersPage(github, page) ==
    {m \in github.members :
        LET before == Cardinality({n \in github.members : n < m})
        IN  (page - 1) * PageSize <= before /\ before < page * PageSize}

=============================================================================
