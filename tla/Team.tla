-------------------------------- MODULE Team --------------------------------
(***************************************************************************)
(* The users of one workspace and their memberships: invitations and       *)
(* removals (routes/users.ts), provisioning by an identity provider        *)
(* (routes/scim.ts, routes/saml.ts) and the deletion of the workspace      *)
(* (routes/privacy.ts).  No handler runs in a transaction: one action per  *)
(* statement.                                                              *)
(***************************************************************************)
EXTENDS Naturals, FiniteSets

CONSTANTS
  Email,     \* users, who are unique by e-mail
  Founder,   \* the owner who registered
  Manager,   \* requests handled at the same time
  Limit      \* the plan's user limit

ASSUME TeamAssumption ==
  IsFiniteSet(Email) /\ IsFiniteSet(Manager) /\ Manager # {} /\ Founder \in Email /\ Limit \in Nat \ {0}

VARIABLES
  tenant,       \* the workspace exists
  role,         \* users.role, or "none" without a row
  member,       \* users with a row in org_memberships
  job,          \* each handler's statement to come, its user, whether an owner left meanwhile
  provisioned   \* users the identity provider created (history)

teamVars == <<tenant, role, member, job, provisioned>>

Free == [at |-> "idle", who |-> Founder, as |-> "user", overtaken |-> FALSE]
Team == {e \in Email : role[e] # "none"}
Owners == {e \in Email : role[e] = "owner"}

TeamTypeOK ==
  /\ tenant \in BOOLEAN /\ (tenant \/ Team = {})
  /\ role \in [Email -> {"none", "owner", "user"}]
  /\ member \subseteq Team
  /\ job \in [Manager -> [at : {"idle", "invite", "provision", "inserted", "count", "remove"},
                          who : Email, as : {"owner", "user"}, overtaken : BOOLEAN]]
  /\ provisioned \subseteq Team

TeamInit ==
  /\ tenant = TRUE
  /\ role = [e \in Email |-> IF e = Founder THEN "owner" ELSE "none"]
  /\ member = {Founder} /\ provisioned = {}
  /\ job = [r \in Manager |-> Free]

Starts(r, step, e, as) ==
  /\ tenant /\ job[r].at = "idle"
  /\ job' = [job EXCEPT ![r] = [Free EXCEPT !.at = step, !.who = e, !.as = as]]
Quits(r) == job' = [job EXCEPT ![r] = Free]

----------------------------------------------------------------------------
\* Mutant: the last place is given away twice.
withinLimitInclusive(count, limit) == count <= limit

withinLimit(count, limit) == count < limit

\* POST /users: assertUserQuota.
InviteChecks(r, e, as) ==
  /\ withinLimit(Cardinality(Team), Limit)
  /\ Starts(r, "invite", e, as)
  /\ UNCHANGED <<tenant, role, member, provisioned>>

\* SCIM POST /Users or a first SAML sign-in: no quota, but the user must be new.
ProvisionChecks(r, e, as) ==
  /\ role[e] = "none"
  /\ Starts(r, "provision", e, as)
  /\ UNCHANGED <<tenant, role, member, provisioned>>

\* The insert fails for a known e-mail and for a deleted workspace.
InsertsUser(r) ==
  /\ job[r].at \in {"invite", "provision"}
  /\ IF tenant /\ job[r].who \notin Team
     THEN /\ role' = [role EXCEPT ![job[r].who] = job[r].as]
          /\ provisioned' = IF job[r].at = "provision" THEN provisioned \cup {job[r].who} ELSE provisioned
          /\ job' = [job EXCEPT ![r].at = "inserted"]
     ELSE Quits(r) /\ UNCHANGED <<role, provisioned>>
  /\ UNCHANGED <<tenant, member>>

\* INSERT ... ON CONFLICT DO NOTHING
InsertsMembership(r) ==
  /\ job[r].at = "inserted"
  /\ member' = member \cup {job[r].who}
  /\ Quits(r)
  /\ UNCHANGED <<tenant, role, provisioned>>

----------------------------------------------------------------------------
\* Mutant: memberships do not cascade.
DeletesUsersOnly(gone, next) ==
  /\ role' = [e \in Email |-> IF e \in gone THEN "none" ELSE role[e]]
  /\ member' = member /\ provisioned' = provisioned \ gone
  /\ job' = next

\* DELETE users: memberships go by cascade.  A handler whose user (by id) is gone
\* has nothing left to do: its statements match no row or fail.  One about to remove
\* an owner is overtaken by the removal of another.
Deletes(gone, next) ==
  /\ role' = [e \in Email |-> IF e \in gone THEN "none" ELSE role[e]]
  /\ member' = member \ gone
  /\ provisioned' = provisioned \ gone
  /\ job' = [q \in Manager |->
               IF next[q].at \in {"inserted", "count", "remove"} /\ next[q].who \in gone THEN Free
               ELSE [next[q] EXCEPT !.overtaken = @ \/ (next[q].at = "remove" /\ gone \cap Owners # {})]]

\* DELETE /users/:id, the select of the target.
RemoveReads(r, e) ==
  /\ role[e] # "none"
  /\ Starts(r, IF role[e] = "owner" THEN "count" ELSE "remove", e, "user")
  /\ UNCHANGED <<tenant, role, member, provisioned>>

\* Mutant: the guard counts the owner who is to go.
RemoveCountsSelf(r) ==
  /\ job[r].at = "count"
  /\ IF Cardinality(Owners) >= 1 THEN job' = [job EXCEPT ![r].at = "remove"] ELSE Quits(r)
  /\ UNCHANGED <<tenant, role, member, provisioned>>

\* The last owner stays.
RemoveCounts(r) ==
  /\ job[r].at = "count"
  /\ IF Cardinality(Owners) > 1 THEN job' = [job EXCEPT ![r].at = "remove"] ELSE Quits(r)
  /\ UNCHANGED <<tenant, role, member, provisioned>>

RemoveDeletes(r) ==
  /\ job[r].at = "remove"
  /\ Deletes({job[r].who}, [job EXCEPT ![r] = Free])
  /\ UNCHANGED tenant

\* SCIM DELETE, or PUT and PATCH with active = false: no owner guard.
Deprovision(e) ==
  /\ role[e] # "none"
  /\ Deletes({e}, job)
  /\ UNCHANGED tenant

\* DELETE /me/tenant by an owner: everything cascades from the tenant's row.
DeleteWorkspace ==
  /\ tenant /\ Owners # {}
  /\ tenant' = FALSE
  /\ Deletes(Email, job)

JobDies(r) ==
  /\ job[r].at # "idle"
  /\ Quits(r)
  /\ UNCHANGED <<tenant, role, member, provisioned>>

TeamNext ==
  \/ \E r \in Manager :
       \/ InsertsUser(r) \/ InsertsMembership(r) \/ RemoveCounts(r) \/ RemoveDeletes(r) \/ JobDies(r)
       \/ \E e \in Email :
            \/ RemoveReads(r, e)
            \/ \E as \in {"owner", "user"} : InviteChecks(r, e, as) \/ ProvisionChecks(r, e, as)
  \/ \E e \in Email : Deprovision(e)
  \/ DeleteWorkspace

TeamSpec == TeamInit /\ [][TeamNext]_teamVars

----------------------------------------------------------------------------
\* The quota is checked before the insert and without a lock, so invitations may
\* overshoot it, but by no more than the other requests under way; and users
\* removed and invited again never add to that.
InvitesNearQuota == Cardinality(Team \ provisioned) <= Limit - 1 + Cardinality(Manager)

\* The guard of the last owner (a workspace must not lock itself out): a removal
\* that is about to take the last owner is one whose count another owner's removal
\* has outdated.
LastOwnerKept == \A r \in Manager : job[r].at = "remove" /\ Owners = {job[r].who} => job[r].overtaken
=============================================================================
