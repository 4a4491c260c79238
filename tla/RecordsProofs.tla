---------------------------- MODULE RecordsProofs ----------------------------
(***************************************************************************)
(* Proofs about Team and Sessions for any users, limit, sessions and       *)
(* requests that overlap: a removal does not take the last owner unless    *)
(* another outdated its count, invitations overshoot the quota by no more  *)
(* than the requests under way, and what lives after a sign-out was minted *)
(* by a request it overtook.  About History for any windows, days, limits  *)
(* and overlapping roll-ups: detectTrips cuts the positions into trips     *)
(* that do not overlap, a drive is then counted once and a day's total is  *)
(* that of its trips, with the exceptions the property names.  And about   *)
(* the run that explores sessions, teams and history as a disjoint sum.    *)
(***************************************************************************)
EXTENDS MCRecords, FiniteSetTheorems, SequenceTheorems, WellFoundedInduction, TLAPS

-----------------------------------------------------------------------------
(* Teams. *)

\* A handler past its insert or its select works on a user who is there: their removal
\* ends it.
WorksOnUser == \A r \in Manager : job[r].at \in {"inserted", "count", "remove"} => job[r].who \in Team

Inviting == {r \in Manager : job[r].at = "invite"}

\* Invitations that have passed the quota's check count as if their users were there.
InvitesCounted == Cardinality(Team \ provisioned) + Cardinality(Inviting) <= Limit - 1 + Cardinality(Manager)

TeamInv == TeamTypeOK /\ WorksOnUser /\ InvitesCounted /\ LastOwnerKept

Job == [at : {"idle", "invite", "provision", "inserted", "count", "remove"},
        who : Email, as : {"owner", "user"}, overtaken : BOOLEAN]

LEMMA TeamFinite ==
  /\ Cardinality(Manager) \in Nat /\ Limit \in Nat \ {0}
  /\ \A S \in SUBSET Email : IsFiniteSet(S) /\ Cardinality(S) \in Nat
  /\ \A S \in SUBSET Manager : /\ IsFiniteSet(S) /\ Cardinality(S) \in Nat
                               /\ Cardinality(S) <= Cardinality(Manager)
  /\ \A S \in SUBSET Email : \A T \in SUBSET S : Cardinality(T) <= Cardinality(S)
  /\ \A S \in SUBSET Manager : \A T \in SUBSET S : Cardinality(T) <= Cardinality(S)
<1>1. IsFiniteSet(Email) /\ IsFiniteSet(Manager) /\ Limit \in Nat \ {0}
  BY TeamAssumption
<1>2. \A S \in SUBSET Email : IsFiniteSet(S) /\ Cardinality(S) \in Nat
  BY <1>1, FS_Subset, FS_CardinalityType
<1>3. \A S \in SUBSET Manager : IsFiniteSet(S) /\ Cardinality(S) \in Nat /\ Cardinality(S) <= Cardinality(Manager)
  BY <1>1, FS_Subset, FS_CardinalityType
<1>4. Cardinality(Manager) \in Nat
  BY <1>1, FS_CardinalityType
<1>5. \A S \in SUBSET Email : \A T \in SUBSET S : Cardinality(T) <= Cardinality(S)
  BY <1>2, FS_Subset
<1>6. \A S \in SUBSET Manager : \A T \in SUBSET S : Cardinality(T) <= Cardinality(S)
  BY <1>3, FS_Subset
<1> QED
  BY <1>1, <1>2, <1>3, <1>4, <1>5, <1>6

LEMMA FreeType == Free \in Job /\ Free.at = "idle"
  BY TeamAssumption DEF Free, Job

LEMMA TeamStart == TeamInit => TeamInv
<1> SUFFICES ASSUME TeamInit PROVE TeamInv
  OBVIOUS
<1>1. Founder \in Email /\ Team = {Founder} /\ Inviting = {} /\ Team \ provisioned = {Founder}
  BY TeamAssumption, FreeType DEF TeamInit, Team, Inviting
<1>2. \A r \in Manager : job[r] = Free
  BY DEF TeamInit
<1>3. TeamTypeOK
  BY <1>1, FreeType DEF TeamInit, TeamTypeOK, Job
<1>4. WorksOnUser /\ LastOwnerKept
  BY <1>2, FreeType DEF WorksOnUser, LastOwnerKept
<1>5. InvitesCounted
  <2>1. Cardinality({}) = 0 /\ Cardinality({Founder}) = 1
    BY FS_EmptySet, FS_Singleton
  <2>2. Cardinality(Manager) # 0
    BY TeamAssumption, FS_EmptySet
  <2> QED
    BY <1>1, <2>1, <2>2, TeamFinite DEF InvitesCounted
<1> QED
  BY <1>3, <1>4, <1>5 DEF TeamInv

\* A handler starts on a user in an idle slot; the step does not touch the users.
LEMMA StartsType ==
  ASSUME TeamInv, NEW r \in Manager, NEW e \in Email, NEW as \in {"owner", "user"},
         NEW step \in {"invite", "provision", "count", "remove"}, Starts(r, step, e, as)
  PROVE  /\ tenant /\ job[r].at = "idle" /\ job' \in [Manager -> Job]
         /\ job'[r].at = step /\ job'[r].who = e /\ \A q \in Manager \ {r} : job'[q] = job[q]
<1> DEFINE start == [Free EXCEPT !.at = step, !.who = e, !.as = as]
<1>1. start \in Job /\ start.at = step /\ start.who = e
  BY FreeType DEF Job
<1>2. job' = [job EXCEPT ![r] = start]
  BY DEF Starts
<1> HIDE DEF start
<1>3. job \in [Manager -> Job]
  BY DEF TeamInv, TeamTypeOK, Job
<1> QED
  BY <1>1, <1>2, <1>3 DEF Starts

\* A handler moves on to a step, or ends.
LEMMA GoesOnType ==
  ASSUME TeamInv, NEW r \in Manager, NEW step \in {"inserted", "remove"}, job' = [job EXCEPT ![r].at = step]
  PROVE  /\ job' \in [Manager -> Job] /\ job'[r].at = step /\ job'[r].who = job[r].who
         /\ \A q \in Manager \ {r} : job'[q] = job[q]
<1>1. job \in [Manager -> Job]
  BY DEF TeamInv, TeamTypeOK, Job
<1>2. [job[r] EXCEPT !.at = step] \in Job
  BY <1>1 DEF Job
<1> QED
  BY <1>1, <1>2 DEF Job

LEMMA QuitsType ==
  ASSUME TeamInv, NEW r \in Manager, Quits(r)
  PROVE  job' \in [Manager -> Job] /\ job'[r].at = "idle" /\ \A q \in Manager \ {r} : job'[q] = job[q]
<1>1. job \in [Manager -> Job]
  BY DEF TeamInv, TeamTypeOK, Job
<1> QED
  BY <1>1, FreeType DEF Quits

\* A handler that ends leaves nothing behind that the invariant speaks of.
LEMMA QuitsKeeps ==
  ASSUME TeamInv, NEW r \in Manager, Quits(r), UNCHANGED <<tenant, role, member, provisioned>>
  PROVE  TeamInv'
<1>1. job' \in [Manager -> Job] /\ job'[r].at = "idle" /\ \A q \in Manager \ {r} : job'[q] = job[q]
  BY QuitsType
<1>2. Team' = Team /\ Owners' = Owners
  BY DEF Team, Owners
<1>3. TeamTypeOK'
  BY <1>1, <1>2 DEF TeamInv, TeamTypeOK, Job
<1>4. WorksOnUser' /\ LastOwnerKept'
  BY <1>1, <1>2 DEF TeamInv, WorksOnUser, LastOwnerKept
<1>5. InvitesCounted'
  <2>1. Inviting' \subseteq Inviting /\ Inviting \in SUBSET Manager /\ Inviting' \in SUBSET Manager
    BY <1>1 DEF Inviting
  <2>2. Cardinality(Inviting') <= Cardinality(Inviting) /\ Cardinality(Inviting') \in Nat /\ Cardinality(Inviting) \in Nat
    BY <2>1, TeamFinite
  <2>3. Cardinality(Team \ provisioned) \in Nat
    BY TeamFinite DEF Team
  <2> QED
    BY <1>2, <2>2, <2>3, TeamFinite DEF TeamInv, InvitesCounted
<1> QED
  BY <1>3, <1>4, <1>5 DEF TeamInv

\* The quota's check (routes/users.ts): there is room for this invitation, and there are
\* no more invitations under way than handlers.
LEMMA InviteChecksKeeps ==
  ASSUME TeamInv, NEW r \in Manager, NEW e \in Email, NEW as \in {"owner", "user"}, InviteChecks(r, e, as)
  PROVE  TeamInv'
<1>1. /\ Cardinality(Team) < Limit /\ Starts(r, "invite", e, as)
      /\ UNCHANGED <<tenant, role, member, provisioned>>
  BY DEF InviteChecks, withinLimit
<1>2. /\ job' \in [Manager -> Job] /\ job'[r].at = "invite" /\ \A q \in Manager \ {r} : job'[q] = job[q]
  BY <1>1, StartsType
<1>3. Team' = Team /\ Owners' = Owners
  BY <1>1 DEF Team, Owners
<1>4. TeamTypeOK'
  BY <1>1, <1>2, <1>3 DEF TeamInv, TeamTypeOK, Job
<1>5. WorksOnUser' /\ LastOwnerKept'
  BY <1>2, <1>3 DEF TeamInv, WorksOnUser, LastOwnerKept
<1>6. InvitesCounted'
  <2>1. Team \in SUBSET Email /\ Team \ provisioned \in SUBSET Team /\ Inviting' \in SUBSET Manager
    BY DEF Team, Inviting
  <2>2. /\ Cardinality(Team \ provisioned) \in Nat /\ Cardinality(Team \ provisioned) <= Cardinality(Team)
        /\ Cardinality(Team) \in Nat
        /\ Cardinality(Inviting') \in Nat /\ Cardinality(Inviting') <= Cardinality(Manager)
    BY <2>1, TeamFinite
  <2> QED
    BY <1>1, <1>3, <2>2, TeamFinite DEF InvitesCounted
<1> QED
  BY <1>4, <1>5, <1>6 DEF TeamInv

\* The other selects count for nothing in the quota.
LEMMA SelectsKeep ==
  ASSUME TeamInv, NEW r \in Manager, NEW e \in Email, NEW as \in {"owner", "user"},
         ProvisionChecks(r, e, as) \/ RemoveReads(r, e)
  PROVE  TeamInv'
<1>1. PICK step \in {"provision", "count", "remove"} :
        /\ job' \in [Manager -> Job] /\ job[r].at = "idle" /\ job'[r].at = step /\ job'[r].who = e
        /\ \A q \in Manager \ {r} : job'[q] = job[q]
        /\ step # "provision" => e \in Team
        /\ step = "remove" => e \notin Owners
  <2>1. CASE ProvisionChecks(r, e, as)
    BY <2>1, StartsType DEF ProvisionChecks
  <2>2. CASE RemoveReads(r, e) /\ role[e] = "owner"
    <3>1. Starts(r, "count", e, "user") /\ e \in Team
      BY <2>2 DEF RemoveReads, Team
    <3> QED
      BY <3>1, StartsType
  <2>3. CASE RemoveReads(r, e) /\ role[e] # "owner"
    <3>1. Starts(r, "remove", e, "user") /\ e \in Team /\ e \notin Owners
      BY <2>3 DEF RemoveReads, Team, Owners
    <3> QED
      BY <3>1, StartsType
  <2> QED
    BY <2>1, <2>2, <2>3
<1>2. UNCHANGED <<tenant, role, member, provisioned>>
  BY DEF ProvisionChecks, RemoveReads
<1>3. Team' = Team /\ Owners' = Owners
  BY <1>2 DEF Team, Owners
<1>4. TeamTypeOK'
  BY <1>1, <1>2, <1>3 DEF TeamInv, TeamTypeOK, Job
<1>5. WorksOnUser' /\ LastOwnerKept'
  BY <1>1, <1>3 DEF TeamInv, WorksOnUser, LastOwnerKept
<1>6. Inviting' = Inviting
  BY <1>1 DEF Inviting
<1>7. InvitesCounted'
  BY <1>2, <1>3, <1>6 DEF TeamInv, InvitesCounted
<1> QED
  BY <1>4, <1>5, <1>7 DEF TeamInv

\* The insert of an invited user turns a promise into a user; that of a provisioned one
\* does not count.  A new owner cannot leave another as the last.
LEMMA InsertsUserKeeps ==
  ASSUME TeamInv, NEW r \in Manager, InsertsUser(r)
  PROVE  TeamInv'
<1> DEFINE who == job[r].who
<1>1. CASE ~(tenant /\ who \notin Team)
  BY <1>1, QuitsKeeps DEF InsertsUser
<1>2. CASE tenant /\ who \notin Team
  <2>1. /\ job[r].at \in {"invite", "provision"}
        /\ role' = [role EXCEPT ![who] = job[r].as]
        /\ provisioned' = IF job[r].at = "provision" THEN provisioned \cup {who} ELSE provisioned
        /\ job' = [job EXCEPT ![r].at = "inserted"]
        /\ UNCHANGED <<tenant, member>>
    BY <1>2 DEF InsertsUser
  <2>2. /\ job' \in [Manager -> Job] /\ job'[r].at = "inserted" /\ job'[r].who = who
        /\ \A q \in Manager \ {r} : job'[q] = job[q]
    BY <2>1, GoesOnType
  <2>3. who \in Email /\ job[r].as \in {"owner", "user"}
    BY DEF TeamInv, TeamTypeOK
  <2>4. /\ role' \in [Email -> {"none", "owner", "user"}] /\ role'[who] = job[r].as
        /\ \A e \in Email \ {who} : role'[e] = role[e]
    BY <2>1, <2>3 DEF TeamInv, TeamTypeOK
  <2>5. Team' = Team \cup {who} /\ Owners \subseteq Owners' /\ Owners' \subseteq Owners \cup {who}
        /\ who \notin provisioned /\ who \notin Owners /\ provisioned \subseteq Team
    BY <1>2, <2>3, <2>4 DEF TeamInv, TeamTypeOK, Team, Owners
  <2>6. TeamTypeOK'
    BY <1>2, <2>1, <2>2, <2>4, <2>5 DEF TeamInv, TeamTypeOK, Job
  <2>7. WorksOnUser'
    BY <2>2, <2>5 DEF TeamInv, WorksOnUser
  <2>8. LastOwnerKept'
    <3> SUFFICES ASSUME NEW q \in Manager, job'[q].at = "remove", Owners' = {job'[q].who}
                 PROVE  job'[q].overtaken
      BY DEF LastOwnerKept
    <3>1. q # r /\ job'[q] = job[q]
      BY <2>2
    <3>2. job[q].who # who
      BY <1>2, <3>1 DEF TeamInv, WorksOnUser
    <3>3. Owners = {job[q].who}
      BY <2>5, <3>1, <3>2
    <3> QED
      BY <3>1, <3>3 DEF TeamInv, LastOwnerKept
  <2>9. InvitesCounted'
    <3>1. Team \ provisioned \in SUBSET Email /\ Inviting \in SUBSET Manager
      BY DEF Team, Inviting
    <3>2. /\ IsFiniteSet(Team \ provisioned) /\ IsFiniteSet(Inviting)
          /\ Cardinality(Team \ provisioned) \in Nat /\ Cardinality(Inviting) \in Nat
      BY <3>1, TeamFinite
    <3>3. CASE job[r].at = "invite"
      <4>1. Team' \ provisioned' = (Team \ provisioned) \cup {who} /\ who \notin Team \ provisioned
        BY <1>2, <2>1, <2>5, <3>3
      <4>2. Inviting' = Inviting \ {r} /\ r \in Inviting
        BY <2>2, <3>3 DEF Inviting
      <4>3. Cardinality(Team' \ provisioned') = Cardinality(Team \ provisioned) + 1
        BY <3>2, <4>1, FS_AddElement
      <4>4. Cardinality(Inviting') = Cardinality(Inviting) - 1
        BY <3>2, <4>2, FS_RemoveElement
      <4> QED
        BY <3>2, <4>3, <4>4, TeamFinite DEF TeamInv, InvitesCounted
    <3>4. CASE job[r].at = "provision"
      <4>1. Team' \ provisioned' = Team \ provisioned
        BY <1>2, <2>1, <2>5, <3>4
      <4>2. Inviting' = Inviting
        BY <2>2, <3>4 DEF Inviting
      <4> QED
        BY <4>1, <4>2 DEF TeamInv, InvitesCounted
    <3> QED
      BY <2>1, <3>3, <3>4
  <2> QED
    BY <2>6, <2>7, <2>8, <2>9 DEF TeamInv
<1> QED
  BY <1>1, <1>2

LEMMA InsertsMembershipKeeps ==
  ASSUME TeamInv, NEW r \in Manager, InsertsMembership(r)
  PROVE  TeamInv'
<1>1. /\ job[r].at = "inserted" /\ member' = member \cup {job[r].who} /\ Quits(r)
      /\ UNCHANGED <<tenant, role, provisioned>>
  BY DEF InsertsMembership
<1>2. job' \in [Manager -> Job] /\ job'[r].at = "idle" /\ \A q \in Manager \ {r} : job'[q] = job[q]
  BY <1>1, QuitsType
<1>3. Team' = Team /\ Owners' = Owners /\ job[r].who \in Team
  BY <1>1 DEF Team, Owners, TeamInv, WorksOnUser
<1>4. TeamTypeOK'
  BY <1>1, <1>2, <1>3 DEF TeamInv, TeamTypeOK, Job
<1>5. WorksOnUser' /\ LastOwnerKept'
  BY <1>2, <1>3 DEF TeamInv, WorksOnUser, LastOwnerKept
<1>6. Inviting' = Inviting
  BY <1>1, <1>2 DEF Inviting
<1>7. InvitesCounted'
  BY <1>1, <1>3, <1>6 DEF TeamInv, InvitesCounted
<1> QED
  BY <1>4, <1>5, <1>7 DEF TeamInv

\* The guard of the last owner: with two owners, none is the last.
LEMMA RemoveCountsKeeps ==
  ASSUME TeamInv, NEW r \in Manager, RemoveCounts(r)
  PROVE  TeamInv'
<1>1. job[r].at = "count" /\ UNCHANGED <<tenant, role, member, provisioned>>
  BY DEF RemoveCounts
<1>2. CASE ~(Cardinality(Owners) > 1)
  BY <1>1, <1>2, QuitsKeeps DEF RemoveCounts
<1>3. CASE Cardinality(Owners) > 1
  <2>1. job' = [job EXCEPT ![r].at = "remove"]
    BY <1>3 DEF RemoveCounts
  <2>2. /\ job' \in [Manager -> Job] /\ job'[r].at = "remove" /\ job'[r].who = job[r].who
        /\ \A q \in Manager \ {r} : job'[q] = job[q]
    BY <2>1, GoesOnType
  <2>3. Team' = Team /\ Owners' = Owners /\ job[r].who \in Team
    BY <1>1 DEF Team, Owners, TeamInv, WorksOnUser
  <2>4. TeamTypeOK'
    BY <1>1, <2>2, <2>3 DEF TeamInv, TeamTypeOK, Job
  <2>5. WorksOnUser'
    BY <2>2, <2>3 DEF TeamInv, WorksOnUser
  <2>6. LastOwnerKept'
    <3>1. Owners # {job[r].who}
      <4>1. Cardinality({job[r].who}) = 1
        BY FS_Singleton
      <4> QED
        BY <1>3, <4>1
    <3> QED
      BY <2>2, <2>3, <3>1 DEF TeamInv, LastOwnerKept
  <2>7. Inviting' = Inviting
    BY <1>1, <2>2 DEF Inviting
  <2>8. InvitesCounted'
    BY <1>1, <2>3, <2>7 DEF TeamInv, InvitesCounted
  <2> QED
    BY <2>4, <2>5, <2>6, <2>8 DEF TeamInv
<1> QED
  BY <1>2, <1>3

\* A deletion ends the handlers that worked on its users, and overtakes those about to
\* remove an owner when it takes one.
LEMMA DeletesKeeps ==
  ASSUME TeamInv, NEW gone \in SUBSET Email, NEW next \in [Manager -> Job],
         \A q \in Manager : next[q] \in {job[q], Free}, Deletes(gone, next),
         tenant' = tenant \/ (tenant' = FALSE /\ gone = Email)
  PROVE  TeamInv'
<1>1. /\ role' \in [Email -> {"none", "owner", "user"}]
      /\ \A e \in Email : role'[e] = IF e \in gone THEN "none" ELSE role[e]
      /\ member' = member \ gone /\ provisioned' = provisioned \ gone
  BY DEF Deletes, TeamInv, TeamTypeOK
<1>2. Team' = Team \ gone /\ Owners' = Owners \ gone
  BY <1>1 DEF Team, Owners
<1> DEFINE takes == gone \cap Owners # {}
           stopped(q) == next[q].at \in {"inserted", "count", "remove"} /\ next[q].who \in gone
           late(q) == next[q].overtaken \/ (next[q].at = "remove" /\ takes)
<1>3. job' = [q \in Manager |-> IF stopped(q) THEN Free ELSE [next[q] EXCEPT !.overtaken = late(q)]]
  BY DEF Deletes
<1>4. \A q \in Manager : /\ late(q) \in BOOLEAN
                         /\ stopped(q) => job'[q] = Free
                         /\ ~stopped(q) => job'[q] = [next[q] EXCEPT !.overtaken = late(q)]
  <2>1. \A q \in Manager : next[q].overtaken \in BOOLEAN
    BY DEF Job
  <2> QED
    BY <1>3, <2>1
<1> HIDE DEF late
<1>5. ASSUME NEW q \in Manager
      PROVE  /\ job'[q] \in Job
             /\ job'[q].at # "idle" => /\ job'[q].at = job[q].at /\ job'[q].who = job[q].who
                                       /\ job'[q].at \in {"inserted", "count", "remove"} => job'[q].who \notin gone
                                       /\ job'[q].overtaken = late(q) /\ next[q] = job[q]
  <2>1. CASE stopped(q)
    BY <1>4, <2>1, FreeType
  <2>2. CASE ~stopped(q)
    <3>1. /\ job'[q] \in Job /\ job'[q].at = next[q].at /\ job'[q].who = next[q].who
          /\ job'[q].overtaken = late(q)
      BY <1>4, <2>2 DEF Job
    <3>2. CASE next[q] = Free
      BY <3>1, <3>2, FreeType
    <3>3. CASE next[q] = job[q]
      BY <2>2, <3>1, <3>3
    <3> QED
      BY <3>2, <3>3
  <2> QED
    BY <2>1, <2>2
<1>6. job' \in [Manager -> Job]
  BY <1>3, <1>5
<1>7. TeamTypeOK'
  <2>1. tenant' \in BOOLEAN /\ (tenant' \/ Team' = {})
    BY <1>2 DEF TeamInv, TeamTypeOK, Team
  <2> QED
    BY <1>1, <1>2, <1>6, <2>1 DEF TeamInv, TeamTypeOK, Job
<1>8. WorksOnUser'
  BY <1>2, <1>5 DEF TeamInv, WorksOnUser
<1>9. LastOwnerKept'
  <2> SUFFICES ASSUME NEW q \in Manager, job'[q].at = "remove", Owners' = {job'[q].who}
               PROVE  job'[q].overtaken
    BY DEF LastOwnerKept
  <2>1. /\ job[q].at = "remove" /\ job'[q].who = job[q].who /\ next[q] = job[q]
        /\ job'[q].overtaken = late(q)
    BY <1>5
  <2>2. CASE takes
    BY <2>1, <2>2 DEF late
  <2>3. CASE ~takes
    <3>1. Owners = {job[q].who}
      BY <1>2, <2>1, <2>3
    <3>2. job[q].overtaken
      BY <2>1, <3>1 DEF TeamInv, LastOwnerKept
    <3> QED
      BY <2>1, <3>2 DEF late
  <2> QED
    BY <2>2, <2>3
<1>10. InvitesCounted'
  <2>1. /\ Inviting' \in SUBSET Inviting /\ Inviting \in SUBSET Manager
        /\ Team' \ provisioned' \in SUBSET (Team \ provisioned) /\ Team \ provisioned \in SUBSET Email
    BY <1>1, <1>2, <1>5 DEF Inviting, Team
  <2>2. /\ Cardinality(Inviting') <= Cardinality(Inviting)
        /\ Cardinality(Inviting') \in Nat /\ Cardinality(Inviting) \in Nat
        /\ Cardinality(Team' \ provisioned') <= Cardinality(Team \ provisioned)
        /\ Cardinality(Team' \ provisioned') \in Nat /\ Cardinality(Team \ provisioned) \in Nat
    BY <2>1, TeamFinite
  <2> QED
    BY <2>2, TeamFinite DEF TeamInv, InvitesCounted
<1> QED
  BY <1>7, <1>8, <1>9, <1>10 DEF TeamInv

LEMMA TeamStep == TeamInv /\ [TeamNext]_teamVars => TeamInv'
<1> SUFFICES ASSUME TeamInv, [TeamNext]_teamVars PROVE TeamInv'
  OBVIOUS
<1>0. job \in [Manager -> Job]
  BY DEF TeamInv, TeamTypeOK, Job
<1>1. CASE UNCHANGED teamVars
  BY <1>1 DEF teamVars, TeamInv, TeamTypeOK, WorksOnUser, InvitesCounted, Inviting, LastOwnerKept, Team, Owners
<1>2. ASSUME NEW r \in Manager, InsertsUser(r) \/ InsertsMembership(r) \/ RemoveCounts(r) \/ JobDies(r)
      PROVE  TeamInv'
  BY <1>2, InsertsUserKeeps, InsertsMembershipKeeps, RemoveCountsKeeps, QuitsKeeps DEF JobDies
<1>3. ASSUME NEW r \in Manager, RemoveDeletes(r) PROVE TeamInv'
  <2>1. [job EXCEPT ![r] = Free] \in [Manager -> Job] /\ {job[r].who} \in SUBSET Email
    BY <1>0, FreeType DEF Job
  <2>2. \A q \in Manager : [job EXCEPT ![r] = Free][q] \in {job[q], Free}
    BY <1>0
  <2> QED
    BY <1>3, <2>1, <2>2, DeletesKeeps DEF RemoveDeletes
<1>4. ASSUME NEW r \in Manager, NEW e \in Email, RemoveReads(r, e) PROVE TeamInv'
  BY <1>4, SelectsKeep
<1>5. ASSUME NEW r \in Manager, NEW e \in Email, NEW as \in {"owner", "user"},
             InviteChecks(r, e, as) \/ ProvisionChecks(r, e, as)
      PROVE  TeamInv'
  BY <1>5, InviteChecksKeeps, SelectsKeep
<1>6. ASSUME NEW e \in Email, Deprovision(e) PROVE TeamInv'
  BY <1>0, <1>6, DeletesKeeps DEF Deprovision
<1>7. CASE DeleteWorkspace
  BY <1>0, <1>7, DeletesKeeps DEF DeleteWorkspace
<1> QED
  BY <1>1, <1>2, <1>3, <1>4, <1>5, <1>6, <1>7 DEF TeamNext

\* No handler gives a user a role or a step that is not one; memberships are of users.
THEOREM TeamTyped == TeamSpec => []TeamTypeOK
<1>1. TeamInv => TeamTypeOK
  BY DEF TeamInv
<1> QED
  BY <1>1, TeamStart, TeamStep, PTL DEF TeamSpec

\* For any users and any handlers that overlap: a removal about to take the last owner is
\* one whose count another owner's removal has outdated.
THEOREM LastOwnerStays == TeamSpec => []LastOwnerKept
<1>1. TeamInv => LastOwnerKept
  BY DEF TeamInv
<1> QED
  BY <1>1, TeamStart, TeamStep, PTL DEF TeamSpec

\* For any plan and any number of handlers: invitations overshoot the quota by no more
\* than the other requests under way.
THEOREM QuotaOvershootIsBounded == TeamSpec => []InvitesNearQuota
<1>1. TeamInv => InvitesNearQuota
  <2>1. Cardinality(Inviting) \in Nat /\ Cardinality(Team \ provisioned) \in Nat
    BY TeamFinite DEF Inviting, Team
  <2> QED
    BY <2>1, TeamFinite DEF TeamInv, InvitesCounted, InvitesNearQuota
<1> QED
  BY <1>1, TeamStart, TeamStep, PTL DEF TeamSpec

-----------------------------------------------------------------------------
(* Sessions. *)

SessionRow == [state : {"none", "live", "revoked"}, chain : Sid \cup {"none"}, era : 0 .. MaxBulk, late : BOOLEAN]
Request == [at : Minting \cup {"idle", "replayed", "found", "revoking"}, sid : Sid \cup {"none"},
            chain : Sid \cup {"none"}, era : 0 .. MaxBulk, late : BOOLEAN]

\* A session id that is in use.
Known(s) == s \in Sid /\ session[s].state # "none"

SessionsTyped ==
  /\ session \in [Sid -> SessionRow] /\ req \in [Handler -> Request]
  /\ expired \subseteq {s \in Sid : session[s].state # "none"}
  /\ token \in {"none", "issued", "used"} /\ era \in 0 .. MaxBulk

\* Chains are named by sessions that exist, so a new sign-in begins a chain of its own.
ChainsKnown ==
  /\ \A s \in Sid : session[s].state # "none" => Known(session[s].chain)
  /\ \A r \in Handler : req[r].at \in {"checked", "rotated"} => Known(req[r].sid) /\ Known(req[r].chain)
  /\ \A c \in signedOut : Known(c)

\* A refresh that nothing has overtaken still rests on the live session it read.
CheckedIsLive ==
  \A r \in Handler : req[r].at = "checked" /\ ~req[r].late =>
    /\ req[r].sid \in Live /\ ~session[req[r].sid].late
    /\ session[req[r].sid].chain = req[r].chain

\* Once it has revoked it, it is the only one to continue the chain.
RotatedIsLast ==
  \A r \in Handler : req[r].at = "rotated" /\ ~req[r].late =>
    /\ \A s \in Live : session[s].chain = req[r].chain => session[s].late
    /\ \A q \in Handler \ {r} : req[q].at = "rotated" /\ ~req[q].late => req[q].chain # req[r].chain

\* It mints into the current era, and into a chain nobody has signed out.
RequestsCurrent ==
  \A r \in Handler : req[r].at \in Minting /\ ~req[r].late =>
    req[r].era = era /\ (req[r].at # "verified" => req[r].chain \notin signedOut)

SessionsInv ==
  /\ SessionsTyped /\ ChainsKnown /\ CheckedIsLive /\ RotatedIsLast /\ RequestsCurrent
  /\ SignOutHolds /\ RotationKeepsOne

LEMMA QuietType == Quiet \in Request /\ Quiet.at = "idle"
  BY SessionsAssumption DEF Quiet, Request

LEMMA SessionsStart == SessionsInit => SessionsInv
<1> SUFFICES ASSUME SessionsInit PROVE SessionsInv
  OBVIOUS
<1>1. NoSession \in SessionRow /\ NoSession.state = "none"
  BY SessionsAssumption DEF NoSession, SessionRow
<1>2. \A s \in Sid : session[s].state = "none"
  BY <1>1 DEF SessionsInit
<1>3. \A r \in Handler : req[r].at = "idle"
  BY QuietType DEF SessionsInit
<1>4. SessionsTyped
  BY <1>1, QuietType, SessionsAssumption DEF SessionsInit, SessionsTyped
<1>5. ChainsKnown /\ CheckedIsLive /\ RotatedIsLast /\ RequestsCurrent
  BY <1>2, <1>3 DEF SessionsInit, ChainsKnown, CheckedIsLive, RotatedIsLast, RequestsCurrent, Minting
<1>6. SignOutHolds /\ RotationKeepsOne
  BY <1>2 DEF SignOutHolds, RotationKeepsOne, Live
<1> QED
  BY <1>4, <1>5, <1>6 DEF SessionsInv

\* What Overtake does to the requests: r takes its next step, those hit become late.
Overtakes(r, hit, next) ==
  /\ req' \in [Handler -> Request] /\ req'[r] = next
  /\ \A q \in Handler \ {r} :
       /\ req'[q].at = req[q].at /\ req'[q].sid = req[q].sid /\ req'[q].chain = req[q].chain
       /\ req'[q].era = req[q].era
       /\ req'[q].late <=> req[q].late \/ (req[q].at \in Minting /\ q \in hit)

LEMMA OvertakeEffect ==
  ASSUME SessionsTyped, NEW r \in Handler, NEW hit \in SUBSET Handler, NEW next \in Request,
         Overtake(r, LAMBDA q : q \in hit, next)
  PROVE  Overtakes(r, hit, next)
<1> DEFINE late(q) == req[q].late \/ (req[q].at \in Minting /\ q \in hit)
<1>1. req' = [q \in Handler |-> IF q = r THEN next ELSE [req[q] EXCEPT !.late = late(q)]]
  BY DEF Overtake
<1>2. \A q \in Handler : req[q] \in Request /\ late(q) \in BOOLEAN
  BY DEF SessionsTyped, Request
<1>3. \A q \in Handler : late(q) <=> req[q].late \/ (req[q].at \in Minting /\ q \in hit)
  OBVIOUS
<1> HIDE DEF late
<1>4. ASSUME NEW q \in Handler
      PROVE  /\ [req[q] EXCEPT !.late = late(q)] \in Request
             /\ [req[q] EXCEPT !.late = late(q)].at = req[q].at
             /\ [req[q] EXCEPT !.late = late(q)].sid = req[q].sid
             /\ [req[q] EXCEPT !.late = late(q)].chain = req[q].chain
             /\ [req[q] EXCEPT !.late = late(q)].era = req[q].era
             /\ [req[q] EXCEPT !.late = late(q)].late = late(q)
  BY <1>2 DEF Request
<1>5. req' \in [Handler -> Request] /\ req'[r] = next
  BY <1>1, <1>4
<1>6. \A q \in Handler \ {r} : req'[q] = [req[q] EXCEPT !.late = late(q)]
  BY <1>1
<1> QED
  BY <1>3, <1>4, <1>5, <1>6 DEF Overtakes

\* A step of one request that reads or writes no session.
LEMMA OwnStepKeeps ==
  ASSUME SessionsInv, NEW r \in Handler, NEW next \in Request,
         next.at \in {"idle", "found", "revoking", "replayed"} \/ (next.at = "verified" /\ next.era = era),
         req' = [req EXCEPT ![r] = next], token' \in {"none", "issued", "used"},
         UNCHANGED <<session, expired, era, signedOut>>
  PROVE  SessionsInv'
<1>1. req' \in [Handler -> Request] /\ req'[r] = next /\ \A q \in Handler \ {r} : req'[q] = req[q]
  BY DEF SessionsInv, SessionsTyped
<1>2. SessionsTyped'
  BY <1>1 DEF SessionsInv, SessionsTyped
<1>3. ChainsKnown' /\ CheckedIsLive' /\ RotatedIsLast'
  <2>1. next.at # "checked" /\ next.at # "rotated"
    OBVIOUS
  <2>2. Live' = Live /\ \A s : Known(s)' <=> Known(s)
    BY DEF Live, Known
  <2>3. ChainsKnown'
    BY <1>1, <2>1, <2>2 DEF SessionsInv, ChainsKnown
  <2>4. CheckedIsLive'
    BY <1>1, <2>1, <2>2 DEF SessionsInv, CheckedIsLive
  <2>5. RotatedIsLast'
    BY <1>1, <2>1, <2>2 DEF SessionsInv, RotatedIsLast
  <2> QED
    BY <2>3, <2>4, <2>5
<1>4. RequestsCurrent'
  BY <1>1 DEF SessionsInv, RequestsCurrent, Minting
<1>5. SignOutHolds' /\ RotationKeepsOne'
  BY DEF SessionsInv, SignOutHolds, RotationKeepsOne, Live
<1> QED
  BY <1>2, <1>3, <1>4, <1>5 DEF SessionsInv

LEMMA RequestSteps ==
  ASSUME SessionsInv, NEW r \in Handler,
         SignIn(r) \/ ResetFindsToken(r) \/ ResetMarksToken(r) \/ ChangePassword(r) \/ Dies(r)
  PROVE  SessionsInv'
<1>1. req[r] \in Request /\ era \in 0 .. MaxBulk /\ token \in {"none", "issued", "used"}
  BY DEF SessionsInv, SessionsTyped
<1>2. CASE SignIn(r)
  <2>1. [Quiet EXCEPT !.at = "verified", !.era = era] \in Request
    BY <1>1, QuietType DEF Request, Minting
  <2>2. /\ [Quiet EXCEPT !.at = "verified", !.era = era].at = "verified"
        /\ [Quiet EXCEPT !.at = "verified", !.era = era].era = era
    BY QuietType DEF Request
  <2> QED
    BY <1>1, <1>2, <2>1, <2>2, OwnStepKeeps DEF SignIn
<1>3. ASSUME NEW step \in {"found", "revoking"}, Goto(r, step), token' \in {"none", "issued", "used"},
             UNCHANGED <<session, expired, era, signedOut>>
      PROVE  SessionsInv'
  <2>1. [req[r] EXCEPT !.at = step] \in Request /\ [req[r] EXCEPT !.at = step].at = step
    BY <1>1 DEF Request
  <2>2. req' = [req EXCEPT ![r] = [req[r] EXCEPT !.at = step]]
    BY <1>1, <1>3 DEF Goto
  <2> QED
    BY <1>3, <2>1, <2>2, OwnStepKeeps
<1>4. CASE ResetFindsToken(r) \/ ResetMarksToken(r) \/ ChangePassword(r)
  BY <1>1, <1>3, <1>4 DEF ResetFindsToken, ResetMarksToken, ChangePassword
<1>5. CASE Dies(r)
  BY <1>1, <1>5, QuietType, OwnStepKeeps DEF Dies, Finish
<1> QED
  BY <1>2, <1>4, <1>5

\* The select of a refresh (routes/auth.ts) reads a session and what holds of it.
LEMMA RefreshChecksKeeps ==
  ASSUME SessionsInv, NEW r \in Handler, NEW s \in Sid, RefreshChecks(r, s)
  PROVE  SessionsInv'
<1> DEFINE next == [at |-> IF session[s].state = "live" THEN "checked" ELSE "replayed",
                    sid |-> s, chain |-> session[s].chain,
                    era |-> session[s].era, late |-> session[s].late]
<1>1. /\ req[r].at = "idle" /\ session[s].state # "none" /\ req' = [req EXCEPT ![r] = next]
      /\ UNCHANGED <<session, expired, token, era, signedOut>>
  BY DEF RefreshChecks
<1>2. session[s] \in SessionRow
  BY DEF SessionsInv, SessionsTyped
<1>3. /\ next \in Request /\ next.sid = s /\ next.chain = session[s].chain /\ next.era = session[s].era
      /\ next.late = session[s].late /\ next.at \in {"checked", "replayed"}
      /\ next.at = "checked" => s \in Live
  BY <1>2 DEF SessionRow, Request, Minting, Live
<1> HIDE DEF next
<1>4. CASE next.at = "replayed"
  BY <1>1, <1>3, <1>4, OwnStepKeeps DEF SessionsInv, SessionsTyped
<1>5. CASE next.at = "checked"
  <2>1. req' \in [Handler -> Request] /\ req'[r] = next /\ \A q \in Handler \ {r} : req'[q] = req[q]
    BY <1>1, <1>3 DEF SessionsInv, SessionsTyped
  <2>2. Live' = Live /\ \A t : Known(t)' <=> Known(t)
    BY <1>1 DEF Live, Known
  <2>3. SessionsTyped'
    BY <1>1, <2>1 DEF SessionsInv, SessionsTyped
  <2>4. ChainsKnown'
    <3>1. Known(s) /\ Known(session[s].chain)
      BY <1>1 DEF SessionsInv, ChainsKnown, Known
    <3> QED
      BY <1>1, <1>3, <2>1, <2>2, <3>1 DEF SessionsInv, ChainsKnown
  <2>5. CheckedIsLive'
    BY <1>1, <1>3, <1>5, <2>1, <2>2 DEF SessionsInv, CheckedIsLive
  <2>6. RotatedIsLast'
    BY <1>1, <1>5, <2>1, <2>2 DEF SessionsInv, RotatedIsLast
  <2>7. RequestsCurrent'
    BY <1>1, <1>3, <1>5, <2>1 DEF SessionsInv, RequestsCurrent, SignOutHolds
  <2>8. SignOutHolds' /\ RotationKeepsOne'
    BY <1>1, <2>2 DEF SessionsInv, SignOutHolds, RotationKeepsOne
  <2> QED
    BY <2>3, <2>4, <2>5, <2>6, <2>7, <2>8 DEF SessionsInv
<1> QED
  BY <1>3, <1>4, <1>5

\* A session is revoked by its id, and the requests that rest on it become late.  The one
\* that rotates it goes on alone.
LEMMA RefreshRotatesKeeps ==
  ASSUME SessionsInv, NEW r \in Handler, RefreshRotates(r)
  PROVE  SessionsInv'
<1> DEFINE s == req[r].sid
           hit == {q \in Handler : req[q].sid = s}
           next == [req[r] EXCEPT !.at = "rotated"]
           row == [session[s] EXCEPT !.state = "revoked"]
<1>1. /\ req[r].at = "checked" /\ session' = [session EXCEPT ![s] = row]
      /\ UNCHANGED <<expired, token, era, signedOut>>
      /\ Overtake(r, LAMBDA q : req[q].sid = s, next)
  BY DEF RefreshRotates
<1>2. /\ next \in Request /\ next.at = "rotated" /\ next.sid = s /\ next.chain = req[r].chain
      /\ next.era = req[r].era /\ next.late = req[r].late
  BY DEF SessionsInv, SessionsTyped, Request, Minting
<1> HIDE DEF next
<1>3. Overtakes(r, hit, next)
  <2>1. Overtake(r, LAMBDA q : q \in hit, next)
    BY <1>1 DEF Overtake
  <2> QED
    BY <1>2, <2>1, OvertakeEffect DEF SessionsInv
<1>4. Known(s) /\ Known(req[r].chain)
  BY <1>1 DEF SessionsInv, ChainsKnown
<1>5. /\ session' \in [Sid -> SessionRow] /\ session'[s].state = "revoked"
      /\ \A t \in Sid : /\ session'[t].chain = session[t].chain /\ session'[t].era = session[t].era
                        /\ session'[t].late = session[t].late
                        /\ t # s => session'[t] = session[t]
  BY <1>1, <1>4 DEF SessionsInv, SessionsTyped, SessionRow, Known
<1>6. Live' = Live \ {s} /\ \A t : Known(t)' <=> Known(t)
  BY <1>4, <1>5 DEF Live, Known
<1>7. SessionsTyped'
  BY <1>1, <1>3, <1>5, <1>6 DEF SessionsInv, SessionsTyped, Overtakes, Known
<1>8. ChainsKnown'
  BY <1>1, <1>2, <1>3, <1>4, <1>5, <1>6 DEF SessionsInv, ChainsKnown, Overtakes, Known
<1>9. CheckedIsLive'
  <2> SUFFICES ASSUME NEW q \in Handler, req'[q].at = "checked", ~req'[q].late
               PROVE  /\ req'[q].sid \in Live' /\ ~session'[req'[q].sid].late
                      /\ session'[req'[q].sid].chain = req'[q].chain
    BY DEF CheckedIsLive
  <2>1. /\ q # r /\ req[q].at = "checked" /\ ~req[q].late /\ req[q].sid # s
        /\ req'[q].sid = req[q].sid /\ req'[q].chain = req[q].chain
    BY <1>2, <1>3 DEF Overtakes, Minting
  <2>2. req[q].sid \in Sid
    BY <2>1 DEF SessionsInv, ChainsKnown, Known
  <2> QED
    BY <1>5, <1>6, <2>1, <2>2 DEF SessionsInv, CheckedIsLive
<1>10. RotatedIsLast'
  <2> SUFFICES ASSUME NEW q \in Handler, req'[q].at = "rotated", ~req'[q].late
               PROVE  /\ \A t \in Live' : session'[t].chain = req'[q].chain => session'[t].late
                      /\ \A p \in Handler \ {q} : req'[p].at = "rotated" /\ ~req'[p].late => req'[p].chain # req'[q].chain
    BY DEF RotatedIsLast
  <2>1. \A p \in Handler \ {r} : req'[p].at = "rotated" /\ ~req'[p].late =>
          req[p].at = "rotated" /\ ~req[p].late /\ req'[p].chain = req[p].chain
    BY <1>3 DEF Overtakes
  <2>2. Live' \subseteq Live /\ Live' \subseteq Sid
    BY <1>6 DEF Live
  <2>3. ASSUME ~req[r].late
        PROVE  /\ s \in Live /\ ~session[s].late /\ session[s].chain = req[r].chain
               /\ \A t \in Live' : session[t].chain = req[r].chain => session[t].late
               /\ \A p \in Handler \ {r} : req'[p].at = "rotated" /\ ~req'[p].late => req'[p].chain # req[r].chain
    <3>1. s \in Live /\ ~session[s].late /\ session[s].chain = req[r].chain
      BY <1>1, <2>3 DEF SessionsInv, CheckedIsLive
    <3>2. \A t \in Live' : session[t].chain = req[r].chain => session[t].late
      BY <1>6, <3>1 DEF SessionsInv, RotationKeepsOne
    <3>3. \A p \in Handler \ {r} : req'[p].at = "rotated" /\ ~req'[p].late => req'[p].chain # req[r].chain
      BY <2>1, <3>1 DEF SessionsInv, RotatedIsLast
    <3> QED
      BY <3>1, <3>2, <3>3
  <2>4. req'[r].late = req[r].late /\ req'[r].chain = req[r].chain
    BY <1>2, <1>3 DEF Overtakes
  <2>5. CASE q = r
    BY <1>5, <2>2, <2>3, <2>4, <2>5
  <2>6. CASE q # r
    <3>1. req[q].at = "rotated" /\ ~req[q].late /\ req'[q].chain = req[q].chain
      BY <2>1, <2>6
    <3>2. \A t \in Live' : session'[t].chain = req'[q].chain => session'[t].late
      BY <1>5, <2>2, <3>1 DEF SessionsInv, RotatedIsLast
    <3>3. \A p \in Handler \ {q, r} : req'[p].at = "rotated" /\ ~req'[p].late => req'[p].chain # req'[q].chain
      BY <2>1, <3>1 DEF SessionsInv, RotatedIsLast
    <3>4. ~req'[r].late => req'[r].chain # req'[q].chain
      BY <2>3, <2>4, <2>6
    <3> QED
      BY <3>2, <3>3, <3>4
  <2> QED
    BY <2>5, <2>6
<1>11. RequestsCurrent'
  <2> SUFFICES ASSUME NEW q \in Handler, req'[q].at \in Minting, ~req'[q].late
               PROVE  req'[q].era = era /\ (req'[q].at # "verified" => req'[q].chain \notin signedOut)
    BY <1>1 DEF RequestsCurrent
  <2>1. CASE q = r
    BY <1>1, <1>2, <1>3, <2>1 DEF SessionsInv, RequestsCurrent, Overtakes, Minting
  <2>2. CASE q # r
    BY <1>3, <2>2 DEF SessionsInv, RequestsCurrent, Overtakes
  <2> QED
    BY <2>1, <2>2
<1>12. SignOutHolds' /\ RotationKeepsOne'
  <2>1. Live' \subseteq Live /\ Live' \subseteq Sid
    BY <1>6 DEF Live
  <2> QED
    BY <1>1, <1>5, <2>1 DEF SessionsInv, SignOutHolds, RotationKeepsOne
<1> QED
  BY <1>7, <1>8, <1>9, <1>10, <1>11, <1>12 DEF SessionsInv

\* recordSession: a new sign-in begins a chain, a rotation continues one that has no
\* other live session.
LEMMA RecordSessionKeeps ==
  ASSUME SessionsInv, NEW r \in Handler, NEW s \in Sid, RecordSession(r, s)
  PROVE  SessionsInv'
<1> DEFINE chain == IF req[r].at = "verified" THEN s ELSE req[r].chain
           row == [state |-> "live", chain |-> chain, era |-> req[r].era, late |-> req[r].late]
<1>1. /\ req[r].at \in {"verified", "rotated"} /\ session[s].state = "none"
      /\ session' = [session EXCEPT ![s] = row] /\ req' = [req EXCEPT ![r] = Quiet]
      /\ UNCHANGED <<expired, token, era, signedOut>>
  BY DEF RecordSession, Finish
<1>2. req[r] \in Request /\ (req[r].at = "rotated" => Known(req[r].chain))
  BY DEF SessionsInv, SessionsTyped, ChainsKnown
<1>3. chain \in Sid /\ (req[r].at = "rotated" => chain # s /\ Known(chain)) /\ (req[r].at = "verified" => chain = s)
  BY <1>1, <1>2 DEF Known
<1>4. /\ row \in SessionRow /\ row.state = "live" /\ row.chain = chain /\ row.era = req[r].era
      /\ row.late = req[r].late
  BY <1>2, <1>3 DEF SessionRow, Request
<1> HIDE DEF row
<1>5. /\ session' \in [Sid -> SessionRow] /\ session'[s] = row /\ \A t \in Sid \ {s} : session'[t] = session[t]
      /\ req' \in [Handler -> Request] /\ req'[r].at = "idle" /\ \A q \in Handler \ {r} : req'[q] = req[q]
  BY <1>1, <1>4, QuietType DEF SessionsInv, SessionsTyped
<1>6. Live' = Live \cup {s} /\ s \notin Live /\ (\A t : Known(t) => Known(t)' /\ t # s) /\ Known(s)'
  BY <1>1, <1>4, <1>5 DEF Live, Known
<1>7. SessionsTyped'
  BY <1>1, <1>5, <1>6 DEF SessionsInv, SessionsTyped, Known
<1>8. ChainsKnown'
  <2>1. \A t : Known(t) => t \in Sid /\ session'[t].state # "none"
    BY <1>6 DEF Known
  <2>2. s \in Sid /\ session'[s].state # "none"
    BY <1>6 DEF Known
  <2>3. ASSUME NEW t \in Sid, session'[t].state # "none"
        PROVE  session'[t].chain \in Sid /\ session'[session'[t].chain].state # "none"
    <3>1. CASE t = s
      <4>1. session'[t].chain = chain
        BY <1>4, <1>5, <3>1
      <4> QED
        BY <1>1, <1>3, <2>1, <2>2, <4>1
    <3>2. CASE t # s
      <4>1. session'[t] = session[t] /\ Known(session[t].chain)
        BY <1>5, <2>3, <3>2 DEF SessionsInv, ChainsKnown
      <4> QED
        BY <2>1, <4>1
    <3> QED
      BY <3>1, <3>2
  <2>4. ASSUME NEW q \in Handler, req'[q].at \in {"checked", "rotated"}
        PROVE  /\ req'[q].sid \in Sid /\ session'[req'[q].sid].state # "none"
               /\ req'[q].chain \in Sid /\ session'[req'[q].chain].state # "none"
    <3>1. req'[q] = req[q] /\ Known(req[q].sid) /\ Known(req[q].chain)
      BY <1>5, <2>4 DEF SessionsInv, ChainsKnown
    <3> QED
      BY <2>1, <3>1
  <2>5. \A c \in signedOut' : c \in Sid /\ session'[c].state # "none"
    BY <1>1, <2>1 DEF SessionsInv, ChainsKnown
  <2> QED
    BY <2>3, <2>4, <2>5 DEF ChainsKnown, Known
<1>9. CheckedIsLive'
  <2>1. \A t \in Live : session'[t] = session[t]
    BY <1>5, <1>6 DEF Live
  <2> QED
    BY <1>5, <1>6, <2>1 DEF SessionsInv, CheckedIsLive
<1>10. RotatedIsLast'
  <2> SUFFICES ASSUME NEW q \in Handler \ {r}, req[q].at = "rotated", ~req[q].late
               PROVE  \A t \in Live' : session'[t].chain = req[q].chain => session'[t].late
    BY <1>5 DEF SessionsInv, RotatedIsLast
  <2>1. \A t \in Live : session'[t].chain = req[q].chain => session'[t].late
    BY <1>5, <1>6 DEF SessionsInv, RotatedIsLast, Live
  <2>2. session'[s].chain = req[q].chain => session'[s].late
    <3>1. CASE req[r].at = "verified"
      <4>1. req[q].chain # s
        BY <1>6 DEF SessionsInv, ChainsKnown
      <4> QED
        BY <1>3, <1>4, <1>5, <3>1, <4>1
    <3>2. CASE req[r].at = "rotated"
      <4>1. req[q].chain = req[r].chain => req[r].late
        BY <3>2 DEF SessionsInv, RotatedIsLast
      <4>2. chain = req[r].chain
        BY <3>2
      <4> QED
        BY <1>4, <1>5, <4>1, <4>2
    <3> QED
      BY <1>1, <3>1, <3>2
  <2> QED
    BY <1>6, <2>1, <2>2
<1>11. RequestsCurrent'
  BY <1>1, <1>5 DEF SessionsInv, RequestsCurrent, Minting
<1>12. session'[s].late \/ (session'[s].era = era /\ session'[s].chain \notin signedOut)
  <2>1. req[r].late \/ (req[r].era = era /\ (req[r].at # "verified" => req[r].chain \notin signedOut))
    BY <1>1 DEF SessionsInv, RequestsCurrent, Minting
  <2>2. s \notin signedOut
    BY <1>6 DEF SessionsInv, ChainsKnown
  <2>3. chain \notin signedOut \/ req[r].late
    BY <1>1, <1>3, <2>1, <2>2
  <2> QED
    BY <1>4, <1>5, <2>1, <2>3
<1>13. SignOutHolds'
  BY <1>1, <1>5, <1>6, <1>12 DEF SessionsInv, SignOutHolds, Live
<1>14. RotationKeepsOne'
  <2>1. ASSUME NEW t \in Live, session[t].chain = chain PROVE session[t].late \/ session'[s].late
    <3>1. CASE req[r].at = "verified"
      BY <1>3, <1>6, <2>1, <3>1 DEF SessionsInv, ChainsKnown, Live
    <3>2. CASE req[r].at = "rotated"
      BY <1>4, <1>5, <2>1, <3>2 DEF SessionsInv, RotatedIsLast
    <3> QED
      BY <1>1, <3>1, <3>2
  <2>2. \A t \in Live : session'[t] = session[t]
    BY <1>5, <1>6 DEF Live
  <2> QED
    BY <1>4, <1>5, <1>6, <2>1, <2>2 DEF SessionsInv, RotationKeepsOne
<1> QED
  BY <1>7, <1>8, <1>9, <1>10, <1>11, <1>13, <1>14 DEF SessionsInv

\* A logout of the live session of a chain: any other session of the chain is late, and
\* so is any request that would continue it.
LEMMA LogoutKeeps ==
  ASSUME SessionsInv, NEW r \in Handler, NEW s \in Sid, Logout(r, s)
  PROVE  SessionsInv'
<1> DEFINE hit == {q \in Handler : req[q].sid = s}
           row == [session[s] EXCEPT !.state = "revoked"]
           ends == s \in Live /\ ~session[s].late
<1>1. /\ req[r].at = "idle" /\ session[s].state # "none" /\ session' = [session EXCEPT ![s] = row]
      /\ signedOut' = IF ends THEN signedOut \cup {session[s].chain} ELSE signedOut
      /\ UNCHANGED <<expired, token, era>>
      /\ Overtake(r, LAMBDA q : req[q].sid = s, Quiet)
  BY DEF Logout
<1>2. Overtakes(r, hit, Quiet)
  <2>1. Overtake(r, LAMBDA q : q \in hit, Quiet)
    BY <1>1 DEF Overtake
  <2> QED
    BY <2>1, QuietType, OvertakeEffect DEF SessionsInv
<1>3. /\ session' \in [Sid -> SessionRow] /\ session'[s].state = "revoked"
      /\ \A t \in Sid : /\ session'[t].chain = session[t].chain /\ session'[t].era = session[t].era
                        /\ session'[t].late = session[t].late
                        /\ t # s => session'[t] = session[t]
  BY <1>1 DEF SessionsInv, SessionsTyped, SessionRow
<1>4. Live' = Live \ {s} /\ Live \subseteq Sid /\ (\A t : Known(t)' <=> Known(t)) /\ Known(session[s].chain)
  BY <1>1, <1>3 DEF Live, Known, SessionsInv, ChainsKnown
<1>5. \A q \in Handler : req'[q].at \in Minting /\ ~req'[q].late =>
        /\ q # r /\ req[q].at = req'[q].at /\ ~req[q].late /\ req[q].sid # s
        /\ req'[q].sid = req[q].sid /\ req'[q].chain = req[q].chain /\ req'[q].era = req[q].era
  BY <1>2, QuietType DEF Overtakes, Minting
<1>6. SessionsTyped'
  BY <1>1, <1>2, <1>3, <1>4 DEF SessionsInv, SessionsTyped, Overtakes, Known
<1>7. ChainsKnown'
  <2>1. \A q \in Handler : req'[q].at \in {"checked", "rotated"} => Known(req'[q].sid) /\ Known(req'[q].chain)
    BY <1>2, QuietType DEF SessionsInv, ChainsKnown, Overtakes
  <2>2. \A c \in signedOut' : Known(c)
    BY <1>1, <1>4 DEF SessionsInv, ChainsKnown
  <2>3. \A t \in Sid : session'[t].state # "none" => Known(session'[t].chain)
    BY <1>1, <1>3 DEF SessionsInv, ChainsKnown
  <2> QED
    BY <1>4, <2>1, <2>2, <2>3 DEF ChainsKnown
<1>8. CheckedIsLive'
  <2> SUFFICES ASSUME NEW q \in Handler, req'[q].at = "checked", ~req'[q].late
               PROVE  /\ req'[q].sid \in Live' /\ ~session'[req'[q].sid].late
                      /\ session'[req'[q].sid].chain = req'[q].chain
    BY DEF CheckedIsLive
  <2>1. /\ req[q].at = "checked" /\ ~req[q].late /\ req[q].sid # s
        /\ req'[q].sid = req[q].sid /\ req'[q].chain = req[q].chain
    BY <1>5 DEF Minting
  <2> QED
    BY <1>3, <1>4, <2>1 DEF SessionsInv, CheckedIsLive
<1>9. RotatedIsLast'
  <2>1. \A q \in Handler : req'[q].at = "rotated" /\ ~req'[q].late =>
          req[q].at = "rotated" /\ ~req[q].late /\ req'[q].chain = req[q].chain
    BY <1>5 DEF Minting
  <2>2. \A t \in Live' : t \in Live /\ session'[t] = session[t]
    BY <1>3, <1>4
  <2> QED
    BY <2>1, <2>2 DEF SessionsInv, RotatedIsLast
<1>10. RequestsCurrent'
  <2> SUFFICES ASSUME NEW q \in Handler, req'[q].at \in Minting, ~req'[q].late
               PROVE  req'[q].era = era /\ (req'[q].at # "verified" => req'[q].chain \notin signedOut')
    BY <1>1 DEF RequestsCurrent
  <2>1. /\ req[q].at = req'[q].at /\ ~req[q].late /\ req[q].sid # s
        /\ req'[q].sid = req[q].sid /\ req'[q].chain = req[q].chain /\ req'[q].era = req[q].era
    BY <1>5
  <2>2. req[q].era = era /\ (req[q].at # "verified" => req[q].chain \notin signedOut)
    BY <2>1 DEF SessionsInv, RequestsCurrent
  <2>3. ASSUME ends, req[q].at # "verified" PROVE req[q].chain # session[s].chain
    <3>1. CASE req[q].at = "checked"
      BY <2>1, <2>3, <3>1 DEF SessionsInv, CheckedIsLive, RotationKeepsOne
    <3>2. CASE req[q].at = "rotated"
      BY <2>1, <2>3, <3>2 DEF SessionsInv, RotatedIsLast
    <3> QED
      BY <2>1, <2>3, <3>1, <3>2 DEF Minting
  <2> QED
    BY <1>1, <2>1, <2>2, <2>3
<1>11. SignOutHolds'
  <2> SUFFICES ASSUME NEW t \in Live \ {s}, ~session[t].late
               PROVE  session[t].era = era /\ session[t].chain \notin signedOut'
    BY <1>1, <1>3, <1>4 DEF SignOutHolds
  <2>1. session[t].era = era /\ session[t].chain \notin signedOut
    BY DEF SessionsInv, SignOutHolds
  <2>2. ends => session[t].chain # session[s].chain
    BY DEF SessionsInv, RotationKeepsOne
  <2> QED
    BY <1>1, <2>1, <2>2
<1>12. RotationKeepsOne'
  BY <1>3, <1>4 DEF SessionsInv, RotationKeepsOne
<1> QED
  BY <1>6, <1>7, <1>8, <1>9, <1>10, <1>11, <1>12 DEF SessionsInv

\* A revocation of all sessions overtakes every request that would mint one.
LEMMA RevokeAllKeeps ==
  ASSUME SessionsInv, NEW r \in Handler, RevokeAll(r)
  PROVE  SessionsInv'
<1>1. /\ era < MaxBulk /\ era' = era + 1 /\ UNCHANGED <<expired, token, signedOut>>
      /\ session' = [s \in Sid |-> IF s \in Live THEN [session[s] EXCEPT !.state = "revoked"] ELSE session[s]]
      /\ Overtake(r, LAMBDA q : TRUE, Quiet)
  BY DEF RevokeAll
<1>2. Overtakes(r, Handler, Quiet)
  <2>1. Overtake(r, LAMBDA q : q \in Handler, Quiet)
    BY <1>1 DEF Overtake
  <2> QED
    BY <2>1, QuietType, OvertakeEffect DEF SessionsInv
<1>3. ASSUME NEW s \in Sid
      PROVE  /\ session'[s] \in SessionRow /\ session'[s].state # "live"
             /\ session'[s].state = "none" <=> session[s].state = "none"
             /\ session'[s].chain = session[s].chain
  <2>1. session[s] \in SessionRow
    BY DEF SessionsInv, SessionsTyped
  <2>2. CASE s \in Live
    BY <1>1, <2>1, <2>2 DEF SessionRow, Live
  <2>3. CASE s \notin Live
    BY <1>1, <2>1, <2>3 DEF SessionRow, Live
  <2> QED
    BY <2>2, <2>3
<1>4. Live' = {} /\ session' \in [Sid -> SessionRow] /\ \A t : Known(t)' <=> Known(t)
  BY <1>1, <1>3 DEF Live, Known
<1>5. \A q \in Handler : req'[q].at \in Minting => req'[q].late
  BY <1>2, QuietType DEF Overtakes, Minting
<1>6. SessionsTyped'
  <2>1. era' \in 0 .. MaxBulk
    BY <1>1, SessionsAssumption DEF SessionsInv, SessionsTyped
  <2> QED
    BY <1>1, <1>2, <1>3, <1>4, <2>1 DEF SessionsInv, SessionsTyped, Overtakes
<1>7. ChainsKnown'
  <2>1. \A q \in Handler : req'[q].at \in {"checked", "rotated"} => Known(req'[q].sid) /\ Known(req'[q].chain)
    BY <1>2, QuietType DEF SessionsInv, ChainsKnown, Overtakes
  <2>2. \A t \in Sid : session'[t].state # "none" => Known(session'[t].chain)
    BY <1>3 DEF SessionsInv, ChainsKnown
  <2>3. \A c \in signedOut' : Known(c)
    BY <1>1 DEF SessionsInv, ChainsKnown
  <2> QED
    BY <1>4, <2>1, <2>2, <2>3 DEF ChainsKnown
<1>8. CheckedIsLive' /\ RotatedIsLast' /\ RequestsCurrent'
  BY <1>5 DEF CheckedIsLive, RotatedIsLast, RequestsCurrent, Minting
<1>9. SignOutHolds' /\ RotationKeepsOne'
  BY <1>4 DEF SignOutHolds, RotationKeepsOne
<1> QED
  BY <1>6, <1>7, <1>8, <1>9 DEF SessionsInv

\* Tokens and expiry do not bear on which session is live.
LEMMA TableKept ==
  ASSUME SessionsInv, token' \in {"none", "issued", "used"},
         expired' \subseteq {s \in Sid : session[s].state # "none"},
         UNCHANGED <<session, req, era, signedOut>>
  PROVE  SessionsInv'
<1>1. Live' = Live /\ \A t : Known(t)' <=> Known(t)
  BY DEF Live, Known
<1> QED
  BY <1>1 DEF SessionsInv, SessionsTyped, ChainsKnown, CheckedIsLive, RotatedIsLast, RequestsCurrent,
              SignOutHolds, RotationKeepsOne

LEMMA SessionsStep == SessionsInv /\ [SessionsNext]_sessionsVars => SessionsInv'
<1> SUFFICES ASSUME SessionsInv, [SessionsNext]_sessionsVars PROVE SessionsInv'
  OBVIOUS
<1>1. CASE UNCHANGED sessionsVars
  BY <1>1, TableKept DEF sessionsVars, SessionsInv, SessionsTyped
<1>2. CASE ForgotPassword
  BY <1>2, TableKept DEF ForgotPassword, SessionsInv, SessionsTyped
<1>3. ASSUME NEW s \in Sid, Expire(s) PROVE SessionsInv'
  BY <1>3, TableKept DEF Expire, SessionsInv, SessionsTyped
<1>4. ASSUME NEW r \in Handler,
             SignIn(r) \/ RefreshRotates(r) \/ ResetFindsToken(r) \/ ResetMarksToken(r)
             \/ ChangePassword(r) \/ RevokeAll(r) \/ Dies(r)
      PROVE  SessionsInv'
  BY <1>4, RequestSteps, RefreshRotatesKeeps, RevokeAllKeeps
<1>5. ASSUME NEW r \in Handler, NEW s \in Sid, RefreshChecks(r, s) \/ RecordSession(r, s) \/ Logout(r, s)
      PROVE  SessionsInv'
  BY <1>5, RefreshChecksKeeps, RecordSessionKeeps, LogoutKeeps
<1> QED
  BY <1>1, <1>2, <1>3, <1>4, <1>5 DEF SessionsNext

\* Every row of the sessions table belongs to a chain whose first session exists.
THEOREM SessionsAreTyped == SessionsSpec => []SessionsTypeOK
<1>1. SessionsInv => SessionsTypeOK
  BY DEF SessionsInv, SessionsTyped, ChainsKnown, Known, SessionsTypeOK, SessionRow, Request
<1> QED
  BY <1>1, SessionsStart, SessionsStep, PTL DEF SessionsSpec

\* For any number of sessions and requests: what lives on after a logout, a replay, a
\* password change or a sign-out everywhere was minted by a request under way at that
\* moment, or descends from such a session.
THEOREM SignOutIsKept == SessionsSpec => []SignOutHolds
<1>1. SessionsInv => SignOutHolds
  BY DEF SessionsInv
<1> QED
  BY <1>1, SessionsStart, SessionsStep, PTL DEF SessionsSpec

\* A sign-in has one live session, unless two refreshes of one session overlapped.
THEOREM RotationLeavesOne == SessionsSpec => []RotationKeepsOne
<1>1. SessionsInv => RotationKeepsOne
  BY DEF SessionsInv
<1> QED
  BY <1>1, SessionsStart, SessionsStep, PTL DEF SessionsSpec

-----------------------------------------------------------------------------
(* Induction over a set of numbers, and what it says of the scan. *)

LEMMA Induction ==
  ASSUME NEW X, 0 \in X, \A n \in Nat : n \in X => n + 1 \in X
  PROVE  Nat \subseteq X
<1> DEFINE R == OpToRel(<, Nat)
           T == Nat \ X
<1>1. IsWellFoundedOn(R, Nat)
  BY NatLessThanWellFounded
<1>2. \A n, m \in Nat : <<m, n>> \in R <=> m < n
  BY DEF OpToRel
<1>3. CASE T # {}
  <2> HIDE DEF R
  <2>1. PICK n \in T : \A m \in T : <<m, n>> \notin R
    BY <1>1, <1>3, WFMin
  <2>2. n \in Nat \ {0} /\ n - 1 \in Nat /\ n - 1 < n /\ n - 1 + 1 = n
    BY <2>1
  <2>3. n - 1 \notin X
    BY <2>1, <2>2
  <2> QED
    BY <1>2, <2>1, <2>2, <2>3
<1> QED
  BY <1>3

LEMMA HistoryBounds ==
  /\ Window \in Nat \ {0} /\ Day \in Nat \ {0} /\ historyDays \in Nat \ {0}
  /\ maxGap \in Nat \ {0} /\ stopMin \in Nat \ {0} /\ Horizon \in Nat /\ MaxHistoryFaults \in Nat
  BY HistoryAssumption

\* What the scan has before a slot, from what it had before the slot ahead of it.
Before(scan, times, t) ==
  IF t = 0 THEN NoTrip({}) ELSE IF t - 1 \in times THEN Advance(scan[t - 1], t - 1) ELSE scan[t - 1]

\* There is a function that is defined as scanOf is, so scanOf is one.
LEMMA ScanIsDefined ==
  ASSUME NEW times
  PROVE  \A t \in 0 .. Horizon + 1 : scanOf(times)[t] = Before(scanOf(times), times, t)
<1> DEFINE Made(g, t) == IF t = 0 THEN NoTrip({}) ELSE IF t - 1 \in times THEN Advance(g[t - 1], t - 1) ELSE g[t - 1]
           X == {n \in Nat : \E g : \A t \in 0 .. n : g[t] = Made(g, t)}
<1>1. 0 \in X
  <2> DEFINE g == [t \in 0 .. 0 |-> NoTrip({})]
  <2>1. \A t \in 0 .. 0 : g[t] = Made(g, t)
    OBVIOUS
  <2> QED
    BY <2>1
<1>2. ASSUME NEW n \in Nat, n \in X PROVE n + 1 \in X
  <2>1. PICK g : \A t \in 0 .. n : g[t] = Made(g, t)
    BY <1>2
  <2> DEFINE h == [t \in 0 .. n + 1 |-> Made(g, t)]
  <2>2. \A t \in 0 .. n : h[t] = g[t]
    BY <2>1
  <2>3. ASSUME NEW t \in 0 .. n + 1 PROVE h[t] = Made(h, t)
    <3>1. CASE t = 0
      BY <3>1
    <3>2. CASE t # 0
      <4>1. t - 1 \in 0 .. n
        BY <3>2
      <4>2. h[t - 1] = g[t - 1]
        BY <2>2, <4>1
      <4> QED
        BY <4>2, <3>2
    <3> QED
      BY <3>1, <3>2
  <2> HIDE DEF h
  <2> QED
    BY <2>3
<1>3. Horizon + 1 \in X
  BY <1>1, <1>2, HistoryBounds, Induction
<1>4. PICK g : \A t \in 0 .. Horizon + 1 : g[t] = Made(g, t)
  BY <1>3
<1> DEFINE f == [t \in 0 .. Horizon + 1 |-> g[t]]
<1>5. f = [t \in 0 .. Horizon + 1 |-> Made(f, t)]
  <2>1. \A t \in 0 .. Horizon + 1 : t # 0 => t - 1 \in 0 .. Horizon + 1
    BY HistoryBounds
  <2> QED
    BY <1>4, <2>1
<1> HIDE DEF f
<1>6. scanOf(times) = CHOOSE scan : scan = [t \in 0 .. Horizon + 1 |-> Made(scan, t)]
  BY DEF scanOf
<1>7. scanOf(times) = [t \in 0 .. Horizon + 1 |-> Made(scanOf(times), t)]
  BY <1>5, <1>6
<1> QED
  BY <1>7 DEF Before

-----------------------------------------------------------------------------
(* detectTrips *)

\* A trip of two points at least, no more than there are slots from its start to its end.
Trip == {x \in [from : Slot, to : Slot, points : Nat] : x.from < x.to /\ x.points \in 2 .. x.to - x.from + 1}

Climbs(s) == \A i, j \in DOMAIN s : i < j => s[i] < s[j]

\* Trips that cover different times.
Apart(S) == \A x, y \in S : (x.from < y.from => x.to < y.from) /\ (x.from = y.from => x = y)

\* Trips found in the positions at these times, before slot t.
FoundBy(found, times, t) ==
  /\ found \subseteq Trip /\ Apart(found)
  /\ \A x \in found : x.from \in times /\ x.from < x.to /\ x.to < t

\* Points of one trip, after what was found.
Follows(points, found, times, t) ==
  /\ points \in Seq(Slot) /\ Climbs(points)
  /\ \A i \in DOMAIN points : points[i] \in times /\ points[i] < t /\ \A x \in found : x.to < points[i]

ScanSound(scan, times, t) ==
  /\ scan \in [found : SUBSET Trip, current : Seq(Slot), stop : Nat]
  /\ scan.stop <= Len(scan.current)
  /\ FoundBy(scan.found, times, t) /\ Follows(scan.current, scan.found, times, t)

\* Points that climb are no more than the slots they span.
LEMMA ClimbsFar ==
  ASSUME NEW points \in Seq(Slot), Climbs(points), Len(points) >= 1
  PROVE  points[Len(points)] \in Nat /\ points[1] \in Nat /\ Len(points) <= points[Len(points)] - points[1] + 1
<1> DEFINE X == {n \in Nat : n + 1 \in DOMAIN points => points[n + 1] >= points[1] + n}
<1>1. Len(points) \in Nat /\ DOMAIN points = 1 .. Len(points) /\ \A i \in DOMAIN points : points[i] \in Nat
  BY LenProperties, ElementOfSeq, HistoryBounds DEF Slot
<1>2. 1 \in DOMAIN points
  BY <1>1
<1>3. 0 \in X
  BY <1>1, <1>2
<1>4. ASSUME NEW n \in Nat, n \in X PROVE n + 1 \in X
  <2> SUFFICES ASSUME n + 1 + 1 \in DOMAIN points PROVE points[n + 1 + 1] >= points[1] + (n + 1)
    OBVIOUS
  <2>1. n + 1 \in DOMAIN points /\ points[n + 1] >= points[1] + n
    BY <1>1, <1>4
  <2>2. points[n + 1] < points[n + 1 + 1]
    BY <2>1 DEF Climbs
  <2> QED
    BY <1>1, <1>2, <2>1, <2>2
<1> HIDE DEF X
<1>5. Len(points) - 1 \in X
  BY <1>1, <1>3, <1>4, Induction
<1>6. Len(points) - 1 + 1 = Len(points) /\ Len(points) \in DOMAIN points
  BY <1>1
<1> QED
  BY <1>1, <1>2, <1>5, <1>6 DEF X

\* finalize: the points of a trip make one that lies after the others.
LEMMA FinalizedIsFound ==
  ASSUME NEW times, NEW t \in Nat, NEW found, NEW points,
         FoundBy(found, times, t), Follows(points, found, times, t)
  PROVE  FoundBy(Finalized(found, points), times, t)
<1> DEFINE trip == [from |-> points[1], to |-> Last(points), points |-> Len(points)]
<1>1. CASE Finalized(found, points) = found
  BY <1>1
<1>2. CASE Len(points) >= 2 /\ Finalized(found, points) = found \cup {trip}
  <2>1. /\ points \in Seq(Slot) /\ Len(points) \in Nat /\ DOMAIN points = 1 .. Len(points) /\ Last(points) = points[Len(points)]
        /\ 1 \in DOMAIN points /\ Len(points) \in DOMAIN points
    BY <1>2, LenProperties DEF Follows, Last
  <2>2. points[1] \in Slot /\ Last(points) \in Slot /\ points[1] < Last(points)
    BY <1>2, <2>1, ElementOfSeq DEF Follows, Climbs
  <2>3. trip \in Trip /\ trip.from = points[1] /\ trip.to = Last(points)
    <3>1. Len(points) \in 2 .. Last(points) - points[1] + 1
      BY <1>2, <2>1, ClimbsFar DEF Follows
    <3> QED
      BY <2>1, <2>2, <3>1 DEF Trip
  <2> HIDE DEF trip
  <2>4. trip.from \in times /\ trip.from < trip.to /\ trip.to < t /\ \A x \in found : x.to < trip.from
    BY <2>1, <2>2, <2>3 DEF Follows
  <2>5. \A x \in found : x.from \in Nat /\ x.to \in Nat /\ x.from < x.to
    BY HistoryBounds DEF FoundBy, Trip, Slot
  <2>6. trip.from \in Nat /\ trip.to \in Nat
    BY <2>3, HistoryBounds DEF Trip, Slot
  <2>7. Apart(found \cup {trip})
    BY <2>4, <2>5, <2>6 DEF FoundBy, Apart
  <2> QED
    BY <1>2, <2>3, <2>4, <2>7 DEF FoundBy
<1> QED
  BY <1>1, <1>2 DEF Finalized

\* A later bound is a bound.
LEMMA FoundLater ==
  ASSUME NEW times, NEW t \in Nat, NEW found, FoundBy(found, times, t)
  PROVE  FoundBy(found, times, t + 1)
<1>1. \A x \in found : x.to \in Nat
  BY HistoryBounds DEF FoundBy, Trip, Slot
<1> QED
  BY <1>1 DEF FoundBy

\* The start of a trip follows what its whole does.
LEMMA PartFollows ==
  ASSUME NEW times, NEW t \in Nat, NEW found, NEW points, Follows(points, found, times, t),
         NEW n \in 0 .. Len(points)
  PROVE  Follows(SubSeq(points, 1, n), found, times, t)
<1> DEFINE part == SubSeq(points, 1, n)
<1>1. points \in Seq(Slot) /\ Len(points) \in Nat /\ DOMAIN points = 1 .. Len(points)
  BY LenProperties DEF Follows
<1>2. part \in Seq(Slot) /\ Len(part) = n /\ \A i \in 1 .. n : part[i] = points[i]
  BY <1>1, SubSeqProperties
<1>3. DOMAIN part = 1 .. n
  BY <1>2, LenProperties
<1> HIDE DEF part
<1>4. \A i \in DOMAIN part : i \in DOMAIN points /\ part[i] = points[i]
  BY <1>1, <1>2, <1>3
<1>5. Follows(part, found, times, t)
  BY <1>2, <1>4 DEF Follows, Climbs
<1> QED
  BY <1>5 DEF part

\* The next point continues the trip.
LEMMA NextPointFollows ==
  ASSUME NEW times, NEW t \in Slot, t \in times, NEW found, NEW points,
         FoundBy(found, times, t), Follows(points, found, times, t)
  PROVE  Follows(Append(points, t), found, times, t + 1) /\ Len(Append(points, t)) = Len(points) + 1
<1> DEFINE more == Append(points, t)
<1>1. points \in Seq(Slot) /\ Len(points) \in Nat /\ DOMAIN points = 1 .. Len(points) /\ t \in Nat
  BY LenProperties, HistoryBounds DEF Follows, Slot
<1>2. more \in Seq(Slot) /\ Len(more) = Len(points) + 1 /\ more[Len(points) + 1] = t
      /\ \A i \in 1 .. Len(points) : more[i] = points[i]
  BY <1>1, AppendProperties
<1>3. DOMAIN more = 1 .. Len(points) + 1
  BY <1>2, LenProperties
<1> HIDE DEF more
<1>4. \A i \in DOMAIN points : points[i] \in times /\ points[i] < t /\ points[i] \in Nat /\ \A x \in found : x.to < points[i]
  BY <1>1, ElementOfSeq, HistoryBounds DEF Follows, Slot
<1>5. \A x \in found : x.to < t
  BY DEF FoundBy
<1>6. \A i \in DOMAIN more : more[i] \in times /\ more[i] < t + 1 /\ \A x \in found : x.to < more[i]
  BY <1>1, <1>2, <1>3, <1>4, <1>5
<1>7. Climbs(more)
  BY <1>1, <1>2, <1>3, <1>4 DEF Climbs, Follows
<1>8. Follows(more, found, times, t + 1)
  BY <1>2, <1>6, <1>7 DEF Follows
<1> QED
  BY <1>2, <1>8 DEF more

\* Nothing follows anything.
LEMMA NothingFollows ==
  ASSUME NEW times, NEW t, NEW found
  PROVE  Follows(<<>>, found, times, t) /\ Len(<<>>) = 0
<1>1. <<>> \in Seq(Slot) /\ DOMAIN <<>> = {} /\ Len(<<>>) = 0
  BY EmptySeq
<1> QED
  BY <1>1 DEF Follows, Climbs

LEMMA NoTripSound ==
  ASSUME NEW times, NEW t \in Nat, NEW found, FoundBy(found, times, t)
  PROVE  ScanSound(NoTrip(found), times, t)
<1>1. found \in SUBSET Trip
  BY DEF FoundBy
<1>2. <<>> \in Seq(Slot) /\ Len(<<>>) = 0 /\ Follows(<<>>, found, times, t)
  BY EmptySeq, NothingFollows
<1>3. /\ NoTrip(found) \in [found : SUBSET Trip, current : Seq(Slot), stop : Nat]
      /\ NoTrip(found).found = found /\ NoTrip(found).current = <<>> /\ NoTrip(found).stop = 0
  BY <1>1, <1>2 DEF NoTrip
<1> QED
  BY <1>2, <1>3 DEF ScanSound

\* One point (trips.ts lines 97-121): a gap or a long stop ends a trip, and what was found
\* stays apart.
LEMMA AdvanceSound ==
  ASSUME NEW times, NEW t \in Slot, t \in times, NEW scan, ScanSound(scan, times, t)
  PROVE  ScanSound(Advance(scan, t), times, t + 1)
<1> DEFINE parted == scan.current # <<>> /\ t - Last(scan.current) > maxGap
           base == IF parted THEN NoTrip(Finalized(scan.found, scan.current)) ELSE scan
           current == Append(base.current, t)
<1>1. t \in Nat /\ t + 1 \in Nat
  BY HistoryBounds DEF Slot
<1>2. ScanSound(base, times, t)
  <2>1. FoundBy(Finalized(scan.found, scan.current), times, t)
    BY <1>1, FinalizedIsFound DEF ScanSound
  <2>2. ScanSound(NoTrip(Finalized(scan.found, scan.current)), times, t)
    BY <1>1, <2>1, NoTripSound
  <2> QED
    BY <2>2
<1>3. Advance(scan, t) =
        CASE position[t] = "moving" -> [base EXCEPT !.current = current, !.stop = 0]
          [] position[t] # "moving" /\ base.stop = 0 -> [base EXCEPT !.current = current, !.stop = Len(current)]
          [] OTHER -> IF t - current[base.stop] >= stopMin THEN NoTrip(Finalized(base.found, SubSeq(current, 1, base.stop)))
                      ELSE [base EXCEPT !.current = current]
  BY DEF Advance
<1> HIDE DEF base
<1>4. /\ base \in [found : SUBSET Trip, current : Seq(Slot), stop : Nat] /\ base.stop <= Len(base.current)
      /\ FoundBy(base.found, times, t) /\ Follows(base.current, base.found, times, t)
  BY <1>2 DEF ScanSound
<1>5. Follows(current, base.found, times, t + 1) /\ Len(current) = Len(base.current) + 1 /\ current \in Seq(Slot)
  BY <1>4, NextPointFollows DEF Follows
<1>6. FoundBy(base.found, times, t + 1) /\ Len(base.current) \in Nat
  BY <1>1, <1>4, FoundLater, LenProperties
<1> HIDE DEF current
<1>7. ASSUME NEW stop \in Nat, stop <= Len(current)
      PROVE  ScanSound([base EXCEPT !.current = current, !.stop = stop], times, t + 1)
  <2> DEFINE next == [base EXCEPT !.current = current, !.stop = stop]
  <2>1. /\ next \in [found : SUBSET Trip, current : Seq(Slot), stop : Nat]
        /\ next.found = base.found /\ next.current = current /\ next.stop = stop
    BY <1>4, <1>5
  <2> HIDE DEF next
  <2>2. ScanSound(next, times, t + 1)
    BY <1>5, <1>6, <1>7, <2>1 DEF ScanSound
  <2> QED
    BY <2>2 DEF next
<1>8. CASE position[t] = "moving"
  <2>1. 0 \in Nat /\ 0 <= Len(current)
    BY <1>5, <1>6
  <2>2. ScanSound([base EXCEPT !.current = current, !.stop = 0], times, t + 1)
    BY <2>1, <1>7
  <2> QED
    BY <1>3, <1>8, <2>2
<1>9. CASE position[t] # "moving" /\ base.stop = 0
  <2>1. Len(current) \in Nat /\ Len(current) <= Len(current)
    BY <1>5, <1>6
  <2>2. ScanSound([base EXCEPT !.current = current, !.stop = Len(current)], times, t + 1)
    BY <2>1, <1>7
  <2> QED
    BY <1>3, <1>9, <2>2
<1>10. CASE position[t] # "moving" /\ base.stop # 0
  <2>1. CASE t - current[base.stop] >= stopMin
    <3> DEFINE drive == SubSeq(current, 1, base.stop)
    <3>1. base.stop \in 0 .. Len(current)
      BY <1>4, <1>5, <1>6
    <3>2. Follows(drive, base.found, times, t + 1)
      BY <1>1, <1>5, <3>1, PartFollows
    <3> HIDE DEF drive
    <3>3. FoundBy(Finalized(base.found, drive), times, t + 1)
      BY <1>1, <1>6, <3>2, FinalizedIsFound
    <3>4. ScanSound(NoTrip(Finalized(base.found, drive)), times, t + 1)
      BY <1>1, <3>3, NoTripSound
    <3> QED
      BY <1>3, <1>10, <2>1, <3>4 DEF drive
  <2>2. CASE ~(t - current[base.stop] >= stopMin)
    <3>1. [base EXCEPT !.current = current, !.stop = base.stop] = [base EXCEPT !.current = current]
      BY <1>4
    <3>2. base.stop \in Nat /\ base.stop <= Len(current)
      BY <1>4, <1>5, <1>6
    <3>3. ScanSound([base EXCEPT !.current = current, !.stop = base.stop], times, t + 1)
      BY <3>2, <1>7
    <3> QED
      BY <1>3, <1>10, <2>2, <3>1, <3>3
  <2> QED
    BY <2>1, <2>2
<1> QED
  BY <1>8, <1>9, <1>10

\* By induction over the slots, the scan is sound before each of them.
LEMMA ScanIsSound ==
  ASSUME NEW times, times \subseteq Slot
  PROVE  \A t \in 0 .. Horizon + 1 : ScanSound(scanOf(times)[t], times, t)
<1> DEFINE X == {n \in Nat : n \in 0 .. Horizon + 1 => ScanSound(scanOf(times)[n], times, n)}
<1>1. 0 \in X
  <2>1. FoundBy({}, times, 0)
    BY DEF FoundBy, Apart
  <2>2. ScanSound(NoTrip({}), times, 0)
    BY <2>1, NoTripSound
  <2>3. scanOf(times)[0] = NoTrip({})
    BY ScanIsDefined, HistoryBounds DEF Before
  <2> QED
    BY <2>2, <2>3
<1>2. ASSUME NEW n \in Nat, n \in X PROVE n + 1 \in X
  <2> SUFFICES ASSUME n + 1 \in 0 .. Horizon + 1 PROVE ScanSound(scanOf(times)[n + 1], times, n + 1)
    OBVIOUS
  <2>1. n \in Slot /\ n \in 0 .. Horizon + 1
    BY HistoryBounds DEF Slot
  <2>2. ScanSound(scanOf(times)[n], times, n)
    BY <1>2, <2>1
  <2>3. scanOf(times)[n + 1] = IF n \in times THEN Advance(scanOf(times)[n], n) ELSE scanOf(times)[n]
    <3>1. n + 1 # 0 /\ n + 1 - 1 = n
      OBVIOUS
    <3>2. scanOf(times)[n + 1] = Before(scanOf(times), times, n + 1)
      BY ScanIsDefined
    <3> QED
      BY <3>1, <3>2 DEF Before
  <2>4. CASE n \in times
    BY <2>1, <2>2, <2>3, <2>4, AdvanceSound
  <2>5. CASE n \notin times
    <3> DEFINE scan == scanOf(times)[n]
    <3>1. /\ FoundBy(scan.found, times, n + 1) /\ scan.stop <= Len(scan.current)
          /\ scan \in [found : SUBSET Trip, current : Seq(Slot), stop : Nat]
      BY <2>2, FoundLater DEF ScanSound
    <3>2. \A i \in DOMAIN scan.current : scan.current[i] \in Nat
      BY <3>1, ElementOfSeq, LenProperties, HistoryBounds DEF Slot
    <3>3. Follows(scan.current, scan.found, times, n + 1)
      BY <2>2, <3>2 DEF ScanSound, Follows
    <3>4. ScanSound(scan, times, n + 1)
      BY <3>1, <3>3 DEF ScanSound
    <3> QED
      BY <2>3, <2>5, <3>4
  <2> QED
    BY <2>4, <2>5
<1> HIDE DEF X
<1>3. Nat \subseteq X
  BY <1>1, <1>2, Induction
<1>4. \A t \in 0 .. Horizon + 1 : t \in X
  BY <1>3, HistoryBounds
<1> QED
  BY <1>4 DEF X

\* detectTrips cuts the positions at any times into trips that do not overlap.
THEOREM DetectedTripsAreApart ==
  ASSUME NEW times, times \subseteq Slot
  PROVE  FoundBy(detectTrips(times), times, Horizon + 1)
<1> DEFINE scan == scanOf(times)[Horizon + 1]
<1>1. ScanSound(scan, times, Horizon + 1) /\ Horizon + 1 \in Nat
  BY ScanIsSound, HistoryBounds
<1>2. detectTrips(times) = Finalized(scan.found, scan.current)
  BY DEF detectTrips
<1> HIDE DEF scan
<1> QED
  BY <1>1, <1>2, FinalizedIsFound DEF ScanSound

-----------------------------------------------------------------------------
(* The inductive invariant. *)

RollupState == [at : {"idle", "read", "delete", "insert", "rebuild"}, since : Slot, found : SUBSET Trip,
                doomed : SUBSET Trip, after : SUBSET Rollup]

HistoryTyped ==
  /\ clock \in Slot /\ position \in [Slot -> {"none", "moving", "stopped"}]
  /\ trips \subseteq Trip /\ rollup \in [Rollup -> RollupState]
  /\ severed \subseteq trips /\ raced \subseteq trips /\ unbuilt \subseteq Dates
  /\ historyFaults \in 0 .. MaxHistoryFaults

StartsAreUnique == \A x, y \in trips : x.from = y.from => x = y

FindsApart ==
  \A r \in Rollup : Apart(rollup[r].found) /\ \A x \in rollup[r].found : rollup[r].since <= x.from

\* A run that is about to insert deletes every trip of its window, except those another
\* run has inserted beside it since.
DoomsItsWindow ==
  \A r \in Rollup :
    /\ rollup[r].at # "insert" => rollup[r].doomed = {}
    /\ rollup[r].at = "insert" =>
         /\ rollup[r].doomed \subseteq {x \in trips : rollup[r].since <= x.from}
         /\ {x \in trips : rollup[r].since <= x.from} \subseteq rollup[r].doomed \cup raced

\* The totals that no run is about to write, or failed to, are current.
TotalsOutside ==
  \A d \in Dates \ unbuilt :
    TripsOf(d) # {} /\ (\A r \in Rollup : rollup[r].at = "rebuild" => d < DayOf(rollup[r].since))
      => daily[d] = TotalOf(TripsOf(d))

HistoryInv == HistoryTyped /\ StartsAreUnique /\ FindsApart /\ DoomsItsWindow /\ CountedOnce /\ TotalsOutside

LEMMA AtRestType ==
  /\ AtRest \in RollupState /\ AtRest.at = "idle" /\ AtRest.found = {} /\ AtRest.doomed = {} /\ AtRest.since = 0
  /\ 0 \in Slot
<1>1. 0 \in Slot
  BY HistoryBounds DEF Slot
<1> QED
  BY <1>1 DEF AtRest, RollupState

LEMMA TripFacts ==
  ASSUME NEW x \in Trip
  PROVE  x.from \in Nat /\ x.to \in Nat /\ x.from \in Slot
  BY HistoryBounds DEF Trip, Slot

\* A later slot is not of an earlier day.
LEMMA DaysInOrder ==
  ASSUME NEW s \in Nat, NEW t \in Nat, s <= t
  PROVE  DayOf(s) \in Nat /\ DayOf(t) \in Nat /\ DayOf(s) <= DayOf(t)
<1> DEFINE p == s \div Day
           q == t \div Day
<1>1. Day \in Nat /\ Day > 0
  BY HistoryBounds
<1>2. p \in Nat /\ q \in Nat /\ Day * p <= s /\ t < Day * (q + 1)
  BY <1>1
<1> HIDE DEF p, q
<1>3. Day * p < Day * (q + 1)
  BY <1>1, <1>2
<1>4. p <= q
  BY <1>1, <1>2, <1>3
<1> QED
  BY <1>2, <1>4 DEF DayOf, p, q

\* The total of a set of trips does not depend on the state.
LEMMA SameTotal ==
  ASSUME NEW d, TripsOf(d)' = TripsOf(d)
  PROVE  TotalOf(TripsOf(d))' = TotalOf(TripsOf(d))
<1>1. ASSUME NEW S, NEW T, S = T PROVE TotalOf(S) = TotalOf(T)
  BY <1>1
<1> QED
  BY <1>1

\* Totals stay current when a step keeps those of the days it does not cover.
LEMMA TotalsKept ==
  ASSUME HistoryInv,
         \A d \in Dates \ unbuilt' :
           TripsOf(d)' # {} /\ (\A r \in Rollup : rollup'[r].at = "rebuild" => d < DayOf(rollup'[r].since))
             => /\ d \notin unbuilt /\ TripsOf(d)' = TripsOf(d) /\ daily'[d] = daily[d]
                /\ \A r \in Rollup : rollup[r].at = "rebuild" => d < DayOf(rollup[r].since)
  PROVE  TotalsOutside'
<1> SUFFICES ASSUME NEW d \in Dates, d \notin unbuilt', TripsOf(d)' # {},
                    \A r \in Rollup : rollup'[r].at = "rebuild" => d < DayOf(rollup'[r].since)
             PROVE  daily'[d] = TotalOf(TripsOf(d))'
  BY DEF TotalsOutside, Dates, Slot, DayOf
<1>1. /\ d \notin unbuilt /\ TripsOf(d)' = TripsOf(d) /\ daily'[d] = daily[d]
      /\ \A r \in Rollup : rollup[r].at = "rebuild" => d < DayOf(rollup[r].since)
  OBVIOUS
<1>2. daily[d] = TotalOf(TripsOf(d))
  BY <1>1 DEF HistoryInv, TotalsOutside
<1> QED
  BY <1>1, <1>2, SameTotal

\* The clock, a position or retention: nothing of the roll-up moves.
LEMMA PositionsOnly ==
  ASSUME HistoryInv, clock' \in Slot, position' \in [Slot -> {"none", "moving", "stopped"}],
         UNCHANGED <<trips, daily, rollup, severed, raced, unbuilt, historyFaults>>
  PROVE  HistoryInv'
<1>1. HistoryTyped' /\ StartsAreUnique' /\ FindsApart'
  BY DEF HistoryInv, HistoryTyped, StartsAreUnique, FindsApart
<1>2. DoomsItsWindow' /\ CountedOnce'
  BY DEF HistoryInv, DoomsItsWindow, CountedOnce
<1>3. TotalsOutside'
  <2>1. \A d : TripsOf(d)' = TripsOf(d)
    BY DEF TripsOf
  <2> QED
    BY <2>1, TotalsKept
<1> QED
  BY <1>1, <1>2, <1>3 DEF HistoryInv

\* A run that has just begun has found nothing yet.
LEMMA RollupStartsKeeps ==
  ASSUME HistoryInv, NEW r \in Rollup, RollupStarts(r)
  PROVE  HistoryInv'
<1> DEFINE next == [AtRest EXCEPT !.at = "read", !.since = Back(Window)]
<1>1. /\ rollup[r].at = "idle" /\ rollup' = [rollup EXCEPT ![r] = next]
      /\ UNCHANGED <<clock, position, trips, daily, severed, raced, unbuilt, historyFaults>>
  BY DEF RollupStarts
<1>2. Back(Window) \in Slot
  BY HistoryBounds DEF HistoryInv, HistoryTyped, Back, Slot
<1>3. /\ next \in RollupState /\ next.at = "read" /\ next.found = {} /\ next.doomed = {}
  BY <1>2, AtRestType DEF RollupState
<1> HIDE DEF next
<1>4. /\ rollup' \in [Rollup -> RollupState] /\ rollup'[r] = next /\ \A q \in Rollup \ {r} : rollup'[q] = rollup[q]
  BY <1>1, <1>3 DEF HistoryInv, HistoryTyped
<1>5. HistoryTyped'
  BY <1>1, <1>4 DEF HistoryInv, HistoryTyped
<1>6. StartsAreUnique' /\ CountedOnce'
  BY <1>1 DEF HistoryInv, StartsAreUnique, CountedOnce
<1>7. FindsApart'
  BY <1>3, <1>4 DEF HistoryInv, FindsApart, Apart
<1>8. DoomsItsWindow'
  BY <1>1, <1>3, <1>4 DEF HistoryInv, DoomsItsWindow
<1>9. TotalsOutside'
  <2>1. \A d : TripsOf(d)' = TripsOf(d)
    BY <1>1 DEF TripsOf
  <2>2. \A q \in Rollup : rollup[q].at = "rebuild" => rollup'[q] = rollup[q]
    BY <1>1, <1>4
  <2> QED
    BY <1>1, <2>1, <2>2, TotalsKept
<1> QED
  BY <1>5, <1>6, <1>7, <1>8, <1>9 DEF HistoryInv

\* The trips found are those of the window.
LEMMA RollupReadsKeeps ==
  ASSUME HistoryInv, NEW r \in Rollup, RollupReads(r)
  PROVE  HistoryInv'
<1> DEFINE since == rollup[r].since
           times == {t \in Slot : t >= since /\ position[t] # "none"}
           step == IF Cardinality(times) < 2 THEN "rebuild" ELSE "delete"
           found == detectTrips(times)
           next == [rollup[r] EXCEPT !.at = step, !.found = found]
<1>0. rollup[r] \in RollupState /\ rollup[r].at = "read" /\ rollup[r].doomed = {}
  BY DEF RollupReads, HistoryInv, HistoryTyped, DoomsItsWindow
<1>1. /\ rollup' = [rollup EXCEPT ![r] = next]
      /\ UNCHANGED <<clock, position, trips, daily, severed, raced, unbuilt, historyFaults>>
  <2>1. rollup' = [rollup EXCEPT ![r].at = step, ![r].found = found]
    BY DEF RollupReads
  <2> HIDE DEF step, found
  <2> QED
    BY <2>1 DEF RollupReads
<1>2. since \in Slot
  BY <1>0 DEF RollupState
<1>3. FoundBy(found, times, Horizon + 1)
  <2>1. times \subseteq Slot
    OBVIOUS
  <2> HIDE DEF times
  <2> QED
    BY <2>1, DetectedTripsAreApart
<1>4. found \subseteq Trip /\ Apart(found) /\ \A x \in found : since <= x.from
  <2>1. \A t \in times : since <= t
    BY <1>2, HistoryBounds DEF Slot
  <2> HIDE DEF times, since, found
  <2> QED
    BY <1>3, <2>1 DEF FoundBy
<1> HIDE DEF found, since
<1>5. step \in {"rebuild", "delete"}
  OBVIOUS
<1> HIDE DEF step
<1>6. /\ next \in RollupState /\ next.at = step /\ next.since = since /\ next.found = found /\ next.doomed = {}
  BY <1>0, <1>2, <1>4, <1>5 DEF RollupState, since
<1> HIDE DEF next
<1>7. /\ rollup' \in [Rollup -> RollupState] /\ rollup'[r] = next /\ \A q \in Rollup \ {r} : rollup'[q] = rollup[q]
  BY <1>1, <1>6 DEF HistoryInv, HistoryTyped
<1>8. HistoryTyped'
  BY <1>1, <1>7 DEF HistoryInv, HistoryTyped
<1>9. StartsAreUnique' /\ CountedOnce'
  BY <1>1 DEF HistoryInv, StartsAreUnique, CountedOnce
<1>10. FindsApart'
  BY <1>4, <1>6, <1>7 DEF HistoryInv, FindsApart
<1>11. DoomsItsWindow'
  BY <1>1, <1>5, <1>6, <1>7 DEF HistoryInv, DoomsItsWindow
<1>12. TotalsOutside'
  <2>1. \A d : TripsOf(d)' = TripsOf(d)
    BY <1>1 DEF TripsOf
  <2>2. \A q \in Rollup : rollup[q].at = "rebuild" => rollup'[q] = rollup[q]
    BY <1>0, <1>1, <1>7
  <2> QED
    BY <1>1, <2>1, <2>2, TotalsKept
<1> QED
  BY <1>8, <1>9, <1>10, <1>11, <1>12 DEF HistoryInv

\* The DELETE sees all trips of its window.
LEMMA RollupDeletesKeeps ==
  ASSUME HistoryInv, NEW r \in Rollup, RollupDeletes(r)
  PROVE  HistoryInv'
<1> DEFINE doomed == {x \in trips : x.from >= rollup[r].since}
           after == {q \in Rollup : rollup[q].at = "insert" /\ rollup[q].doomed \cap doomed # {}}
           next == [rollup[r] EXCEPT !.at = "insert", !.doomed = doomed, !.after = after]
<1>1. /\ rollup[r].at = "delete"
      /\ UNCHANGED <<clock, position, trips, daily, severed, raced, unbuilt, historyFaults>>
  BY DEF RollupDeletes
<1>2. rollup' = [rollup EXCEPT ![r] = next]
  <2>1. rollup' = [rollup EXCEPT ![r].at = "insert", ![r].doomed = doomed, ![r].after = after]
    BY DEF RollupDeletes
  <2> QED
    BY <2>1 DEF HistoryInv, HistoryTyped
<1>3. rollup[r] \in RollupState /\ trips \subseteq Trip
  BY DEF HistoryInv, HistoryTyped
<1>4. doomed \subseteq Trip /\ doomed = {x \in trips : rollup[r].since <= x.from}
  <2>1. \A x \in trips : x.from \in Nat
    BY <1>3, TripFacts
  <2>2. rollup[r].since \in Nat
    BY <1>3, HistoryBounds DEF RollupState, Slot
  <2> QED
    BY <1>3, <2>1, <2>2
<1>5. after \in SUBSET Rollup
  OBVIOUS
<1> HIDE DEF doomed, after
<1>6. /\ next \in RollupState /\ next.at = "insert" /\ next.since = rollup[r].since
      /\ next.found = rollup[r].found /\ next.doomed = doomed
  BY <1>3, <1>4, <1>5 DEF RollupState
<1> HIDE DEF next
<1>7. /\ rollup' \in [Rollup -> RollupState] /\ rollup'[r] = next /\ \A q \in Rollup \ {r} : rollup'[q] = rollup[q]
  BY <1>2, <1>6 DEF HistoryInv, HistoryTyped
<1>8. HistoryTyped'
  BY <1>1, <1>7 DEF HistoryInv, HistoryTyped
<1>9. StartsAreUnique' /\ CountedOnce'
  BY <1>1 DEF HistoryInv, StartsAreUnique, CountedOnce
<1>10. FindsApart'
  BY <1>6, <1>7 DEF HistoryInv, FindsApart
<1>11. DoomsItsWindow'
  <2>1. ASSUME NEW q \in Rollup, q # r
        PROVE  /\ rollup'[q].at # "insert" => rollup'[q].doomed = {}
               /\ rollup'[q].at = "insert" =>
                    /\ rollup'[q].doomed \subseteq {x \in trips' : rollup'[q].since <= x.from}
                    /\ {x \in trips' : rollup'[q].since <= x.from} \subseteq rollup'[q].doomed \cup raced'
    BY <1>1, <1>7, <2>1 DEF HistoryInv, DoomsItsWindow
  <2>2. /\ rollup'[r].at = "insert" /\ rollup'[r].doomed = {x \in trips' : rollup'[r].since <= x.from}
    BY <1>1, <1>4, <1>6, <1>7
  <2> QED
    BY <2>1, <2>2 DEF DoomsItsWindow
<1>12. TotalsOutside'
  <2>1. \A d : TripsOf(d)' = TripsOf(d)
    BY <1>1 DEF TripsOf
  <2>2. \A q \in Rollup : rollup[q].at = "rebuild" => rollup'[q] = rollup[q]
    BY <1>1, <1>7
  <2> QED
    BY <1>1, <2>1, <2>2, TotalsKept
<1> QED
  BY <1>8, <1>9, <1>10, <1>11, <1>12 DEF HistoryInv

\* The end of a transaction: the other runs keep all but the rows that are gone.
LEMMA ReleasedKeeps ==
  ASSUME HistoryTyped, NEW r \in Rollup, NEW next \in RollupState, NEW gone, rollup' = Released(r, next, gone)
  PROVE  /\ rollup' \in [Rollup -> RollupState] /\ rollup'[r] = next
         /\ \A q \in Rollup \ {r} :
              /\ rollup'[q].at = rollup[q].at /\ rollup'[q].since = rollup[q].since
              /\ rollup'[q].found = rollup[q].found /\ rollup'[q].doomed = rollup[q].doomed \ gone
<1>1. ASSUME NEW q \in Rollup
      PROVE  LET other == [rollup[q] EXCEPT !.after = @ \ {r}, !.doomed = @ \ gone]
             IN  /\ other \in RollupState /\ other.at = rollup[q].at /\ other.since = rollup[q].since
                 /\ other.found = rollup[q].found /\ other.doomed = rollup[q].doomed \ gone
  BY DEF HistoryTyped, RollupState
<1>2. rollup' = [q \in Rollup |-> IF q = r THEN next ELSE [rollup[q] EXCEPT !.after = @ \ {r}, !.doomed = @ \ gone]]
  BY DEF Released
<1> QED
  BY <1>1, <1>2

\* A run that fails leaves the days it would have written as unbuilt.
LEMMA RollupFailsKeeps ==
  ASSUME HistoryInv, NEW r \in Rollup, RollupFails(r)
  PROVE  HistoryInv'
<1>1. /\ historyFaults < MaxHistoryFaults /\ historyFaults' = historyFaults + 1
      /\ unbuilt' = IF rollup[r].at = "rebuild" THEN unbuilt \cup {d \in Dates : d >= DayOf(rollup[r].since)} ELSE unbuilt
      /\ rollup' = Released(r, AtRest, {}) /\ UNCHANGED <<clock, position, trips, daily, severed, raced>>
  BY DEF RollupFails
<1>2. /\ rollup' \in [Rollup -> RollupState] /\ rollup'[r] = AtRest
      /\ \A q \in Rollup \ {r} :
           /\ rollup'[q].at = rollup[q].at /\ rollup'[q].since = rollup[q].since
           /\ rollup'[q].found = rollup[q].found /\ rollup'[q].doomed = rollup[q].doomed
  <2>1. HistoryTyped /\ AtRest \in RollupState
    BY AtRestType DEF HistoryInv
  <2>2. /\ rollup' \in [Rollup -> RollupState] /\ rollup'[r] = AtRest
        /\ \A q \in Rollup \ {r} :
             /\ rollup'[q].at = rollup[q].at /\ rollup'[q].since = rollup[q].since
             /\ rollup'[q].found = rollup[q].found /\ rollup'[q].doomed = rollup[q].doomed \ {}
    BY <1>1, <2>1, ReleasedKeeps
  <2> QED
    BY <2>2
<1>3. HistoryTyped'
  <2>1. historyFaults' \in 0 .. MaxHistoryFaults
    BY <1>1, HistoryBounds DEF HistoryInv, HistoryTyped
  <2> QED
    BY <1>1, <1>2, <2>1 DEF HistoryInv, HistoryTyped
<1>4. StartsAreUnique' /\ CountedOnce'
  BY <1>1 DEF HistoryInv, StartsAreUnique, CountedOnce
<1>5. FindsApart'
  BY <1>2, AtRestType DEF HistoryInv, FindsApart, Apart
<1>6. DoomsItsWindow'
  BY <1>1, <1>2, AtRestType DEF HistoryInv, DoomsItsWindow
<1>7. TotalsOutside'
  <2>1. \A d : TripsOf(d)' = TripsOf(d)
    BY <1>1 DEF TripsOf
  <2>2. \A d \in Dates : d \in Nat
    BY DaysInOrder, HistoryBounds DEF Dates, Slot
  <2>3. DayOf(rollup[r].since) \in Nat
    BY DaysInOrder, HistoryBounds DEF HistoryInv, HistoryTyped, RollupState, Slot
  <2>4. \A d \in Dates \ unbuilt' : d \notin unbuilt /\ (rollup[r].at = "rebuild" => d < DayOf(rollup[r].since))
    BY <1>1, <2>2, <2>3
  <2>5. \A q \in Rollup \ {r} : rollup[q].at = "rebuild" => rollup'[q].at = "rebuild" /\ rollup'[q].since = rollup[q].since
    BY <1>2
  <2> QED
    BY <1>1, <2>1, <2>4, <2>5, TotalsKept
<1> QED
  BY <1>3, <1>4, <1>5, <1>6, <1>7 DEF HistoryInv

\* A rebuild writes the total of every day with trips from its window on.
LEMMA RebuildsKeeps ==
  ASSUME HistoryInv, NEW r \in Rollup, Rebuilds(r)
  PROVE  HistoryInv'
<1> DEFINE days == {d \in Dates : d >= DayOf(rollup[r].since) /\ TripsOf(d) # {}}
<1>1. /\ daily' = [d \in Dates |-> IF d \in days THEN TotalOf(TripsOf(d)) ELSE daily[d]]
      /\ unbuilt' = unbuilt \ days /\ rollup' = [rollup EXCEPT ![r] = AtRest]
      /\ UNCHANGED <<clock, position, trips, severed, raced, historyFaults>>
  BY DEF Rebuilds
<1>2. /\ rollup' \in [Rollup -> RollupState] /\ rollup'[r] = AtRest /\ \A q \in Rollup \ {r} : rollup'[q] = rollup[q]
  BY <1>1, AtRestType DEF HistoryInv, HistoryTyped
<1>3. HistoryTyped'
  BY <1>1, <1>2 DEF HistoryInv, HistoryTyped
<1>4. StartsAreUnique' /\ CountedOnce'
  BY <1>1 DEF HistoryInv, StartsAreUnique, CountedOnce
<1>5. FindsApart'
  BY <1>2, AtRestType DEF HistoryInv, FindsApart, Apart
<1>6. DoomsItsWindow'
  BY <1>1, <1>2, AtRestType DEF HistoryInv, DoomsItsWindow
<1>7. TotalsOutside'
  <2> SUFFICES ASSUME NEW d \in Dates, d \notin unbuilt', TripsOf(d)' # {},
                      \A q \in Rollup : rollup'[q].at = "rebuild" => d < DayOf(rollup'[q].since)
               PROVE  daily'[d] = TotalOf(TripsOf(d))'
    BY DEF TotalsOutside, Dates, Slot, DayOf
  <2>1. TripsOf(d)' = TripsOf(d)
    BY <1>1 DEF TripsOf
  <2>2. d \in Nat /\ DayOf(rollup[r].since) \in Nat
    BY DaysInOrder, HistoryBounds DEF HistoryInv, HistoryTyped, RollupState, Dates, Slot
  <2>3. CASE d \in days
    <3>1. daily'[d] = TotalOf(TripsOf(d))
      BY <1>1, <2>3
    <3> QED
      BY <2>1, <3>1, SameTotal
  <2>4. CASE d \notin days
    <3>1. d < DayOf(rollup[r].since) /\ d \notin unbuilt
      BY <1>1, <2>1, <2>2, <2>4
    <3>2. \A q \in Rollup : rollup[q].at = "rebuild" => d < DayOf(rollup[q].since)
      BY <1>2, <3>1
    <3>3. daily[d] = TotalOf(TripsOf(d))
      BY <2>1, <3>1, <3>2 DEF HistoryInv, TotalsOutside
    <3>4. daily'[d] = daily[d]
      BY <1>1, <2>4
    <3> QED
      BY <2>1, <3>3, <3>4, SameTotal
  <2> QED
    BY <2>3, <2>4
<1> QED
  BY <1>3, <1>4, <1>5, <1>6, <1>7 DEF HistoryInv

\* The insert: what it keeps, what it adds, and what that does to the runs beside it.
LEMMA RollupInsertsKeeps ==
  ASSUME HistoryInv, NEW r \in Rollup, RollupInserts(r)
  PROVE  HistoryInv'
<1> DEFINE since == rollup[r].since
           doomed == rollup[r].doomed
           kept == trips \ doomed
           inserted == {x \in rollup[r].found : \A y \in kept : y.from # x.from}
           others == {q \in Rollup \ {r} : rollup[q].at = "insert"}
           next == [AtRest EXCEPT !.at = "rebuild", !.since = since]
<1>1. /\ rollup[r].at = "insert" /\ trips' = kept \cup inserted
      /\ severed' = (severed \cap kept) \cup {x \in kept : x.from < since /\ since <= x.to}
      /\ raced' = (raced \cap kept) \cup (IF others = {} THEN {} ELSE inserted)
      /\ rollup' = Released(r, next, doomed)
      /\ UNCHANGED <<clock, position, daily, unbuilt, historyFaults>>
  BY DEF RollupInserts
<1>2. rollup[r] \in RollupState /\ since \in Slot /\ since \in Nat /\ trips \subseteq Trip
  BY HistoryBounds DEF HistoryInv, HistoryTyped, RollupState, Slot
<1>3. /\ inserted \subseteq Trip /\ Apart(inserted) /\ \A x \in inserted : since <= x.from
      /\ \A x \in kept, y \in inserted : x.from # y.from
  BY <1>2 DEF HistoryInv, FindsApart, Apart, RollupState
<1>4. /\ kept \subseteq trips /\ doomed \subseteq {x \in trips : since <= x.from}
      /\ \A x \in kept : since <= x.from => x \in raced
  BY <1>1 DEF HistoryInv, DoomsItsWindow
<1>5. next \in RollupState /\ next.at = "rebuild" /\ next.since = since /\ next.found = {} /\ next.doomed = {}
  BY <1>2, AtRestType DEF RollupState
<1> HIDE DEF next
<1>6. /\ rollup' \in [Rollup -> RollupState] /\ rollup'[r] = next
      /\ \A q \in Rollup \ {r} :
           /\ rollup'[q].at = rollup[q].at /\ rollup'[q].since = rollup[q].since
           /\ rollup'[q].found = rollup[q].found /\ rollup'[q].doomed = rollup[q].doomed \ doomed
  <2>1. HistoryTyped
    BY DEF HistoryInv
  <2> HIDE DEF doomed
  <2> QED
    BY <1>1, <1>5, <2>1, ReleasedKeeps
<1>7. \A x, y \in trips' : x.from \in Nat /\ x.to \in Nat /\ y.from \in Nat
  BY <1>1, <1>2, <1>3, TripFacts
<1>8. HistoryTyped'
  <2>1. trips' \subseteq Trip /\ severed' \subseteq trips' /\ raced' \subseteq trips'
    BY <1>1, <1>2, <1>3
  <2> QED
    BY <1>1, <1>6, <2>1 DEF HistoryInv, HistoryTyped
<1>9. StartsAreUnique'
  <2>1. \A x, y \in kept : x.from = y.from => x = y
    BY DEF HistoryInv, StartsAreUnique
  <2> HIDE DEF kept, inserted
  <2> QED
    BY <1>1, <1>3, <2>1 DEF StartsAreUnique, Apart
<1>10. FindsApart'
  BY <1>5, <1>6 DEF HistoryInv, FindsApart, Apart
<1>11. DoomsItsWindow'
  <2>1. ASSUME NEW q \in Rollup, q # r, rollup[q].at = "insert"
        PROVE  /\ rollup'[q].doomed \subseteq {x \in trips' : rollup'[q].since <= x.from}
               /\ {x \in trips' : rollup'[q].since <= x.from} \subseteq rollup'[q].doomed \cup raced'
    <3>1. /\ rollup[q].doomed \subseteq {x \in trips : rollup[q].since <= x.from}
          /\ {x \in trips : rollup[q].since <= x.from} \subseteq rollup[q].doomed \cup raced
      BY <2>1 DEF HistoryInv, DoomsItsWindow
    <3>2. raced' = (raced \cap kept) \cup inserted
      BY <1>1, <2>1
    <3>3. rollup'[q].since = rollup[q].since /\ rollup'[q].doomed = rollup[q].doomed \ doomed
      BY <1>6, <2>1
    <3> HIDE DEF inserted
    <3> QED
      BY <1>1, <3>1, <3>2, <3>3
  <2>2. ASSUME NEW q \in Rollup, q # r, rollup[q].at # "insert" PROVE rollup'[q].doomed = {}
    BY <1>6, <2>2 DEF HistoryInv, DoomsItsWindow
  <2> QED
    BY <1>5, <1>6, <2>1, <2>2 DEF DoomsItsWindow
<1>12. CountedOnce'
  <2> SUFFICES ASSUME NEW x \in trips', NEW y \in trips', x.from < y.from, y.from <= x.to
               PROVE  x \in severed' \/ {x, y} \cap raced' # {}
    BY DEF CountedOnce
  <2>1. CASE x \in kept /\ y \in kept
    <3>1. x \in severed \/ {x, y} \cap raced # {}
      BY <2>1 DEF HistoryInv, CountedOnce
    <3> QED
      BY <1>1, <2>1, <3>1
  <2>2. CASE x \in inserted /\ y \in inserted
    BY <1>3, <1>7, <2>2 DEF Apart
  <2>3. CASE x \in kept /\ y \in inserted
    <3>1. since <= y.from /\ since <= x.to
      BY <1>2, <1>3, <1>7, <2>3
    <3>2. CASE x.from < since
      BY <1>1, <2>3, <3>1, <3>2
    <3>3. CASE ~(x.from < since)
      BY <1>1, <1>2, <1>4, <1>7, <2>3, <3>3
    <3> QED
      BY <3>2, <3>3
  <2>4. CASE x \in inserted /\ y \in kept
    <3>1. since <= y.from
      BY <1>2, <1>3, <1>7, <2>4
    <3> QED
      BY <1>1, <1>4, <2>4, <3>1
  <2> QED
    BY <1>1, <2>1, <2>2, <2>3, <2>4
<1>13. TotalsOutside'
  <2>1. ASSUME NEW d \in Dates, d < DayOf(since) PROVE TripsOf(d)' = TripsOf(d)
    <3>1. d \in Nat /\ DayOf(since) \in Nat
      BY <1>2, DaysInOrder, HistoryBounds DEF Dates, Slot
    <3>2. \A x \in Trip : since <= x.from => DayOf(x.from) # d
      BY <1>2, <2>1, <3>1, DaysInOrder, TripFacts
    <3>3. \A x \in doomed \cup inserted : DayOf(x.from) # d
      BY <1>2, <1>3, <1>4, <3>2
    <3> HIDE DEF doomed, inserted
    <3> QED
      BY <1>1, <3>3 DEF TripsOf
  <2>2. rollup'[r].at = "rebuild" /\ rollup'[r].since = since
    BY <1>5, <1>6
  <2>3. \A q \in Rollup : rollup[q].at = "rebuild" => rollup'[q].at = "rebuild" /\ rollup'[q].since = rollup[q].since
    BY <1>1, <1>6
  <2> HIDE DEF since
  <2> QED
    BY <1>1, <2>1, <2>2, <2>3, TotalsKept
<1> QED
  BY <1>8, <1>9, <1>10, <1>11, <1>12, <1>13 DEF HistoryInv

LEMMA HistoryStart == HistoryInit => HistoryInv
<1> SUFFICES ASSUME HistoryInit PROVE HistoryInv
  OBVIOUS
<1>1. HistoryTyped
  BY AtRestType, HistoryBounds DEF HistoryInit, HistoryTyped
<1>2. StartsAreUnique /\ FindsApart /\ DoomsItsWindow /\ CountedOnce
  BY AtRestType DEF HistoryInit, StartsAreUnique, FindsApart, DoomsItsWindow, CountedOnce, Apart
<1>3. TotalsOutside
  BY DEF HistoryInit, TotalsOutside, TripsOf
<1> QED
  BY <1>1, <1>2, <1>3 DEF HistoryInv

LEMMA HistoryStep == HistoryInv /\ [HistoryNext]_historyVars => HistoryInv'
<1> SUFFICES ASSUME HistoryInv, [HistoryNext]_historyVars PROVE HistoryInv'
  OBVIOUS
<1>1. /\ clock \in Slot /\ position \in [Slot -> {"none", "moving", "stopped"}]
  BY DEF HistoryInv, HistoryTyped
<1>2. CASE TimePasses
  <2>1. clock' \in Slot
    BY <1>1, <1>2, HistoryBounds DEF TimePasses, Slot
  <2> QED
    BY <1>1, <1>2, <2>1, PositionsOnly DEF TimePasses
<1>3. ASSUME NEW t \in Slot, NEW motion \in {"moving", "stopped"}, Stores(t, motion) PROVE HistoryInv'
  <2>1. position' \in [Slot -> {"none", "moving", "stopped"}]
    BY <1>1, <1>3 DEF Stores
  <2> QED
    BY <1>1, <1>3, <2>1, PositionsOnly DEF Stores
<1>4. CASE Purges
  <2>1. position' \in [Slot -> {"none", "moving", "stopped"}]
    BY <1>1, <1>4 DEF Purges
  <2> QED
    BY <1>1, <1>4, <2>1, PositionsOnly DEF Purges
<1>5. ASSUME NEW r \in Rollup,
             RollupStarts(r) \/ RollupReads(r) \/ RollupDeletes(r) \/ RollupInserts(r) \/ Rebuilds(r) \/ RollupFails(r)
      PROVE  HistoryInv'
  BY <1>5, RollupStartsKeeps, RollupReadsKeeps, RollupDeletesKeeps, RollupInsertsKeeps, RebuildsKeeps, RollupFailsKeeps
<1>6. CASE UNCHANGED historyVars
  BY <1>1, <1>6, PositionsOnly DEF historyVars
<1> QED
  BY <1>2, <1>3, <1>4, <1>5, <1>6 DEF HistoryNext

\* The roll-up may run again, over any window and beside other runs: two trips of it
\* cover the same time only where the first had begun before a window that replaced its
\* end or two runs raced, and every day's total agrees with its trips unless a run is
\* about to write it or failed before it did (rollup.ts, daily-rollup.ts).
THEOREM HistoryAlwaysAgrees == HistorySpec => []HistoryAgrees
<1>1. HistoryInv => HistoryAgrees
  <2> SUFFICES ASSUME HistoryInv PROVE TotalsCurrent
    BY DEF HistoryInv, HistoryAgrees
  <2> QED
    BY DEF HistoryInv, TotalsOutside, TotalsCurrent
<1> QED
  BY HistoryStart, HistoryStep, <1>1, PTL DEF HistorySpec

-----------------------------------------------------------------------------
(* The type invariant: what a total counts. *)

Picked(s) == CHOOSE x \in s : TRUE

\* g adds up the points of each set in D, one trip after the other.
AddsUp(g, D) == \A s \in D : g[s] = IF s = {} THEN 0 ELSE Picked(s).points + g[s \ {Picked(s)}]

UpTo(S, n) == {s \in SUBSET S : IsFiniteSet(s) /\ Cardinality(s) <= n}

LEMMA PickedFacts ==
  ASSUME NEW S, NEW n \in Nat, NEW s \in UpTo(S, n + 1), s # {}
  PROVE  /\ Picked(s) \in s /\ s \ {Picked(s)} \in UpTo(S, n)
         /\ Cardinality(s) \in Nat /\ Cardinality(s \ {Picked(s)}) = Cardinality(s) - 1
<1>1. Picked(s) \in s
  BY DEF Picked
<1>2. s \in SUBSET S /\ IsFiniteSet(s) /\ Cardinality(s) <= n + 1
  BY DEF UpTo
<1>3. Cardinality(s) \in Nat /\ IsFiniteSet(s \ {Picked(s)}) /\ Cardinality(s \ {Picked(s)}) = Cardinality(s) - 1
  BY <1>1, <1>2, FS_RemoveElement, FS_CardinalityType
<1> QED
  BY <1>1, <1>2, <1>3 DEF UpTo

LEMMA UpToGrows ==
  ASSUME NEW S, NEW n \in Nat, NEW s \in UpTo(S, n)
  PROVE  s \in UpTo(S, n + 1)
<1>1. s \in SUBSET S /\ IsFiniteSet(s) /\ Cardinality(s) <= n /\ Cardinality(s) \in Nat
  BY FS_CardinalityType DEF UpTo
<1> QED
  BY <1>1 DEF UpTo

LEMMA NothingUpToZero ==
  ASSUME NEW S, NEW s \in UpTo(S, 0)
  PROVE  s = {}
<1>1. IsFiniteSet(s) /\ Cardinality(s) <= 0 /\ Cardinality(s) \in Nat
  BY FS_CardinalityType DEF UpTo
<1> QED
  BY <1>1, FS_EmptySet

\* There is a function that adds up the sets of any size.
LEMMA SumExists ==
  ASSUME NEW S, NEW size \in Nat
  PROVE  \E g : AddsUp(g, UpTo(S, size))
<1> DEFINE X == {n \in Nat : \E g : AddsUp(g, UpTo(S, n))}
<1>1. 0 \in X
  <2> DEFINE g == [s \in UpTo(S, 0) |-> 0]
  <2>1. AddsUp(g, UpTo(S, 0))
    BY NothingUpToZero DEF AddsUp
  <2> QED
    BY <2>1
<1>2. ASSUME NEW n \in Nat, n \in X PROVE n + 1 \in X
  <2>1. PICK g : AddsUp(g, UpTo(S, n))
    BY <1>2
  <2> DEFINE h == [s \in UpTo(S, n + 1) |-> IF s = {} THEN 0 ELSE Picked(s).points + g[s \ {Picked(s)}]]
  <2>2. \A s \in UpTo(S, n) : h[s] = g[s]
    BY <2>1, UpToGrows DEF AddsUp
  <2>3. \A s \in UpTo(S, n + 1) : s # {} => h[s \ {Picked(s)}] = g[s \ {Picked(s)}]
    BY <2>2, PickedFacts
  <2>4. \A s \in UpTo(S, n + 1) : h[s] = IF s = {} THEN 0 ELSE Picked(s).points + g[s \ {Picked(s)}]
    OBVIOUS
  <2> HIDE DEF h
  <2>5. AddsUp(h, UpTo(S, n + 1))
    BY <2>3, <2>4 DEF AddsUp
  <2> QED
    BY <2>5
<1> HIDE DEF X
<1>3. size \in X
  BY <1>1, <1>2, Induction
<1> QED
  BY <1>3 DEF X

\* Trips of two points at least add up to twice their number at least.
LEMMA SumIsLarge ==
  ASSUME NEW S \in SUBSET Trip, NEW size \in Nat, NEW g, AddsUp(g, UpTo(S, size))
  PROVE  \A s \in UpTo(S, size) : g[s] \in Nat /\ g[s] >= 2 * Cardinality(s)
<1> DEFINE X == {n \in Nat : n <= size => \A s \in UpTo(S, n) : g[s] \in Nat /\ g[s] >= 2 * Cardinality(s)}
<1>1. \A n \in Nat : n <= size => UpTo(S, n) \subseteq UpTo(S, size)
  BY FS_CardinalityType DEF UpTo
<1>2. 0 \in X
  <2>1. ASSUME NEW s \in UpTo(S, 0) PROVE g[s] = 0 /\ Cardinality(s) = 0
    <3>1. s = {} /\ 0 <= size
      BY NothingUpToZero
    <3>2. g[s] = 0
      BY <1>1, <3>1 DEF AddsUp
    <3> QED
      BY <3>1, <3>2, FS_EmptySet
  <2> QED
    BY <2>1
<1>3. ASSUME NEW n \in Nat, n \in X PROVE n + 1 \in X
  <2> SUFFICES ASSUME n + 1 <= size, NEW s \in UpTo(S, n + 1) PROVE g[s] \in Nat /\ g[s] >= 2 * Cardinality(s)
    OBVIOUS
  <2>1. s \in UpTo(S, size) /\ \A z \in UpTo(S, n) : g[z] \in Nat /\ g[z] >= 2 * Cardinality(z)
    BY <1>1, <1>3
  <2>2. CASE s = {}
    <3>1. g[s] = 0
      BY <2>1, <2>2 DEF AddsUp
    <3>2. Cardinality(s) = 0
      BY <2>2, FS_EmptySet
    <3> QED
      BY <3>1, <3>2
  <2>3. CASE s # {}
    <3> DEFINE x == Picked(s)
               rest == s \ {x}
    <3>1. x \in s /\ rest \in UpTo(S, n) /\ Cardinality(s) \in Nat /\ Cardinality(rest) = Cardinality(s) - 1
      BY <2>3, PickedFacts
    <3>2. g[s] = x.points + g[rest]
      BY <2>1, <2>3 DEF AddsUp
    <3>3. x \in Trip
      BY <3>1 DEF UpTo
    <3>4. x.points \in Nat /\ x.points >= 2
      <4>1. x.from \in Nat /\ x.to \in Nat
        BY <3>3, HistoryBounds DEF Trip, Slot
      <4> QED
        BY <3>3, <4>1 DEF Trip
    <3> HIDE DEF x, rest
    <3>5. g[rest] \in Nat /\ g[rest] >= 2 * Cardinality(rest)
      BY <2>1, <3>1
    <3> QED
      BY <3>1, <3>2, <3>4, <3>5
  <2> QED
    BY <2>2, <2>3
<1> HIDE DEF X
<1>4. size \in X
  BY <1>2, <1>3, Induction
<1> QED
  BY <1>4 DEF X

\* daily-rollup.ts adds up the points of a day's trips: two for each of them at least.
LEMMA TotalCounts ==
  ASSUME NEW S \in SUBSET Trip, IsFiniteSet(S)
  PROVE  /\ TotalOf(S).trips \in Nat /\ TotalOf(S).points \in Nat
         /\ TotalOf(S).points >= 2 * TotalOf(S).trips
<1> DEFINE size == Cardinality(S)
           Added(g, s) == IF s = {} THEN 0 ELSE Picked(s).points + g[s \ {Picked(s)}]
           sum == CHOOSE iter : iter = [s \in SUBSET S |-> Added(iter, s)]
<1>1. size \in Nat /\ UpTo(S, size) = SUBSET S
  <2>1. size \in Nat
    BY FS_CardinalityType
  <2>2. \A s \in SUBSET S : IsFiniteSet(s) /\ Cardinality(s) <= size
    BY FS_Subset
  <2> QED
    BY <2>1, <2>2 DEF UpTo
<1>2. TotalOf(S) = [trips |-> size, points |-> sum[S]]
  BY DEF TotalOf, MapThenSumSet, MapThenFoldSet, Picked
<1>3. PICK g : AddsUp(g, SUBSET S)
  <2> HIDE DEF size
  <2>1. \E g : AddsUp(g, UpTo(S, size))
    BY <1>1, SumExists
  <2> QED
    BY <1>1, <2>1
<1>4. [s \in SUBSET S |-> g[s]] = [s \in SUBSET S |-> Added([z \in SUBSET S |-> g[z]], s)]
  <2>1. \A s \in SUBSET S : g[s] = Added([z \in SUBSET S |-> g[z]], s)
    BY <1>3 DEF AddsUp
  <2> QED
    BY <2>1
<1>5. sum = [s \in SUBSET S |-> Added(sum, s)]
  <2> HIDE DEF Added
  <2> QED
    BY <1>4
<1> HIDE DEF sum
<1>6. AddsUp(sum, SUBSET S)
  BY <1>5 DEF AddsUp
<1>7. sum[S] \in Nat /\ sum[S] >= 2 * size
  BY <1>1, <1>6, SumIsLarge
<1> QED
  BY <1>1, <1>2, <1>7

\* A row of daily_rollups counts two points for each trip at least; no run waits for itself.
HistoryRest ==
  /\ DOMAIN daily = Dates
  /\ \A d \in Dates : /\ daily[d].trips \in Nat /\ daily[d].points \in Nat
                      /\ daily[d].points >= 2 * daily[d].trips
  /\ \A r \in Rollup : r \notin rollup[r].after

\* There are no more trips than slots.
LEMMA TripsAreFinite == HistoryInv => IsFiniteSet(trips)
<1> SUFFICES ASSUME HistoryInv PROVE IsFiniteSet(trips)
  OBVIOUS
<1> DEFINE start == [x \in trips |-> x.from]
<1>1. start \in Injection(trips, Slot)
  BY DEF HistoryInv, HistoryTyped, StartsAreUnique, Trip, Injection, IsInjective
<1>2. IsFiniteSet(Slot)
  BY FS_Interval, HistoryBounds DEF Slot
<1> HIDE DEF start
<1> QED
  BY <1>1, <1>2, FS_Injection

LEMMA RestStart == HistoryInit => HistoryRest
  BY DEF HistoryInit, HistoryRest, NoTotal, AtRest

LEMMA RestStep == HistoryInv /\ HistoryRest /\ [HistoryNext]_historyVars => HistoryRest'
<1> SUFFICES ASSUME HistoryInv, HistoryRest, [HistoryNext]_historyVars PROVE HistoryRest'
  OBVIOUS
<1>1. rollup \in [Rollup -> RollupState]
  BY DEF HistoryInv, HistoryTyped
<1>2. CASE UNCHANGED <<daily, rollup>>
  BY <1>2 DEF HistoryRest
<1>3. ASSUME NEW r \in Rollup, RollupStarts(r) \/ RollupReads(r) PROVE HistoryRest'
  <2>1. CASE RollupStarts(r)
    <3>1. daily' = daily /\ rollup'[r].after = {} /\ \A q \in Rollup \ {r} : rollup'[q] = rollup[q]
      BY <1>1, <2>1 DEF RollupStarts, AtRest
    <3> QED
      BY <3>1 DEF HistoryRest
  <2>2. CASE RollupReads(r)
    <3> DEFINE times == {t \in Slot : t >= rollup[r].since /\ position[t] # "none"}
               step == IF Cardinality(times) < 2 THEN "rebuild" ELSE "delete"
               found == detectTrips(times)
    <3>1. daily' = daily /\ rollup' = [rollup EXCEPT ![r].at = step, ![r].found = found]
      BY <2>2 DEF RollupReads
    <3> HIDE DEF step, found
    <3>2. rollup'[r].after = rollup[r].after /\ \A q \in Rollup \ {r} : rollup'[q] = rollup[q]
      BY <1>1, <3>1 DEF RollupState
    <3> QED
      BY <3>1, <3>2 DEF HistoryRest
  <2> QED
    BY <1>3, <2>1, <2>2
<1>4. ASSUME NEW r \in Rollup, RollupDeletes(r) PROVE HistoryRest'
  <2> DEFINE doomed == {x \in trips : x.from >= rollup[r].since}
             after == {q \in Rollup : rollup[q].at = "insert" /\ rollup[q].doomed \cap doomed # {}}
  <2>1. /\ rollup[r].at = "delete" /\ daily' = daily
        /\ rollup' = [rollup EXCEPT ![r].at = "insert", ![r].doomed = doomed, ![r].after = after]
    BY <1>4 DEF RollupDeletes
  <2>2. r \notin after
    BY <2>1
  <2> HIDE DEF doomed, after
  <2>3. rollup'[r].after = after /\ \A q \in Rollup \ {r} : rollup'[q] = rollup[q]
    BY <1>1, <2>1 DEF RollupState
  <2> QED
    BY <2>1, <2>2, <2>3 DEF HistoryRest
<1>5. ASSUME NEW r \in Rollup, NEW next, NEW gone, r \notin next.after, rollup' = Released(r, next, gone), daily' = daily
      PROVE  HistoryRest'
  <2>1. ASSUME NEW q \in Rollup, q # r PROVE q \notin rollup'[q].after
    <3>1. rollup'[q].after = rollup[q].after \ {r}
      <4>1. rollup'[q] = [rollup[q] EXCEPT !.after = @ \ {r}, !.doomed = @ \ gone]
        BY <1>5, <2>1 DEF Released
      <4>2. rollup[q] \in RollupState
        BY <1>1
      <4> QED
        BY <4>1, <4>2 DEF RollupState
    <3> QED
      BY <3>1 DEF HistoryRest
  <2>2. rollup'[r] = next
    BY <1>5 DEF Released
  <2> QED
    BY <1>5, <2>1, <2>2 DEF HistoryRest
<1>6. ASSUME NEW r \in Rollup, RollupInserts(r) PROVE HistoryRest'
  <2> DEFINE next == [AtRest EXCEPT !.at = "rebuild", !.since = rollup[r].since]
  <2>1. rollup' = Released(r, next, rollup[r].doomed) /\ daily' = daily
    BY <1>6 DEF RollupInserts
  <2>2. r \notin next.after
    BY DEF AtRest
  <2> HIDE DEF next
  <2> QED
    BY <1>5, <2>1, <2>2
<1>7. ASSUME NEW r \in Rollup, RollupFails(r) PROVE HistoryRest'
  <2>1. rollup' = Released(r, AtRest, {}) /\ daily' = daily /\ r \notin AtRest.after
    BY <1>7 DEF RollupFails, AtRest
  <2> QED
    BY <1>5, <2>1
<1>8. ASSUME NEW r \in Rollup, Rebuilds(r) PROVE HistoryRest'
  <2> DEFINE days == {d \in Dates : d >= DayOf(rollup[r].since) /\ TripsOf(d) # {}}
  <2>1. /\ daily' = [d \in Dates |-> IF d \in days THEN TotalOf(TripsOf(d)) ELSE daily[d]]
        /\ rollup' = [rollup EXCEPT ![r] = AtRest]
    BY <1>8 DEF Rebuilds
  <2> HIDE DEF days
  <2>2. ASSUME NEW d
        PROVE  /\ TotalOf(TripsOf(d)).trips \in Nat /\ TotalOf(TripsOf(d)).points \in Nat
               /\ TotalOf(TripsOf(d)).points >= 2 * TotalOf(TripsOf(d)).trips
    <3>1. TripsOf(d) \in SUBSET trips /\ trips \subseteq Trip
      BY DEF TripsOf, HistoryInv, HistoryTyped
    <3>2. IsFiniteSet(TripsOf(d))
      BY <3>1, TripsAreFinite, FS_Subset
    <3> QED
      BY <3>1, <3>2, TotalCounts
  <2>3. \A d \in Dates : daily'[d] = TotalOf(TripsOf(d)) \/ daily'[d] = daily[d]
    BY <2>1
  <2>4. \A q \in Rollup : q \notin rollup'[q].after
    BY <1>1, <2>1 DEF HistoryRest, AtRest
  <2>5. ASSUME NEW d \in Dates
        PROVE  daily'[d].trips \in Nat /\ daily'[d].points \in Nat /\ daily'[d].points >= 2 * daily'[d].trips
    <3>1. CASE daily'[d] = daily[d]
      BY <3>1 DEF HistoryRest
    <3>2. CASE daily'[d] = TotalOf(TripsOf(d))
      BY <2>2, <3>2
    <3> QED
      BY <2>3, <3>1, <3>2
  <2> QED
    BY <2>1, <2>4, <2>5 DEF HistoryRest, Dates, Slot, DayOf
<1>9. CASE TimePasses \/ Purges \/ \E t \in Slot, motion \in {"moving", "stopped"} : Stores(t, motion)
  BY <1>2, <1>9 DEF TimePasses, Purges, Stores
<1>10. CASE UNCHANGED historyVars
  BY <1>2, <1>10 DEF historyVars
<1> QED
  BY <1>3, <1>4, <1>6, <1>7, <1>8, <1>9, <1>10 DEF HistoryNext

\* A stored trip has two points at least and no more than it has slots, no two begin
\* together, and a day's row counts two points for each trip at least.
THEOREM HistoryIsTyped == HistorySpec => []HistoryTypeOK
<1>1. HistoryInv /\ HistoryRest => HistoryTypeOK
  <2> SUFFICES ASSUME HistoryInv, HistoryRest PROVE HistoryTypeOK
    OBVIOUS
  <2>1. \A x \in trips : x.from < x.to /\ x.to \in Slot /\ x.points \in 2 .. x.to - x.from + 1
    BY DEF HistoryInv, HistoryTyped, Trip
  <2>2. \A r \in Rollup : /\ rollup[r].at \in {"idle", "read", "delete", "insert", "rebuild"}
                          /\ \A x \in rollup[r].found : x.from >= rollup[r].since
    <3>1. ASSUME NEW r \in Rollup, NEW x \in rollup[r].found PROVE x.from >= rollup[r].since
      <4>1. rollup[r] \in RollupState /\ x \in Trip /\ rollup[r].since <= x.from
        BY DEF HistoryInv, HistoryTyped, FindsApart, RollupState
      <4>2. x.from \in Nat /\ rollup[r].since \in Nat
        BY <4>1, TripFacts, HistoryBounds DEF RollupState, Slot
      <4> QED
        BY <4>1, <4>2
    <3> QED
      BY <3>1 DEF HistoryInv, HistoryTyped, RollupState
  <2> QED
    BY <2>1, <2>2 DEF HistoryTypeOK, HistoryInv, HistoryTyped, StartsAreUnique, HistoryRest
<1> QED
  BY HistoryStart, HistoryStep, RestStart, RestStep, <1>1, PTL DEF HistorySpec

-----------------------------------------------------------------------------
(* The run on sessions, teams and history together. *)

\* Whichever part moves in the run, each part sees a step of its own or a stutter: what
\* is proved of the parts holds in the run.
THEOREM PartsKeepTheirSpecs == Spec => SessionsSpec /\ TeamSpec /\ HistorySpec
<1>1. Init => SessionsInit /\ TeamInit /\ HistoryInit
  BY DEF Init
<1>2. [Next]_vars => [SessionsNext]_sessionsVars /\ [TeamNext]_teamVars /\ [HistoryNext]_historyVars
  BY DEF Next, vars
<1> QED
  BY <1>1, <1>2, PTL DEF Spec, SessionsSpec, TeamSpec, HistorySpec

\* The type invariant of the run is that of its parts.
THEOREM RecordsAreTyped == Spec => []RecordsTypeOK
  BY PartsKeepTheirSpecs, SessionsAreTyped, TeamTyped, HistoryIsTyped, PTL DEF RecordsTypeOK

=============================================================================
