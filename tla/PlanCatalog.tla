---------------------------- MODULE PlanCatalog ----------------------------
(***************************************************************************)
(* The versioned plan catalog: the rows of plan_versions, the operator's   *)
(* price edit of apps/api/src/routes/admin.ts, and the cache every API     *)
(* process keeps of them (plan-service.ts).  A version of plan k is the    *)
(* pair <<k, n>>; n = 0 is the built-in constant, which has no id.         *)
(***************************************************************************)
EXTENDS Integers, Sequences, FiniteSets

CONSTANTS
  Plan,        \* plan keys, in the order of PLAN_ORDER
  Edited,      \* plans whose price the operator edits
  Edit,        \* price-edit requests that run at once
  Proc,        \* API processes
  MaxLoads,    \* bound: concurrent loads of a process that read different rows
  MaxVersion,  \* bound: versions per plan
  NoCache

VARIABLES
  versions,    \* how many versions of each plan exist
  active,      \* plans whose newest version is active; the older ones never are
  editing,     \* how far each price edit is
  loading,     \* snapshots that load() has read and not yet returned
  cache        \* the module variable of plan-service.ts in each process

catalogVars == <<versions, active, editing, loading, cache>>

Keys == {Plan[i] : i \in 1 .. Len(Plan)}
Snapshot == [known : [Keys -> 0 .. MaxVersion], current : [Keys -> 0 .. MaxVersion]]
NoEdit == [step |-> "none", key |-> Plan[1], next |-> 0]

ASSUME CatalogAssumption ==
  /\ Len(Plan) \in Nat \ {0} /\ Edited \subseteq Keys
  /\ MaxVersion \in Nat \ {0}
  /\ NoCache \notin Snapshot

CatalogTypeOK ==
  /\ versions \in [Keys -> 1 .. MaxVersion]
  /\ active \subseteq Keys
  /\ editing \in [Edit -> [step : {"none", "read", "archived"}, key : Keys, next : 0 .. MaxVersion]]
  /\ loading \in [Proc -> SUBSET Snapshot]
  /\ cache \in [Proc -> Snapshot \cup {NoCache}]

CatalogInit ==
  /\ versions = [k \in Keys |-> 1]
  /\ active = Keys
  /\ editing = [e \in Edit |-> NoEdit]
  /\ loading = [p \in Proc |-> {}]
  /\ cache = [p \in Proc |-> NoCache]

\* PUT /admin/plans/:key/version reads the highest version, archives the active
\* one and inserts the next, in three statements without a transaction.
EditReads(e, k) ==
  /\ editing[e].step = "none"
  /\ versions[k] < MaxVersion
  /\ editing' = [editing EXCEPT ![e] = [step |-> "read", key |-> k, next |-> versions[k] + 1]]
  /\ UNCHANGED <<versions, active, loading, cache>>

EditArchives(e) ==
  /\ editing[e].step = "read"
  /\ active' = active \ {editing[e].key}
  /\ editing' = [editing EXCEPT ![e].step = "archived"]
  /\ UNCHANGED <<versions, loading, cache>>

\* The insert, and the invalidation of the cache of the process that serves the
\* request.  The unique index on (planId, version) lets a number in only once.
EditInserts(e, p) ==
  LET k == editing[e].key
      n == editing[e].next
  IN  /\ editing[e].step = "archived"
      /\ n > versions[k]
      /\ versions' = [versions EXCEPT ![k] = n]
      /\ active' = active \cup {k}
      /\ cache' = [cache EXCEPT ![p] = NoCache]
      /\ editing' = [editing EXCEPT ![e] = NoEdit]
      /\ UNCHANGED loading

\* The insert fails, on that index or with the process: what the statement before
\* it archived stays archived.
EditFails(e) ==
  /\ editing[e].step = "archived"
  /\ editing' = [editing EXCEPT ![e] = NoEdit]
  /\ UNCHANGED <<versions, active, loading, cache>>

\* What load() reads: every version by id, archived or not, and the newest active
\* version of each plan.
Read == [known   |-> versions,
         current |-> [k \in Keys |-> IF k \in active THEN versions[k] ELSE 0]]

\* ensure(): every caller that finds no cache loads one, and the last to return
\* stays, whatever was invalidated meanwhile.
LoadReads(p) ==
  /\ cache[p] = NoCache
  /\ Cardinality(loading[p]) < MaxLoads
  /\ loading' = [loading EXCEPT ![p] = @ \cup {Read}]
  /\ UNCHANGED <<versions, active, editing, cache>>

\* Several callers may have read the same rows, so a snapshot may return again.
LoadReturns(p) ==
  \E s \in loading[p] :
    /\ loading' \in {loading, [loading EXCEPT ![p] = @ \ {s}]}
    /\ cache' = [cache EXCEPT ![p] = s]
    /\ UNCHANGED <<versions, active, editing>>

CatalogStep ==
  \/ \E e \in Edit, k \in Edited : EditReads(e, k)
  \/ \E e \in Edit : EditArchives(e) \/ EditFails(e)
  \/ \E e \in Edit, p \in Proc : EditInserts(e, p)
  \/ \E p \in Proc : LoadReads(p) \/ LoadReturns(p)

----------------------------------------------------------------------------
(* What a process answers from its cache, once it has one. *)

Warm(p) == cache[p] # NoCache

resolvePlanByKey(p, key) == <<key, cache[p].current[key]>>

resolveTenantPlan(p, key, pin) ==
  IF pin[2] > 0 /\ pin[2] <= cache[p].known[pin[1]] THEN pin ELSE resolvePlanByKey(p, key)
=============================================================================
