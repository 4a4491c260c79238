---------------------------- MODULE PresenceStore ----------------------------
(***************************************************************************)
(* The shared presence entry of one device (packages/shared/src/           *)
(* presence.ts): which ingest instance holds its connection.  Ingest never *)
(* awaits a presence call, so the calls an instance has issued and Redis   *)
(* has not executed yet are part of the state.  RedisPresenceStore has one *)
(* client connection, which keeps them in order, and releases by a script; *)
(* UpstashPresenceStore sends each command as an HTTP request of its own,  *)
(* and its release is a GET, then a DEL.                                   *)
(***************************************************************************)
EXTENDS Integers, Sequences

CONSTANTS
  Inst,      \* ingest instances
  NoInst,    \* no entry
  Scripted   \* RedisPresenceStore (TRUE) or UpstashPresenceStore (FALSE)

VARIABLES
  holder,    \* the entry: an instance, or NoInst
  calls      \* what each instance has asked for and Redis has not executed

presenceVars == <<holder, calls>>

\* "delete" is the DEL that follows a GET that answered the instance's own id.
Calls == {"online", "offline", "delete"}

PresenceTypeOK ==
  /\ holder \in Inst \cup {NoInst}
  /\ calls \in [Inst -> Seq(Calls)]

PresenceInit ==
  /\ holder = NoInst
  /\ calls = [i \in Inst |-> <<>>]

\* Issuing a call; Redis is not involved yet.
Issue(i, call) ==
  /\ calls' = [calls EXCEPT ![i] = Append(@, call)]
  /\ UNCHANGED holder

\* The calls of instance i that Redis may execute next.
Deliverable(i) == IF Scripted THEN {n \in {1} : calls[i] # <<>>} ELSE DOMAIN calls[i]

\* Mutant: the script deletes the key whoever holds it.
ExecutedAny(h, i, call) ==
  IF call = "online" THEN i ELSE IF call = "delete" \/ Scripted THEN NoInst ELSE h

\* What a call of instance i makes of the entry h: SET, the script that deletes
\* the key only while i is its value, the GET that changes nothing, the DEL that
\* compares nothing.
Executed(h, i, call) ==
  IF call = "online" THEN i
  ELSE IF call = "delete" \/ (Scripted /\ h = i) THEN NoInst ELSE h

\* What the instance asks for when it has the call's answer.
FollowUp(h, i, call) ==
  IF call = "offline" /\ ~Scripted /\ h = i THEN <<"delete">> ELSE <<>>

\* The calls q without the n-th, which next replaces.
Replaced(q, n, next) == SubSeq(q, 1, n - 1) \o next \o SubSeq(q, n + 1, Len(q))

Execute(i, n) ==
  /\ n \in Deliverable(i)
  /\ holder' = Executed(holder, i, calls[i][n])
  /\ calls' = [calls EXCEPT ![i] = Replaced(@, n, FollowUp(holder, i, @[n]))]

\* The call fails; the caller only reports it.
LoseCall(i, n) ==
  /\ n \in Deliverable(i)
  /\ calls' = [calls EXCEPT ![i] = Replaced(@, n, <<>>)]
  /\ UNCHANGED holder

\* PRESENCE_TTL_MS after the last refresh.
ExpirePresence ==
  /\ holder # NoInst
  /\ holder' = NoInst
  /\ UNCHANGED calls
=============================================================================
