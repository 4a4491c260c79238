-------------------------- MODULE DeviceLinkProofs --------------------------
(***************************************************************************)
(* Proofs about DeviceLink for any number of commands, instances and       *)
(* connections: the gate is exact, a command is written at most once and   *)
(* never after its cancellation, a lost command is explained, so are a     *)
(* session and a presence entry that an open connection does not have, and *)
(* the link implements what CommandHandover promises.                      *)
(***************************************************************************)
EXTENDS DeviceLink, FiniteSetTheorems, SequenceTheorems, TLAPS

\* Where connections stand: those that have an instance are the ones that have
\* begun, the socket handler's closures belong to such connections, and a
\* session belongs to the instance that holds it.
Placed ==
  /\ \A c \in Conn : sock[c] = "new" <=> at[c] = NoInst
  /\ \A c \in checking \cup admitted : at[c] \in Inst
  /\ \A i \in Inst : session[i] # NoConn => at[session[i]] = i

-----------------------------------------------------------------------------
(* Types and places. *)

\* What a drain of an instance can be.
Drains == [phase : {"idle", "polling", "claimed", "writing", "nacking"},
           conn : Conn \cup {NoConn}, left : SUBSET Cmd, cmd : SUBSET Cmd]

\* What a drain starts or leaves (commands.ts lines 99-124) is a drain.
LEMMA LoopHeadType ==
  ASSUME TypeOK, NEW i \in Inst, NEW left \in SUBSET Cmd, NEW d \in LoopHead(i, left)
  PROVE  d \in Drains
BY DEF TypeOK, LoopHead, Idle, Drains

\* Whoever has a socket that is not closed is counted at its gate.
OpenAt(i) == {c \in Conn : at[c] = i /\ sock[c] \in {"open", "destroyed"}}

\* A call put on its way (presence.ts lines 110-130) leaves calls in order.
LEMMA IssueType ==
  ASSUME PresenceTypeOK, NEW i \in Inst, NEW call \in {"online", "offline"}, Issue(i, call)
  PROVE  PresenceTypeOK'
<1>1. Append(calls[i], call) \in Seq(Calls)
  BY AppendProperties DEF PresenceTypeOK, Calls
<1> QED
  BY <1>1 DEF PresenceTypeOK, Issue

\* What Redis executes or loses (presence.ts lines 91-98 and 115-125) leaves calls.
LEMMA PresenceCallTypes ==
  ASSUME PresenceTypeOK, NEW i \in Inst, NEW n \in Deliverable(i), Execute(i, n) \/ LoseCall(i, n)
  PROVE  PresenceTypeOK'
<1> DEFINE q == calls[i]
<1>1. q \in Seq(Calls) /\ n \in DOMAIN q /\ n \in 1 .. Len(q)
  BY DEF PresenceTypeOK, Deliverable
<1>2. ASSUME NEW next \in Seq(Calls) PROVE Replaced(q, n, next) \in Seq(Calls)
  <2>1. SubSeq(q, 1, n - 1) \in Seq(Calls) /\ SubSeq(q, n + 1, Len(q)) \in Seq(Calls)
    BY <1>1, SubSeqProperties
  <2> QED
    BY <1>2, <2>1, ConcatProperties DEF Replaced
<1>3. <<>> \in Seq(Calls) /\ FollowUp(holder, i, q[n]) \in Seq(Calls)
  <2>1. "delete" \in Calls
    BY DEF Calls
  <2>2. <<>> \in Seq(Calls) /\ <<"delete">> \in Seq(Calls)
    BY <2>1
  <2> QED
    BY <2>2 DEF FollowUp
<1>4. calls' \in [Inst -> Seq(Calls)]
  BY <1>2, <1>3 DEF Execute, LoseCall, PresenceTypeOK
<1>5. holder' \in Inst \cup {NoInst}
  BY DEF Execute, LoseCall, Executed, PresenceTypeOK
<1> QED
  BY <1>4, <1>5 DEF PresenceTypeOK

\* ConnectionGate.close (transport-security.ts lines 118-123) leaves a total.
LEMMA LeftType ==
  ASSUME NEW i \in Inst, NEW g \in [Inst -> Nat]
  PROVE  Left(i, g) \in [Inst -> Nat]
<1>1. (IF g[i] > 0 THEN g[i] - 1 ELSE 0) \in Nat
  OBVIOUS
<1> QED
  BY <1>1 DEF Left

\* The history of sessions and claims keeps its types, whatever happens.
LEMMA HistoryTypes ==
  ASSUME TypeOK, Placed, Next \/ UNCHANGED vars
  PROVE  HistoryTypeOK'
<1> USE DEF HistoryTypeOK
<1>0. HistoryTypeOK /\ \A C : Unmade(C) \in [Conn -> {"none", "made", "released"}]
  BY DEF TypeOK, Unmade
<1>1. ASSUME NEW c \in Conn, SocketStep(c) PROVE HistoryTypeOK'
  <2>1. CASE Admit(c)
    BY <1>0, <2>1 DEF Admit, Placed
  <2>2. CASE OnClose(c)
    <3>1. claim' = ReleasedWith(c) /\ UNCHANGED <<latest, late>>
      BY <2>2 DEF OnClose
    <3> QED
      BY <1>0, <3>1 DEF ReleasedWith
  <2>3. CASE Connect(c) \/ ReceiveFrames(c) \/ Refuse(c) \/ Disconnect(c)
    BY <1>0, <2>3 DEF Connect, ReceiveFrames, Refuse, Disconnect, historyVars
  <2> QED
    BY <1>1, <2>1, <2>2, <2>3 DEF SocketStep
<1>2. ASSUME NEW i \in Inst, DrainStep(i) PROVE HistoryTypeOK'
  BY <1>0, <1>2 DEF DrainStep, PollCommits, PollReturns, PollFails, WriteDone, WriteFails, Nack, NackFails,
                   socketVars, historyVars
<1>3. ASSUME NEW i \in Inst, Crash(i) PROVE HistoryTypeOK'
  BY <1>0, <1>3 DEF Crash
<1>4. ASSUME NEW k \in Cmd, ApiStep(k) PROVE HistoryTypeOK'
  BY <1>0, <1>4 DEF ApiStep, Queue, RequestWakeup, Cancel, ExpiryPasses, OnWakeup, socketVars, historyVars
<1>5. CASE PresenceStep
  <2>1. UNCHANGED <<latest, late>> /\ (claim' = claim \/ \E C : claim' = Unmade(C))
    BY <1>5 DEF PresenceStep, PresenceExecutes, PresenceLoses, PresenceExpires
  <2> QED
    BY <1>0, <2>1
<1>6. CASE StrayCommits \/ UNCHANGED vars
  BY <1>0, <1>6 DEF StrayCommits, vars, socketVars, historyVars
<1> QED
  BY <1>1, <1>2, <1>3, <1>4, <1>5, <1>6 DEF Next

\* A connection takes its place (server.ts lines 45-72).
LEMMA ConnectTypes ==
  ASSUME TypeOK, Placed, NEW c \in Conn, Connect(c)
  PROVE  TypeOK' /\ Placed'
<1> USE DEF TypeOK
<1>1. PICK i \in Inst :
        /\ at' = [at EXCEPT ![c] = i]
        /\ sock' \in {[sock EXCEPT ![c] = "open"], [sock EXCEPT ![c] = "closed"]}
        /\ gate' \in {gate, Entered(i, gate), Left(i, Entered(i, gate))}
  BY DEF Connect
<1>2. sock[c] = "new"
  BY DEF Connect
<1>3. UNCHANGED <<queueVars, presenceVars, checking, admitted, bound, session, commandVars, historyVars, faults>>
  BY DEF Connect
<1>4. gate' \in [Inst -> Nat]
  <2>1. Entered(i, gate) \in [Inst -> Nat]
    BY DEF Entered
  <2> QED
    BY <1>1, <2>1, LeftType
<1>5. TypeOK'
  BY <1>1, <1>2, <1>3, <1>4 DEF QueueTypeOK, PresenceTypeOK, HistoryTypeOK, queueVars, presenceVars, commandVars, historyVars
<1>6. Placed'
  BY <1>1, <1>2, <1>3, LinkAssumption DEF Placed
<1> QED
  BY <1>5, <1>6

\* An admitted connection registers its session on its own instance (server.ts
\* lines 102-133), even when the socket is gone by then.
LEMMA AdmitTypes ==
  ASSUME TypeOK, Placed, NEW c \in Conn, Admit(c)
  PROVE  TypeOK' /\ Placed'
<1> DEFINE i == at[c]
           s == [session EXCEPT ![i] = c]
<1>1. /\ i \in Inst
      /\ checking' = checking \ {c} /\ admitted' = admitted \cup {c}
      /\ session' = s /\ bound' = bound \cup {c} /\ unpolled' = unpolled \cup {c}
      /\ Drain(i, s) /\ Issue(i, "online")
      /\ UNCHANGED <<stray, queueVars, at, sock, gate, asking, wake, faults, written, claimant>>
  BY DEF Placed, Admit
<1>2. s \in [Inst -> Conn \cup {NoConn}]
  BY DEF TypeOK
<1>3. drain' \in [Inst -> Drains]
  BY <1>1, <1>2 DEF TypeOK, Drain, Idle, Drains
<1>4. PresenceTypeOK'
  BY <1>1, IssueType DEF TypeOK
<1>5. HistoryTypeOK'
  BY HistoryTypes DEF Next, SocketStep
<1>6. TypeOK'
  BY <1>1, <1>2, <1>3, <1>4, <1>5 DEF TypeOK, Drains, QueueTypeOK, queueVars
<1>7. Placed'
  BY <1>1 DEF Placed, TypeOK
<1> QED
  BY <1>6, <1>7

\* So does 'close' (server.ts lines 208-222).
LEMMA CloseTypes ==
  ASSUME TypeOK, Placed, NEW c \in Conn, OnClose(c)
  PROVE  TypeOK' /\ Placed'
<1>1. /\ sock[c] = "destroyed" /\ at[c] \in Inst
      /\ sock' = [sock EXCEPT ![c] = "closed"]
      /\ gate' = Left(at[c], gate)
      /\ session' \in {session, [session EXCEPT ![at[c]] = NoConn]}
      /\ UNCHANGED <<queueVars, at, checking, admitted, bound, commandVars, faults>>
  BY DEF OnClose, Unregistered, TypeOK, Placed
<1>2. PresenceTypeOK'
  BY <1>1, IssueType DEF TypeOK, PresenceTypeOK, OnClose, presenceVars
<1>3. gate' \in [Inst -> Nat]
  BY <1>1, LeftType DEF TypeOK
<1>4. HistoryTypeOK'
  BY HistoryTypes DEF Next, SocketStep
<1>5. TypeOK'
  BY <1>1, <1>2, <1>3, <1>4 DEF TypeOK, QueueTypeOK, queueVars, commandVars
<1>6. Placed'
  BY <1>1, LinkAssumption DEF TypeOK, Placed
<1> QED
  BY <1>5, <1>6

\* The callbacks of a connection keep types and places.
LEMMA SocketTypes ==
  ASSUME TypeOK, Placed, NEW c \in Conn, SocketStep(c)
  PROVE  TypeOK' /\ Placed'
<1>0. HistoryTypeOK'
  BY HistoryTypes DEF Next
<1>1. CASE ReceiveFrames(c)
  <2>1. at[c] \in Inst
    BY <1>1 DEF ReceiveFrames, Placed, TypeOK
  <2>2. PresenceTypeOK'
    BY <1>1, <2>1, IssueType DEF ReceiveFrames, TypeOK, PresenceTypeOK, presenceVars
  <2>3. /\ checking' \in {checking, checking \cup {c}} /\ bound' \in {bound, bound \cup {c}}
        /\ UNCHANGED <<queueVars, at, sock, admitted, session, gate, commandVars, faults>>
    BY <1>1 DEF ReceiveFrames
  <2>4. TypeOK'
    BY <1>0, <2>2, <2>3 DEF TypeOK, QueueTypeOK, queueVars, commandVars
  <2>5. Placed'
    BY <2>1, <2>3 DEF Placed
  <2> QED
    BY <2>4, <2>5
<1>2. CASE Refuse(c) \/ Disconnect(c)
  <2>1. /\ sock[c] # "new" /\ checking' \subseteq checking
        /\ sock' \in {sock, [sock EXCEPT ![c] = "destroyed"]}
        /\ UNCHANGED <<queueVars, presenceVars, at, admitted, bound, session, gate, commandVars, faults>>
    BY <1>2, LinkAssumption DEF Refuse, Disconnect, TypeOK, Placed
  <2>2. TypeOK'
    BY <1>0, <2>1 DEF TypeOK, QueueTypeOK, PresenceTypeOK, queueVars, presenceVars, commandVars
  <2>3. Placed'
    BY <2>1 DEF TypeOK, Placed
  <2> QED
    BY <2>2, <2>3
<1> QED
  BY <1>1, <1>2, ConnectTypes, AdmitTypes, CloseTypes DEF SocketStep

\* So does every step of drainOnce (commands.ts lines 112-124).
LEMMA DrainTypes ==
  ASSUME TypeOK, Placed, NEW i \in Inst, DrainStep(i)
  PROVE  TypeOK' /\ Placed'
<1>1. drain[i].left \in SUBSET Cmd /\ drain[i].cmd \in SUBSET Cmd /\ drain \in [Inst -> Drains]
  BY DEF TypeOK, Drains
<1>2. ASSUME NEW d \in LoopHead(i, drain[i].left) PROVE [drain EXCEPT ![i] = d] \in [Inst -> Drains]
  BY <1>1, <1>2, LoopHeadType
<1>3. Placed'
  BY DEF DrainStep, PollCommits, PollReturns, PollFails, WriteDone, WriteFails, Nack, NackFails,
         Placed, socketVars
<1>4. UNCHANGED <<presenceVars, socketVars, asking, wake>>
  BY DEF DrainStep, PollCommits, PollReturns, PollFails, WriteDone, WriteFails, Nack, NackFails
<1>5. drain' \in [Inst -> Drains]
  BY <1>1, <1>2 DEF Drains, DrainStep, PollCommits, PollReturns, PollFails, WriteDone, WriteFails, Nack, NackFails, Claimable, Idle
<1>6. QueueTypeOK'
  <2>1. CASE PollCommits(i)
    BY <2>1 DEF TypeOK, QueueTypeOK, PollCommits, ClaimPending
  <2>2. CASE Nack(i)
    BY <2>2, <1>1 DEF TypeOK, QueueTypeOK, Nack, AckCommand
  <2>3. CASE UNCHANGED queueVars
    BY <2>3 DEF TypeOK, QueueTypeOK, queueVars
  <2> QED
    BY <2>1, <2>2, <2>3 DEF DrainStep, PollReturns, PollFails, WriteDone, WriteFails, NackFails
<1>7. faults' \in 0 .. MaxFaults
  BY LinkAssumption DEF TypeOK, DrainStep, PollCommits, PollReturns, PollFails, WriteDone, WriteFails, Nack, NackFails
<1>8. written' \in [Cmd -> Nat]
  BY DEF TypeOK, DrainStep, PollCommits, PollReturns, PollFails, WriteDone, WriteFails, Nack, NackFails
<1>9. /\ stray' \in BOOLEAN /\ claimant' \in [Cmd -> Conn \cup {NoConn}]
      /\ unpolled' \subseteq Conn
  BY DEF TypeOK, DrainStep, PollCommits, PollReturns, PollFails, WriteDone, WriteFails, Nack, NackFails, Abandoned
<1>10. HistoryTypeOK'
  BY HistoryTypes DEF Next
<1>11. TypeOK'
  BY <1>4, <1>5, <1>6, <1>7, <1>8, <1>9, <1>10 DEF TypeOK, Drains, PresenceTypeOK, presenceVars, socketVars
<1> QED
  BY <1>3, <1>11

\* The API, the subscriber, Redis and a stray poll.
LEMMA ApiTypes ==
  ASSUME TypeOK, Placed, NEW k \in Cmd, ApiStep(k)
  PROVE  TypeOK' /\ Placed'
<1>1. UNCHANGED <<stray, presenceVars, socketVars, written, claimant, unpolled, faults>>
  BY DEF ApiStep, Queue, RequestWakeup, Cancel, ExpiryPasses, OnWakeup, commandVars
<1>2. QueueTypeOK'
  BY DEF TypeOK, QueueTypeOK, queueVars, ApiStep, Queue, RequestWakeup, Cancel, ExpiryPasses, OnWakeup,
         QueueCommand, CancelCommand, Lapse
<1>3. drain' \in [Inst -> Drains]
  <2>1. ASSUME NEW i \in Inst, Drain(i, session)
        PROVE  drain' \in [Inst -> Drains]
    BY <2>1 DEF TypeOK, Drain, Idle, Drains
  <2>2. CASE drain' = drain
    BY <2>2 DEF TypeOK, Drains
  <2> QED
    BY <2>1, <2>2 DEF ApiStep, Queue, RequestWakeup, Cancel, ExpiryPasses, OnWakeup, commandVars
<1>4. asking' \subseteq Cmd
  BY DEF TypeOK, ApiStep, Queue, RequestWakeup, Cancel, ExpiryPasses, OnWakeup, commandVars
<1>5. wake' \in [Inst -> SUBSET Cmd]
  BY DEF TypeOK, PresenceTypeOK, ApiStep, Queue, RequestWakeup, Cancel, ExpiryPasses, OnWakeup, commandVars
<1>6. HistoryTypeOK'
  BY HistoryTypes DEF Next
<1>7. TypeOK'
  BY <1>1, <1>2, <1>3, <1>4, <1>5, <1>6 DEF TypeOK, Drains, PresenceTypeOK, presenceVars, socketVars
<1>8. Placed'
  BY <1>1 DEF Placed, socketVars
<1> QED
  BY <1>7, <1>8

\* A crash leaves the connections of the instance where they were, closed, and
\* none of its closures.
LEMMA CrashTypes ==
  ASSUME TypeOK, Placed, NEW i \in Inst, Crash(i)
  PROVE  TypeOK' /\ Placed'
<1> DEFINE mine == {c \in Conn : at[c] = i}
<1>1. /\ faults < MaxFaults /\ faults' = faults + 1
      /\ sock' = [c \in Conn |-> IF c \in mine THEN "closed" ELSE sock[c]]
      /\ checking' = checking \ mine /\ admitted' = admitted \ mine
      /\ bound' = bound \ mine /\ unpolled' = unpolled \ mine
      /\ session' = [session EXCEPT ![i] = NoConn]
      /\ gate' = [gate EXCEPT ![i] = 0]
      /\ drain' = [drain EXCEPT ![i] = Idle]
      /\ wake' = [wake EXCEPT ![i] = {}]
      /\ calls' = [calls EXCEPT ![i] = <<>>]
      /\ UNCHANGED <<queueVars, at, holder, asking, written, claimant>>
  BY DEF Crash
<1>2. stray' \in BOOLEAN
  BY DEF TypeOK, Crash, Abandoned
<1>3. PresenceTypeOK'
  BY <1>1, EmptySeq DEF TypeOK, PresenceTypeOK
<1>4. faults' \in 0 .. MaxFaults
  BY <1>1, LinkAssumption DEF TypeOK
<1>5. drain' \in [Inst -> Drains]
  BY <1>1 DEF TypeOK, Idle, Drains
<1>6. HistoryTypeOK'
  BY HistoryTypes DEF Next
<1>7. TypeOK'
  BY <1>1, <1>2, <1>3, <1>4, <1>5, <1>6 DEF TypeOK, Drains, QueueTypeOK, queueVars
<1>8. Placed'
  BY <1>1, LinkAssumption DEF TypeOK, Placed
<1> QED
  BY <1>7, <1>8

\* Redis, and the API for a poll nobody waits for, touch no socket.
LEMMA OtherTypes ==
  ASSUME TypeOK, Placed, PresenceStep \/ StrayCommits \/ UNCHANGED vars
  PROVE  TypeOK' /\ Placed'
<1>0. HistoryTypeOK'
  BY HistoryTypes DEF Next
<1>1. CASE PresenceStep
  <2>1. PresenceTypeOK'
    <3>1. ASSUME NEW i \in Inst, NEW n \in Deliverable(i), PresenceExecutes(i, n) \/ PresenceLoses(i, n)
          PROVE  PresenceTypeOK'
      BY <3>1, PresenceCallTypes DEF PresenceExecutes, PresenceLoses, TypeOK
    <3> QED
      BY <1>1, <3>1 DEF PresenceStep, PresenceExpires, ExpirePresence, TypeOK, PresenceTypeOK
  <2>2. UNCHANGED <<queueVars, at, sock, checking, admitted, bound, session, gate, commandVars, faults>>
    BY <1>1 DEF PresenceStep
  <2> QED
    BY <1>0, <2>1, <2>2 DEF TypeOK, QueueTypeOK, Placed, queueVars, commandVars
<1>2. CASE StrayCommits
  BY <1>0, <1>2 DEF StrayCommits, ClaimPending, TypeOK, QueueTypeOK, PresenceTypeOK, Placed, presenceVars, socketVars
<1>3. CASE UNCHANGED vars
  BY <1>0, <1>3 DEF vars, TypeOK, QueueTypeOK, PresenceTypeOK, Placed, queueVars, presenceVars, socketVars, commandVars
<1> QED
  BY <1>1, <1>2, <1>3

-----------------------------------------------------------------------------
(* The gate. *)

\* ConnectionGate.total with what its definition by a cardinality needs: only
\* finitely many connections are counted at an instance.
GateKept == GateExact /\ \A i \in Inst : IsFiniteSet(OpenAt(i))

\* A destroyed socket is still counted, so 'close' (server.ts line 210) never
\* takes the total below zero.
LEMMA CloseCounts ==
  ASSUME TypeOK, Placed, GateKept, NEW c \in Conn, sock[c] \in {"open", "destroyed"}
  PROVE  /\ at[c] \in Inst
         /\ c \in OpenAt(at[c])
         /\ gate[at[c]] # 0
<1>1. at[c] \in Inst
  BY DEF TypeOK, Placed
<1>2. c \in OpenAt(at[c])
  BY DEF OpenAt
<1>3. gate[at[c]] = Cardinality(OpenAt(at[c])) /\ IsFiniteSet(OpenAt(at[c]))
  BY <1>1 DEF GateKept, GateExact, OpenAt
<1>4. gate[at[c]] # 0
  BY <1>2, <1>3, FS_EmptySet
<1> QED
  BY <1>1, <1>2, <1>4

\* The count follows the sockets: connect adds one, 'close' removes it, a crash
\* starts from nothing, and no other callback touches either.
LEMMA GateStep ==
  ASSUME TypeOK, Placed, GateKept, [Next]_vars
  PROVE  GateKept'
<1>1. ASSUME NEW c \in Conn, Connect(c)
      PROVE  GateKept'
  <2>1. PICK i \in Inst :
          /\ at' = [at EXCEPT ![c] = i]
          /\ \/ /\ sock' = [sock EXCEPT ![c] = "open"]
                /\ gate' = [gate EXCEPT ![i] = @ + 1]
             \/ /\ sock' = [sock EXCEPT ![c] = "closed"]
                /\ gate' = gate
    <3>1. ASSUME NEW i \in Inst PROVE Left(i, Entered(i, gate)) = gate
      <4>1. gate[i] \in Nat /\ gate \in [Inst -> Nat]
        BY DEF TypeOK
      <4>2. Entered(i, gate) = [gate EXCEPT ![i] = gate[i] + 1]
        BY DEF Entered
      <4>3. Left(i, Entered(i, gate)) = [Entered(i, gate) EXCEPT ![i] = gate[i]]
        BY <4>1, <4>2 DEF Left
      <4> QED
        BY <4>1, <4>2, <4>3
    <3> QED
      BY <1>1, <3>1 DEF Connect, Entered
  <2>2. sock[c] = "new" /\ at[c] = NoInst
    BY <1>1 DEF Connect, Placed
  <2>3. ASSUME NEW j \in Inst
        PROVE  gate'[j] = Cardinality(OpenAt(j)') /\ IsFiniteSet(OpenAt(j)')
    <3>1. gate[j] = Cardinality(OpenAt(j)) /\ IsFiniteSet(OpenAt(j))
      BY DEF GateKept, GateExact, OpenAt
    <3>2. c \notin OpenAt(j)
      BY <2>2 DEF OpenAt
    <3>3. CASE j = i /\ sock' = [sock EXCEPT ![c] = "open"] /\ gate' = [gate EXCEPT ![i] = @ + 1]
      <4>1. OpenAt(j)' = OpenAt(j) \cup {c}
        BY <3>3, <2>1 DEF OpenAt, TypeOK
      <4>2. gate'[j] = gate[j] + 1
        BY <3>3 DEF TypeOK
      <4> QED
        BY <3>1, <3>2, <4>1, <4>2, FS_AddElement
    <3>4. CASE ~(j = i /\ sock' = [sock EXCEPT ![c] = "open"] /\ gate' = [gate EXCEPT ![i] = @ + 1])
      <4>1. OpenAt(j)' = OpenAt(j)
        BY <3>2, <3>4, <2>1, <2>2, LinkAssumption DEF OpenAt, TypeOK
      <4>2. gate'[j] = gate[j]
        BY <2>1, <3>4 DEF TypeOK
      <4> QED
        BY <3>1, <4>1, <4>2
    <3> QED
      BY <3>3, <3>4
  <2> QED
    BY <2>3 DEF GateKept, GateExact, OpenAt
<1>2. ASSUME NEW c \in Conn, OnClose(c)
      PROVE  GateKept'
  <2>1. /\ sock[c] = "destroyed" /\ sock' = [sock EXCEPT ![c] = "closed"]
        /\ gate' = [gate EXCEPT ![at[c]] = @ - 1] /\ at' = at
    <3>1. at[c] \in Inst /\ gate[at[c]] > 0
      BY <1>2, CloseCounts DEF OnClose, TypeOK
    <3> QED
      BY <1>2, <3>1 DEF OnClose, Left
  <2>2. ASSUME NEW j \in Inst
        PROVE  gate'[j] = Cardinality(OpenAt(j)') /\ IsFiniteSet(OpenAt(j)')
    <3>1. gate[j] = Cardinality(OpenAt(j)) /\ IsFiniteSet(OpenAt(j))
      BY DEF GateKept, GateExact, OpenAt
    <3>2. CASE j = at[c]
      <4>1. OpenAt(j)' = OpenAt(j) \ {c} /\ c \in OpenAt(j)
        BY <2>1, <3>2 DEF OpenAt, TypeOK
      <4>2. gate'[j] = gate[j] - 1
        BY <2>1, <3>2 DEF TypeOK
      <4> QED
        BY <3>1, <4>1, <4>2, FS_RemoveElement
    <3>3. CASE j # at[c]
      <4>1. OpenAt(j)' = OpenAt(j)
        BY <2>1, <3>3 DEF OpenAt, TypeOK
      <4>2. gate'[j] = gate[j]
        BY <2>1, <3>3 DEF TypeOK
      <4> QED
        BY <3>1, <4>1, <4>2
    <3> QED
      BY <3>2, <3>3
  <2> QED
    BY <2>2 DEF GateKept, GateExact, OpenAt
<1>3. ASSUME NEW i \in Inst, Crash(i)
      PROVE  GateKept'
  <2>1. /\ sock' = [c \in Conn |-> IF at[c] = i THEN "closed" ELSE sock[c]]
        /\ gate' = [gate EXCEPT ![i] = 0] /\ at' = at
    BY <1>3 DEF Crash
  <2>2. ASSUME NEW j \in Inst
        PROVE  gate'[j] = Cardinality(OpenAt(j)') /\ IsFiniteSet(OpenAt(j)')
    <3>1. CASE j = i
      <4>1. OpenAt(j)' = {} /\ gate'[j] = 0
        BY <2>1, <3>1 DEF OpenAt, TypeOK
      <4> QED
        BY <4>1, FS_EmptySet
    <3>2. CASE j # i
      <4>1. OpenAt(j)' = OpenAt(j) /\ gate'[j] = gate[j]
        BY <2>1, <3>2 DEF OpenAt, TypeOK
      <4> QED
        BY <4>1 DEF GateKept, GateExact, OpenAt
    <3> QED
      BY <3>1, <3>2
  <2> QED
    BY <2>2 DEF GateKept, GateExact, OpenAt
<1>4. ASSUME NEW c \in Conn, Refuse(c) \/ Disconnect(c)
      PROVE  GateKept'
  <2>1. /\ sock' \in {sock, [sock EXCEPT ![c] = IF sock[c] = "open" THEN "destroyed" ELSE @]}
        /\ gate' = gate /\ at' = at
    BY <1>4 DEF Refuse, Disconnect
  <2>2. \A j \in Inst : OpenAt(j)' = OpenAt(j)
    BY <2>1 DEF OpenAt, TypeOK
  <2> QED
    BY <2>1, <2>2 DEF GateKept, GateExact, OpenAt
<1>5. CASE UNCHANGED <<at, sock, gate>>
  <2>1. \A j \in Inst : OpenAt(j)' = OpenAt(j)
    BY <1>5 DEF OpenAt
  <2> QED
    BY <1>5, <2>1 DEF GateKept, GateExact, OpenAt
<1>6. ASSUME NEW c \in Conn, ReceiveFrames(c) \/ Admit(c) PROVE UNCHANGED <<at, sock, gate>>
  BY <1>6 DEF ReceiveFrames, Admit
<1>7. ASSUME NEW i \in Inst, DrainStep(i) PROVE UNCHANGED <<at, sock, gate>>
  BY <1>7 DEF DrainStep, PollCommits, PollReturns, PollFails, WriteDone, WriteFails, Nack, NackFails, socketVars
<1>8. ASSUME NEW k \in Cmd, ApiStep(k) PROVE UNCHANGED <<at, sock, gate>>
  BY <1>8 DEF ApiStep, Queue, RequestWakeup, Cancel, ExpiryPasses, OnWakeup, socketVars
<1>9. ASSUME PresenceStep \/ StrayCommits \/ UNCHANGED vars PROVE UNCHANGED <<at, sock, gate>>
  BY <1>9 DEF PresenceStep, StrayCommits, vars, socketVars
<1> QED
  BY <1>1, <1>2, <1>3, <1>4, <1>5, <1>6, <1>7, <1>8, <1>9 DEF Next, SocketStep

\* What holds of the sockets in every reachable state.
LinkInv == TypeOK /\ Placed /\ GateKept

\* The module state of a fresh process (server.ts lines 22-39).
LEMMA LinkInit == Init => LinkInv
<1> SUFFICES ASSUME Init PROVE LinkInv
  OBVIOUS
<1>1. QueueTypeOK /\ PresenceTypeOK
  BY EmptySeq DEF QueueTypeOK, PresenceTypeOK, Init, QueueInit, PresenceInit
<1>2. faults \in 0 .. MaxFaults
  BY LinkAssumption DEF Init
<1>3. TypeOK
  BY <1>1, <1>2 DEF TypeOK, HistoryTypeOK, Init, Idle
<1>4. Placed
  BY DEF Placed, Init
<1>5. ASSUME NEW i \in Inst PROVE OpenAt(i) = {}
  BY DEF OpenAt, Init
<1>6. GateKept
  BY <1>5, FS_EmptySet DEF GateKept, GateExact, OpenAt, Init
<1> QED
  BY <1>3, <1>4, <1>6 DEF LinkInv

\* Every callback keeps it.
LEMMA LinkStep == LinkInv /\ [Next]_vars => LinkInv'
<1> SUFFICES ASSUME LinkInv, [Next]_vars PROVE LinkInv'
  OBVIOUS
<1>1. GateKept'
  BY GateStep DEF LinkInv
<1>2. TypeOK' /\ Placed'
  BY SocketTypes, DrainTypes, CrashTypes, ApiTypes, OtherTypes DEF LinkInv, Next
<1> QED
  BY <1>1, <1>2 DEF LinkInv

\* DeviceLink keeps its types: no counter goes below zero, no queue or drain
\* holds anything else than commands, whatever the callbacks' order.
THEOREM LinkTyped == Spec => []TypeOK
<1>1. LinkInv => TypeOK
  BY DEF LinkInv
<1> QED
  BY LinkInit, LinkStep, <1>1, PTL DEF Spec

\* The gate of each instance (server.ts lines 47-56 and 210) counts exactly the
\* sockets that are not closed, on every path a connection ends.
THEOREM GateIsExact == Spec => []GateExact
<1>1. LinkInv => GateExact
  BY DEF LinkInv, GateKept
<1> QED
  BY LinkInit, LinkStep, <1>1, PTL DEF Spec

-----------------------------------------------------------------------------
(* Custody of the commands. *)

\* The commands a drain has claimed and not written yet.
Holds(d) == d.left \cup d.cmd

\* What a drain holds in each phase of drainOnce (commands.ts lines 112-124).
Shape(d) ==
  /\ d.phase \in {"idle", "polling"} => d.left = {}
  /\ d.phase \notin {"writing", "nacking"} => d.cmd = {}
  /\ d.phase \in {"writing", "nacking"} => \E k \in Cmd : d.cmd = {k}
  /\ d.cmd \cap d.left = {}

\* A command is in one pair of hands: only a claimed row is held, by one drain,
\* and it is written when it leaves that drain or never.
Custody ==
  /\ \A i \in Inst : Shape(drain[i])
  /\ \A i, j \in Inst : i # j => Holds(drain[i]) \cap Holds(drain[j]) = {}
  /\ \A i \in Inst : \A k \in Holds(drain[i]) : written[k] = 0 /\ row[k] = "sent"
  /\ \A k \in Cmd : row[k] \in {"none", "queued", "canceled", "expired"} => written[k] = 0
  /\ \A k \in Cmd : written[k] <= 1

\* The head of the write loop goes on with everything that is left, or with
\* nothing: because nothing is left, or because the socket is gone or replaced.
LEMMA LoopHeadHolds ==
  ASSUME TypeOK, NEW i \in Inst, NEW left \in SUBSET Cmd, NEW d \in LoopHead(i, left)
  PROVE  /\ d \in Drains /\ Shape(d)
         /\ \/ d = Idle /\ (left = {} \/ sock[drain[i].conn] # "open" \/ session[i] # drain[i].conn)
            \/ d.phase = "writing" /\ d.conn = drain[i].conn /\ Holds(d) = left
BY LoopHeadType DEF LoopHead, Idle, Shape, Holds, Drains

\* A drain that writes, acknowledges or gives up some of what it holds keeps the
\* custody of the rest, if what it lets go was claimed and is written at most now.
LEMMA DrainLetsGo ==
  ASSUME TypeOK, Custody, NEW i \in Inst, NEW d \in Drains,
         drain' = [drain EXCEPT ![i] = d],
         Shape(d), Holds(d) \subseteq Holds(drain[i]),
         \A k \in Cmd : \/ row'[k] = row[k] /\ written'[k] = written[k]
                        \/ /\ k \in Holds(drain[i]) \ Holds(d)
                           /\ row'[k] \in {"sent", "failed"}
                           /\ written'[k] \in {0, 1}
  PROVE  Custody'
<1>1. \A j \in Inst : drain'[j] = IF j = i THEN d ELSE drain[j]
  BY DEF TypeOK
<1>2. \A j \in Inst : Holds(drain'[j]) \subseteq Holds(drain[j]) /\ Holds(drain'[j]) \subseteq Cmd
  BY <1>1 DEF TypeOK, Holds, Drains
<1>3. \A j \in Inst : Shape(drain'[j])
  BY <1>1 DEF Custody
<1>4. \A j, l \in Inst : j # l => Holds(drain'[j]) \cap Holds(drain'[l]) = {}
  BY <1>2 DEF Custody
<1>5. \A j \in Inst : \A k \in Holds(drain'[j]) : written'[k] = 0 /\ row'[k] = "sent"
  BY <1>1, <1>2 DEF Custody
<1>6. \A k \in Cmd : /\ row'[k] \in {"none", "queued", "canceled", "expired"} => written'[k] = 0
                     /\ written'[k] <= 1
  BY DEF Custody
<1> QED
  BY <1>3, <1>4, <1>5, <1>6 DEF Custody, Shape, Holds

\* A row nobody holds may change in the API: nothing of it was written.
LEMMA RowsChange ==
  ASSUME Custody, UNCHANGED <<drain, written>>,
         \A k \in Cmd : row'[k] = row[k] \/ row[k] \in {"none", "queued"},
         TypeOK
  PROVE  Custody'
<1>1. \A i \in Inst : Holds(drain[i]) \subseteq Cmd
  BY DEF TypeOK, Holds
<1> QED
  BY <1>1 DEF Custody, Shape, Holds

\* Callers of drain() (commands.ts lines 99-110) start a poll that holds nothing.
LEMMA DrainHolds ==
  ASSUME TypeOK, Custody, NEW i \in Inst, NEW s \in [Inst -> Conn \cup {NoConn}], Drain(i, s)
  PROVE  \E d \in Drains : drain' = [drain EXCEPT ![i] = d] /\ Shape(d) /\ Holds(d) = Holds(drain[i])
<1>1. drain[i] \in Drains /\ Shape(drain[i])
  BY DEF TypeOK, Drains, Custody
<1>2. CASE drain[i].phase = "idle" /\ s[i] # NoConn /\ sock[s[i]] = "open"
  <2> DEFINE d == [Idle EXCEPT !.phase = "polling", !.conn = s[i]]
  <2>1. d \in Drains /\ Shape(d) /\ Holds(d) = {} /\ Holds(drain[i]) = {}
    BY <1>1, <1>2 DEF Idle, Drains, Shape, Holds
  <2>2. drain' = [drain EXCEPT ![i] = d]
    BY <1>2 DEF Drain
  <2> QED
    BY <2>1, <2>2
<1>3. CASE ~(drain[i].phase = "idle" /\ s[i] # NoConn /\ sock[s[i]] = "open")
  <2>1. drain' = [drain EXCEPT ![i] = drain[i]]
    BY <1>3 DEF Drain
  <2> QED
    BY <1>1, <2>1
<1> QED
  BY <1>2, <1>3

\* A committed claim (positions.ts lines 167-201) takes rows that nobody held.
LEMMA ClaimCustody ==
  ASSUME TypeOK, Custody, NEW i \in Inst, PollCommits(i)
  PROVE  Custody'
<1>1. /\ drain[i].phase = "polling"
      /\ row' = [k \in Cmd |-> IF row[k] # "queued" THEN row[k]
                               ELSE IF k \in lapsed THEN "expired" ELSE "sent"]
      /\ drain' = [drain EXCEPT ![i].phase = "claimed", ![i].left = Claimable]
      /\ written' = written
  BY DEF PollCommits, ClaimPending
<1>2. drain[i].left = {} /\ drain[i].cmd = {}
  BY <1>1 DEF Custody, Shape
<1>3. \A j \in Inst : j # i => drain'[j] = drain[j]
  BY <1>1 DEF TypeOK
<1>4. drain'[i].phase = "claimed" /\ drain'[i].left = Claimable /\ drain'[i].cmd = {}
  BY <1>1, <1>2 DEF TypeOK
<1>5. \A k \in Claimable : /\ row[k] = "queued" /\ written[k] = 0 /\ row'[k] = "sent"
                           /\ \A j \in Inst : k \notin Holds(drain[j])
  BY <1>1 DEF Claimable, Custody
<1>6. \A j \in Inst : Holds(drain[j]) \subseteq Cmd
  BY DEF TypeOK, Holds
<1>7. \A j \in Inst : Shape(drain'[j])
  BY <1>3, <1>4 DEF Custody, Shape
<1>8. Holds(drain'[i]) = Claimable /\ \A j \in Inst : j # i => Holds(drain'[j]) = Holds(drain[j])
  BY <1>3, <1>4 DEF Holds
<1>9. \A j, l \in Inst : j # l => Holds(drain'[j]) \cap Holds(drain'[l]) = {}
  BY <1>5, <1>8 DEF Custody
<1>10. \A j \in Inst : \A k \in Holds(drain'[j]) : written'[k] = 0 /\ row'[k] = "sent"
  BY <1>1, <1>5, <1>6, <1>8 DEF Custody
<1>11. \A k \in Cmd : /\ row'[k] \in {"none", "queued", "canceled", "expired"} => written'[k] = 0
                      /\ written'[k] <= 1
  BY <1>1 DEF Custody
<1> QED
  BY <1>7, <1>9, <1>10, <1>11 DEF Custody, Shape, Holds

\* The steps of drainOnce keep custody: what a step does not write, acknowledge
\* or give up stays with its drain.
LEMMA DrainCustody ==
  ASSUME TypeOK, Custody, NEW i \in Inst, DrainStep(i)
  PROVE  Custody'
<1>1. /\ drain[i] \in Drains /\ Shape(drain[i])
      /\ drain[i].left \in SUBSET Cmd /\ drain[i].cmd \in SUBSET Cmd
      /\ Idle \in Drains /\ Shape(Idle) /\ Holds(Idle) = {}
  BY DEF TypeOK, Custody, Drains, Idle, Shape, Holds
<1>2. CASE PollReturns(i)
  <2>1. PICK d \in LoopHead(i, drain[i].left) : drain' = [drain EXCEPT ![i] = d]
    BY <1>2 DEF PollReturns
  <2>2. d \in Drains /\ Shape(d) /\ Holds(d) \subseteq Holds(drain[i])
    BY <1>1, <2>1, LoopHeadHolds DEF Holds, Idle
  <2>3. row' = row /\ written' = written
    BY <1>2 DEF PollReturns, queueVars
  <2> QED
    BY <2>1, <2>2, <2>3, DrainLetsGo
<1>3. CASE PollFails(i) \/ NackFails(i)
  <2>1. drain' = [drain EXCEPT ![i] = Idle] /\ row' = row /\ written' = written
    BY <1>3 DEF PollFails, NackFails, queueVars
  <2> QED
    BY <1>1, <2>1, DrainLetsGo
<1>4. CASE WriteDone(i)
  <2>1. PICK d \in LoopHead(i, drain[i].left) : drain' = [drain EXCEPT ![i] = d]
    BY <1>4 DEF WriteDone
  <2>2. /\ drain[i].cmd \cap drain[i].left = {}
        /\ row' = row
        /\ written' = [k \in Cmd |-> IF k \in drain[i].cmd THEN written[k] + 1 ELSE written[k]]
    BY <1>1, <1>4 DEF WriteDone, Shape, queueVars
  <2>3. d \in Drains /\ Shape(d) /\ Holds(d) \subseteq drain[i].left
    BY <1>1, <2>1, LoopHeadHolds DEF Holds, Idle
  <2>4. \A k \in drain[i].cmd : k \in Holds(drain[i]) /\ k \notin Holds(d) /\ written[k] = 0 /\ row[k] = "sent"
    BY <2>2, <2>3 DEF Holds, Custody
  <2>5. \A k \in Cmd : \/ row'[k] = row[k] /\ written'[k] = written[k]
                       \/ /\ k \in Holds(drain[i]) \ Holds(d)
                          /\ row'[k] \in {"sent", "failed"}
                          /\ written'[k] \in {0, 1}
    BY <2>2, <2>4
  <2>6. Holds(d) \subseteq Holds(drain[i])
    BY <2>3 DEF Holds
  <2> QED
    BY <2>1, <2>3, <2>5, <2>6, DrainLetsGo
<1>5. CASE WriteFails(i)
  <2> DEFINE d == [drain[i] EXCEPT !.phase = "nacking"]
  <2>1. drain' = [drain EXCEPT ![i] = d] /\ row' = row /\ written' = written
    BY <1>5 DEF WriteFails, queueVars
  <2>2. d \in Drains /\ Shape(d) /\ Holds(d) = Holds(drain[i])
    BY <1>1, <1>5 DEF WriteFails, Drains, Shape, Holds
  <2> QED
    BY <2>1, <2>2, DrainLetsGo
<1>6. CASE Nack(i)
  <2>1. PICK d \in LoopHead(i, drain[i].left) : drain' = [drain EXCEPT ![i] = d]
    BY <1>6 DEF Nack
  <2>2. PICK k \in drain[i].cmd : row' = [row EXCEPT ![k] = "failed"]
    BY <1>6 DEF Nack, AckCommand
  <2>3. drain[i].cmd \cap drain[i].left = {} /\ written' = written
    BY <1>1, <1>6 DEF Nack, Shape
  <2>4. d \in Drains /\ Shape(d) /\ Holds(d) \subseteq drain[i].left
    BY <1>1, <2>1, LoopHeadHolds DEF Holds, Idle
  <2>5. k \in Holds(drain[i]) /\ k \notin Holds(d) /\ written[k] = 0 /\ k \in Cmd
    BY <1>1, <2>2, <2>3, <2>4 DEF Holds, Custody
  <2>6. \A l \in Cmd : row'[l] = IF l = k THEN "failed" ELSE row[l]
    BY <2>2 DEF TypeOK, QueueTypeOK
  <2>7. Holds(d) \subseteq Holds(drain[i])
    BY <2>4 DEF Holds
  <2> QED
    BY <2>1, <2>3, <2>4, <2>5, <2>6, <2>7, DrainLetsGo
<1> QED
  BY <1>2, <1>3, <1>4, <1>5, <1>6, ClaimCustody DEF DrainStep

\* No callback of any process breaks custody.
LEMMA CustodyStep ==
  ASSUME TypeOK, Custody, [Next]_vars
  PROVE  Custody'
<1>1. ASSUME NEW c \in Conn, SocketStep(c)
      PROVE  Custody'
  <2>1. CASE Admit(c)
    <3> DEFINE i == at[c]
    <3>1. /\ Drain(i, [session EXCEPT ![i] = c]) /\ row' = row /\ written' = written
      BY <2>1 DEF Admit, queueVars
    <3>2. CASE i \in Inst
      <4>1. [session EXCEPT ![i] = c] \in [Inst -> Conn \cup {NoConn}]
        BY DEF TypeOK
      <4> QED
        BY <3>1, <3>2, <4>1, DrainHolds, DrainLetsGo
    <3>3. CASE i \notin Inst
      <4>1. drain' = drain
        BY <3>1, <3>3 DEF Drain, TypeOK
      <4> QED
        BY <3>1, <4>1, RowsChange
    <3> QED
      BY <3>2, <3>3
  <2>2. CASE UNCHANGED <<row, written, drain>>
    BY <2>2, RowsChange
  <2> QED
    BY <1>1, <2>1, <2>2 DEF SocketStep, Connect, ReceiveFrames, Refuse, Disconnect, OnClose, queueVars, commandVars
<1>2. ASSUME NEW i \in Inst, Crash(i)
      PROVE  Custody'
  <2>1. drain' = [drain EXCEPT ![i] = Idle] /\ row' = row /\ written' = written
    BY <1>2 DEF Crash, queueVars
  <2>2. Idle \in Drains /\ Shape(Idle) /\ Holds(Idle) = {}
    BY DEF Drains, Idle, Shape, Holds
  <2> QED
    BY <2>1, <2>2, DrainLetsGo
<1>3. ASSUME NEW k \in Cmd, ApiStep(k)
      PROVE  Custody'
  <2>1. CASE \E i \in Inst : OnWakeup(i, k)
    <3>1. PICK i \in Inst : Drain(i, session) /\ row' = row /\ written' = written
      BY <2>1 DEF OnWakeup, queueVars
    <3>2. session \in [Inst -> Conn \cup {NoConn}]
      BY DEF TypeOK
    <3> QED
      BY <3>1, <3>2, DrainHolds, DrainLetsGo
  <2>2. CASE Queue(k) \/ Cancel(k)
    <3>1. /\ UNCHANGED <<drain, written>>
          /\ \A l \in Cmd : row'[l] = row[l] \/ row[l] \in {"none", "queued"}
      BY <2>2 DEF Queue, Cancel, QueueCommand, CancelCommand, commandVars, TypeOK, QueueTypeOK
    <3> QED
      BY <3>1, RowsChange
  <2>3. CASE RequestWakeup(k) \/ ExpiryPasses(k)
    <3>1. UNCHANGED <<row, drain, written>>
      BY <2>3 DEF RequestWakeup, ExpiryPasses, Lapse, commandVars, queueVars
    <3> QED
      BY <3>1, RowsChange
  <2> QED
    BY <1>3, <2>1, <2>2, <2>3 DEF ApiStep
<1>4. CASE PresenceStep \/ UNCHANGED vars
  <2>1. UNCHANGED <<row, drain, written>>
    BY <1>4 DEF PresenceStep, vars, commandVars, queueVars
  <2> QED
    BY <2>1, RowsChange
<1>5. CASE StrayCommits
  <2>1. /\ UNCHANGED <<drain, written>>
        /\ \A l \in Cmd : row'[l] = row[l] \/ row[l] \in {"none", "queued"}
    BY <1>5 DEF StrayCommits, ClaimPending
  <2> QED
    BY <2>1, RowsChange
<1> QED
  BY <1>1, <1>2, <1>3, <1>4, <1>5, DrainCustody DEF Next

-----------------------------------------------------------------------------
(* Who claimed what. *)

\* Sessions and drains belong to connections that were admitted and have not
\* been taken down by a crash; admission is decided once per connection.
Owners ==
  /\ checking \cap admitted = {}
  /\ \A i \in Inst : session[i] # NoConn => session[i] \in admitted
  /\ \A i \in Inst : drain[i].phase # "idle" =>
       drain[i].conn \in admitted /\ at[drain[i].conn] = i

\* A drain holds what its own connection claimed, and without a failure every
\* claim was made for an admitted connection.
Claims ==
  /\ stray => faults > 0
  /\ \A i \in Inst : \A k \in Holds(drain[i]) : claimant[k] = drain[i].conn
  /\ faults = 0 => \A k \in Cmd : row[k] = "sent" => claimant[k] \in admitted

\* A step of drainOnce works for the connection it polled for, or ends.
LEMMA DrainConn ==
  ASSUME TypeOK, NEW i \in Inst, DrainStep(i)
  PROVE  \E d \in Drains : /\ drain' = [drain EXCEPT ![i] = d]
                           /\ d = Idle \/ (d.conn = drain[i].conn /\ drain[i].phase # "idle")
<1>1. drain[i] \in Drains /\ drain[i].left \in SUBSET Cmd /\ Idle \in Drains /\ Claimable \in SUBSET Cmd
  BY DEF TypeOK, Drains, Idle, Claimable
<1>2. CASE PollCommits(i)
  <2> DEFINE d == [drain[i] EXCEPT !.phase = "claimed", !.left = Claimable]
  <2>1. d \in Drains /\ d.conn = drain[i].conn
    BY <1>1 DEF Drains
  <2>2. drain' = [drain EXCEPT ![i] = d] /\ drain[i].phase # "idle"
    BY <1>2 DEF PollCommits
  <2> QED
    BY <2>1, <2>2
<1>3. CASE WriteFails(i)
  <2> DEFINE d == [drain[i] EXCEPT !.phase = "nacking"]
  <2>1. d \in Drains /\ d.conn = drain[i].conn
    BY <1>1 DEF Drains
  <2>2. drain' = [drain EXCEPT ![i] = d] /\ drain[i].phase # "idle"
    BY <1>3 DEF WriteFails
  <2> QED
    BY <2>1, <2>2
<1>4. CASE PollFails(i) \/ NackFails(i)
  BY <1>1, <1>4 DEF PollFails, NackFails
<1>5. CASE PollReturns(i) \/ WriteDone(i) \/ Nack(i)
  <2>1. drain[i].phase # "idle"
    BY <1>5 DEF PollReturns, WriteDone, Nack
  <2>2. PICK d \in LoopHead(i, drain[i].left) : drain' = [drain EXCEPT ![i] = d]
    BY <1>5 DEF PollReturns, WriteDone, Nack
  <2>3. d \in Drains /\ (d = Idle \/ d.conn = drain[i].conn)
    BY <1>1, <2>2, LoopHeadHolds
  <2> QED
    BY <2>1, <2>2, <2>3
<1> QED
  BY <1>2, <1>3, <1>4, <1>5 DEF DrainStep

\* Registration, unregistration and drains respect the owners.
LEMMA OwnersStep ==
  ASSUME LinkInv, Owners, [Next]_vars
  PROVE  Owners'
<1> USE DEF LinkInv
<1>1. ASSUME NEW c \in Conn, Admit(c)
      PROVE  Owners'
  <2>1. /\ c \in checking /\ at[c] \in Inst /\ at' = at
        /\ checking' = checking \ {c} /\ admitted' = admitted \cup {c}
        /\ session' = [session EXCEPT ![at[c]] = c]
        /\ Drain(at[c], [session EXCEPT ![at[c]] = c])
    BY <1>1 DEF Admit, Placed
  <2>2. \A i \in Inst : session'[i] = IF i = at[c] THEN c ELSE session[i]
    BY <2>1 DEF TypeOK
  <2>3. \A i \in Inst : \/ drain'[i] = drain[i]
                        \/ i = at[c] /\ drain'[i].conn = c
    BY <2>1, <2>2 DEF Drain, TypeOK, Idle
  <2> QED
    BY <2>1, <2>2, <2>3 DEF Owners
<1>2. ASSUME NEW c \in Conn, OnClose(c)
      PROVE  Owners'
  <2>1. /\ at' = at /\ checking' = checking /\ admitted' = admitted /\ drain' = drain
        /\ \A i \in Inst : session'[i] \in {session[i], NoConn}
    BY <1>2 DEF OnClose, Unregistered, commandVars, TypeOK
  <2> QED
    BY <2>1 DEF Owners
<1>3. ASSUME NEW c \in Conn, Connect(c)
      PROVE  Owners'
  <2>1. /\ sock[c] = "new" /\ \A e \in Conn : e # c => at'[e] = at[e]
        /\ UNCHANGED <<checking, admitted, session, drain>>
    BY <1>3 DEF Connect, commandVars, TypeOK
  <2>2. c \notin admitted
    BY <2>1, LinkAssumption DEF Placed
  <2> QED
    BY <2>1, <2>2 DEF Owners, TypeOK
<1>4. ASSUME NEW c \in Conn, ReceiveFrames(c) \/ Refuse(c) \/ Disconnect(c)
      PROVE  Owners'
  <2>1. checking' \subseteq checking \cup (Conn \ admitted) /\ UNCHANGED <<at, admitted, session, drain>>
    BY <1>4 DEF ReceiveFrames, Refuse, Disconnect, commandVars, TypeOK
  <2> QED
    BY <2>1 DEF Owners
<1>5. ASSUME NEW i \in Inst, DrainStep(i)
      PROVE  Owners'
  <2>1. UNCHANGED <<checking, admitted, session, at>>
    BY <1>5 DEF DrainStep, PollCommits, PollReturns, PollFails, WriteDone, WriteFails, Nack, NackFails, socketVars
  <2>2. PICK d \in Drains : /\ drain' = [drain EXCEPT ![i] = d]
                            /\ d = Idle \/ (d.conn = drain[i].conn /\ drain[i].phase # "idle")
    BY <1>5, DrainConn
  <2>3. \A j \in Inst : drain'[j] = IF j = i THEN d ELSE drain[j]
    BY <2>2 DEF TypeOK
  <2> QED
    BY <2>1, <2>2, <2>3 DEF Owners, Idle
<1>6. ASSUME NEW i \in Inst, Crash(i)
      PROVE  Owners'
  <2>1. /\ at' = at /\ checking' = checking \ {c \in Conn : at[c] = i}
        /\ admitted' = admitted \ {c \in Conn : at[c] = i}
        /\ \A j \in Inst : session'[j] = IF j = i THEN NoConn ELSE session[j]
        /\ \A j \in Inst : drain'[j] = IF j = i THEN Idle ELSE drain[j]
    BY <1>6 DEF Crash, TypeOK
  <2>2. \A j \in Inst : session[j] # NoConn => at[session[j]] = j
    BY DEF Placed
  <2> QED
    BY <2>1, <2>2 DEF Owners, Idle
<1>7. ASSUME NEW k \in Cmd, ApiStep(k)
      PROVE  Owners'
  <2>1. UNCHANGED <<checking, admitted, session, at>>
    BY <1>7 DEF ApiStep, Queue, RequestWakeup, Cancel, ExpiryPasses, OnWakeup, socketVars
  <2>2. CASE drain' = drain
    BY <2>1, <2>2 DEF Owners
  <2>3. CASE \E i \in Inst : Drain(i, session)
    <3>1. PICK i \in Inst : Drain(i, session)
      BY <2>3
    <3>2. \A j \in Inst : \/ drain'[j] = drain[j]
                          \/ session[j] # NoConn /\ drain'[j].conn = session[j]
      BY <3>1 DEF Drain, TypeOK, Idle
    <3> QED
      BY <2>1, <3>2 DEF Owners, Placed
  <2> QED
    BY <1>7, <2>2, <2>3 DEF ApiStep, Queue, RequestWakeup, Cancel, ExpiryPasses, OnWakeup, commandVars
<1>8. CASE PresenceStep \/ StrayCommits \/ UNCHANGED vars
  BY <1>8 DEF PresenceStep, StrayCommits, vars, commandVars, socketVars, Owners
<1> QED
  BY <1>1, <1>2, <1>3, <1>4, <1>5, <1>6, <1>7, <1>8 DEF Next, SocketStep

\* A connection that is closed or replaced stays so: an admitted connection is
\* never connected or admitted again.
LEMMA StaysGone ==
  ASSUME LinkInv, Owners, [Next]_vars, NEW c \in admitted,
         sock[c] # "open" \/ session[at[c]] # c
  PROVE  sock'[c] # "open" \/ session'[at'[c]] # c
<1> USE DEF LinkInv
<1>1. c \in Conn /\ at[c] \in Inst /\ sock[c] # "new" /\ c \notin checking
  BY LinkAssumption DEF TypeOK, Placed, Owners
<1>2. ASSUME NEW e \in Conn, Connect(e)
      PROVE  sock'[c] = sock[c] /\ session' = session /\ at'[c] = at[c]
  BY <1>1, <1>2 DEF Connect, TypeOK
<1>3. ASSUME NEW e \in Conn, Admit(e)
      PROVE  sock' = sock /\ session'[at[c]] \in {session[at[c]], e} /\ e # c /\ at' = at
  BY <1>1, <1>3 DEF Admit, TypeOK
<1>4. ASSUME NEW e \in Conn, ReceiveFrames(e)
      PROVE  sock' = sock /\ session' = session /\ at' = at
  BY <1>4 DEF ReceiveFrames
<1>5. ASSUME NEW e \in Conn, Refuse(e) \/ Disconnect(e) \/ OnClose(e)
      PROVE  /\ sock'[c] \in {sock[c], "destroyed", "closed"} /\ at' = at
             /\ session'[at[c]] \in {session[at[c]], NoConn}
  BY <1>1, <1>5 DEF Refuse, Disconnect, OnClose, Unregistered, TypeOK
<1>6. ASSUME NEW i \in Inst, Crash(i)
      PROVE  /\ sock'[c] \in {sock[c], "closed"} /\ at' = at
             /\ session'[at[c]] \in {session[at[c]], NoConn}
  BY <1>1, <1>6 DEF Crash, TypeOK
<1>7. ASSUME NEW i \in Inst, DrainStep(i)
      PROVE  sock' = sock /\ session' = session /\ at' = at
  BY <1>7 DEF DrainStep, PollCommits, PollReturns, PollFails, WriteDone, WriteFails, Nack, NackFails, socketVars
<1>8. ASSUME NEW k \in Cmd, ApiStep(k)
      PROVE  sock' = sock /\ session' = session /\ at' = at
  BY <1>8 DEF ApiStep, Queue, RequestWakeup, Cancel, ExpiryPasses, OnWakeup, socketVars
<1>9. ASSUME PresenceStep \/ StrayCommits \/ UNCHANGED vars
      PROVE  sock' = sock /\ session' = session /\ at' = at
  BY <1>9 DEF PresenceStep, StrayCommits, vars, socketVars
<1>10. c # NoConn
  BY <1>1, LinkAssumption
<1> QED
  BY <1>1, <1>2, <1>3, <1>4, <1>5, <1>6, <1>7, <1>8, <1>9, <1>10 DEF Next, SocketStep

\* The claims of drains follow the claims of rows, step by step.
LEMMA ClaimsStep ==
  ASSUME LinkInv, Custody, Owners, Claims, [Next]_vars
  PROVE  Claims'
<1> USE DEF LinkInv
<1>0. /\ faults \in Nat
      /\ \A i \in Inst : drain[i] \in Drains /\ Holds(drain[i]) \subseteq Cmd
      /\ Idle \in Drains /\ Holds(Idle) = {}
  BY DEF TypeOK, Drains, Holds, Idle
<1>1. ASSUME NEW i \in Inst, PollCommits(i)
      PROVE  Claims'
  <2>1. /\ drain[i].phase = "polling" /\ drain[i].left = {} /\ drain[i].cmd = {}
        /\ row' = [k \in Cmd |-> IF row[k] # "queued" THEN row[k]
                                 ELSE IF k \in lapsed THEN "expired" ELSE "sent"]
        /\ claimant' = [k \in Cmd |-> IF k \in Claimable THEN drain[i].conn ELSE claimant[k]]
        /\ drain' = [drain EXCEPT ![i].phase = "claimed", ![i].left = Claimable]
        /\ UNCHANGED <<stray, faults, admitted>>
    BY <1>1 DEF PollCommits, ClaimPending, Custody, Shape, socketVars
  <2>2. /\ \A j \in Inst : j # i => drain'[j] = drain[j]
        /\ Holds(drain'[i]) = Claimable /\ drain'[i].conn = drain[i].conn
    BY <2>1 DEF TypeOK, Holds
  <2>3. \A j \in Inst : \A k \in Holds(drain[j]) : k \notin Claimable
    BY DEF Custody, Claimable
  <2>4. \A j \in Inst : \A k \in Holds(drain'[j]) : claimant'[k] = drain'[j].conn
    <3>1. Claimable \subseteq Cmd
      BY DEF Claimable
    <3>2. ASSUME NEW k \in Claimable PROVE claimant'[k] = drain'[i].conn
      BY <2>1, <2>2, <3>1, <3>2
    <3>3. ASSUME NEW j \in Inst, j # i, NEW k \in Holds(drain[j]) PROVE claimant'[k] = drain[j].conn
      <4>1. k \in Cmd /\ k \notin Claimable /\ claimant[k] = drain[j].conn
        BY <1>0, <2>3, <3>3 DEF Claims
      <4> QED
        BY <2>1, <4>1
    <3> QED
      BY <2>2, <3>2, <3>3
  <2>5. drain[i].conn \in admitted
    BY <2>1 DEF Owners
  <2>6. ASSUME faults = 0, NEW k \in Cmd, row'[k] = "sent" PROVE claimant'[k] \in admitted
    BY <2>1, <2>5, <2>6 DEF Claims, Claimable
  <2> QED
    BY <2>1, <2>4, <2>6 DEF Claims, Holds
<1>2. ASSUME NEW i \in Inst, DrainStep(i), ~PollCommits(i)
      PROVE  Claims'
  <2>1. PICK d \in Drains : /\ drain' = [drain EXCEPT ![i] = d]
                            /\ d = Idle \/ (d.conn = drain[i].conn /\ drain[i].phase # "idle")
    BY <1>2, DrainConn
  <2>2. Holds(d) \subseteq Holds(drain[i])
    <3>1. drain' # [drain EXCEPT ![i] = d] \/ drain'[i] = d
      BY DEF TypeOK
    <3>2. CASE \E e \in LoopHead(i, drain[i].left) : drain' = [drain EXCEPT ![i] = e]
      <4>1. PICK e \in LoopHead(i, drain[i].left) : drain' = [drain EXCEPT ![i] = e]
        BY <3>2
      <4>2. drain[i].left \in SUBSET Cmd /\ d = e
        BY <2>1, <4>1 DEF TypeOK
      <4>3. Holds(e) \subseteq drain[i].left
        BY <1>0, <4>1, <4>2, LoopHeadHolds
      <4> QED
        BY <4>2, <4>3 DEF Holds
    <3>3. CASE WriteFails(i)
      <4>1. drain'[i] = [drain[i] EXCEPT !.phase = "nacking"]
        BY <3>3 DEF WriteFails, TypeOK
      <4> QED
        BY <1>0, <2>1, <3>1, <4>1 DEF Holds, Drains
    <3>4. CASE drain' = [drain EXCEPT ![i] = Idle]
      BY <1>0, <2>1, <3>1, <3>4 DEF TypeOK
    <3> QED
      BY <1>2, <3>2, <3>3, <3>4 DEF DrainStep, PollReturns, PollFails, WriteDone, Nack, NackFails
  <2>3. \A j \in Inst : drain'[j] = IF j = i THEN d ELSE drain[j]
    BY <2>1 DEF TypeOK
  <2>4. claimant' = claimant /\ admitted' = admitted
    BY <1>2 DEF DrainStep, PollReturns, PollFails, WriteDone, WriteFails, Nack, NackFails, socketVars
  <2>5. \A k \in Cmd : row'[k] = "sent" => row[k] = "sent"
    <3>1. ASSUME NEW l \in drain[i].cmd, AckCommand(l, "failed")
          PROVE  \A k \in Cmd : row'[k] = "sent" => row[k] = "sent"
      BY <3>1 DEF AckCommand, TypeOK, QueueTypeOK
    <3> QED
      BY <1>2, <3>1 DEF DrainStep, PollReturns, PollFails, WriteDone, WriteFails, Nack, NackFails, queueVars
  <2>6. \/ stray' = stray /\ faults' = faults
        \/ faults' = faults + 1
    BY <1>2 DEF DrainStep, PollReturns, PollFails, WriteDone, WriteFails, Nack, NackFails
  <2>7. faults' > 0 \/ (stray' = stray /\ faults' = faults)
    BY <1>0, <2>6
  <2>8. \A j \in Inst : \A k \in Holds(drain'[j]) : claimant'[k] = drain'[j].conn
    BY <1>0, <2>1, <2>2, <2>3, <2>4 DEF Claims
  <2> QED
    BY <2>4, <2>5, <2>7, <2>8 DEF Claims, Holds
<1>3. ASSUME UNCHANGED <<claimant, stray, faults>>, admitted \subseteq admitted',
             \A k \in Cmd : row'[k] = "sent" => row[k] = "sent",
             \A i \in Inst : drain'[i] = drain[i] \/ Holds(drain'[i]) = {}
      PROVE  Claims'
  BY <1>3 DEF Claims, Holds
<1>4. ASSUME NEW i \in Inst, NEW s, Drain(i, s)
      PROVE  \A j \in Inst : drain'[j] = drain[j] \/ Holds(drain'[j]) = {}
  BY <1>4 DEF Drain, TypeOK, Idle, Holds
<1>5. ASSUME NEW c \in Conn, SocketStep(c)
      PROVE  Claims'
  <2>1. CASE Admit(c)
    <3>1. at[c] \in Inst /\ Drain(at[c], [session EXCEPT ![at[c]] = c])
      BY <2>1 DEF Admit, Placed
    <3> QED
      BY <1>3, <1>4, <2>1, <3>1 DEF Admit, queueVars
  <2>2. CASE ~Admit(c)
    <3>1. UNCHANGED <<claimant, stray, faults, admitted, row, drain>>
      BY <1>5, <2>2 DEF SocketStep, Connect, ReceiveFrames, Refuse, Disconnect, OnClose, queueVars, commandVars
    <3> QED
      BY <1>3, <3>1
  <2> QED
    BY <2>1, <2>2
<1>6. ASSUME NEW i \in Inst, Crash(i)
      PROVE  Claims'
  <2>1. faults' > 0
    BY <1>0, <1>6 DEF Crash
  <2>2. claimant' = claimant /\ \A j \in Inst : drain'[j] = IF j = i THEN Idle ELSE drain[j]
    BY <1>6 DEF Crash, TypeOK
  <2> QED
    BY <1>0, <2>1, <2>2 DEF Claims, Holds
<1>7. ASSUME NEW k \in Cmd, ApiStep(k)
      PROVE  Claims'
  <2>1. UNCHANGED <<claimant, stray, faults, admitted>>
    BY <1>7 DEF ApiStep, Queue, RequestWakeup, Cancel, ExpiryPasses, OnWakeup, commandVars, socketVars
  <2>2. \A l \in Cmd : row'[l] = "sent" => row[l] = "sent"
    BY <1>7 DEF ApiStep, Queue, RequestWakeup, Cancel, ExpiryPasses, OnWakeup, QueueCommand, CancelCommand,
                Lapse, queueVars, TypeOK, QueueTypeOK
  <2>3. CASE drain' = drain
    BY <1>3, <2>1, <2>2, <2>3
  <2>4. CASE \E i \in Inst : Drain(i, session)
    BY <1>3, <1>4, <2>1, <2>2, <2>4
  <2> QED
    BY <1>7, <2>3, <2>4 DEF ApiStep, Queue, RequestWakeup, Cancel, ExpiryPasses, OnWakeup, commandVars
<1>8. CASE PresenceStep \/ UNCHANGED vars
  <2>1. UNCHANGED <<claimant, stray, faults, admitted, row, drain>>
    BY <1>8 DEF PresenceStep, vars, queueVars, commandVars, socketVars
  <2> QED
    BY <1>3, <2>1
<1>9. CASE StrayCommits
  <2>1. faults' > 0 /\ stray' = FALSE /\ UNCHANGED <<claimant, drain>>
    BY <1>9 DEF StrayCommits, Claims
  <2> QED
    BY <2>1 DEF Claims, Holds
<1> QED
  BY <1>1, <1>2, <1>5, <1>6, <1>7, <1>8, <1>9 DEF Next

\* A command leaves a drain unwritten only where the head of the write loop
\* (commands.ts lines 115-116) found the socket gone or replaced.
LEMMA DrainLoss ==
  ASSUME LinkInv, Custody, Owners, Claims, NEW i \in Inst, DrainStep(i), faults' = 0, faults = 0,
         NEW k \in Cmd, row'[k] = "sent", written'[k] = 0, ~Carried(k)'
  PROVE  \/ /\ row[k] = "sent" /\ written[k] = 0 /\ ~Carried(k) /\ claimant'[k] = claimant[k]
         \/ sock'[claimant'[k]] # "open" \/ session'[at'[claimant'[k]]] # claimant'[k]
<1> USE DEF LinkInv
<1>1. /\ \A j \in Inst : k \notin Holds(drain'[j])
      /\ drain[i].left \in SUBSET Cmd /\ drain[i].cmd \in SUBSET Cmd
  BY DEF Carried, Holds, TypeOK
<1>2. CASE PollCommits(i)
  <2>1. /\ drain[i].left = {} /\ drain[i].cmd = {}
        /\ row' = [l \in Cmd |-> IF row[l] # "queued" THEN row[l]
                                 ELSE IF l \in lapsed THEN "expired" ELSE "sent"]
        /\ claimant' = [l \in Cmd |-> IF l \in Claimable THEN drain[i].conn ELSE claimant[l]]
        /\ drain' = [drain EXCEPT ![i].phase = "claimed", ![i].left = Claimable]
        /\ written' = written
    BY <1>2 DEF PollCommits, ClaimPending, Custody, Shape
  <2>2. /\ \A j \in Inst : j # i => drain'[j] = drain[j]
        /\ drain'[i].left = Claimable
    BY <2>1 DEF TypeOK
  <2>3. k \notin Claimable
    BY <1>1, <2>2 DEF Holds
  <2>4. row[k] = "sent" /\ claimant'[k] = claimant[k]
    BY <2>1, <2>3 DEF Claimable
  <2>5. ~Carried(k)
    BY <1>1, <2>1, <2>2 DEF Carried, Holds
  <2> QED
    BY <2>1, <2>4, <2>5
<1>3. CASE PollFails(i) \/ NackFails(i)
  BY <1>3 DEF PollFails, NackFails
<1>4. CASE WriteFails(i)
  <2>1. /\ drain' = [drain EXCEPT ![i].phase = "nacking"]
        /\ row' = row /\ written' = written /\ claimant' = claimant
    BY <1>4 DEF WriteFails, queueVars
  <2>2. \A j \in Inst : drain'[j].left = drain[j].left /\ drain'[j].cmd = drain[j].cmd
    BY <2>1 DEF TypeOK
  <2>3. ~Carried(k)
    BY <1>1, <2>2 DEF Carried, Holds
  <2> QED
    BY <2>1, <2>3
<1>5. CASE PollReturns(i) \/ WriteDone(i) \/ Nack(i)
  <2>1. PICK d \in LoopHead(i, drain[i].left) : drain' = [drain EXCEPT ![i] = d]
    BY <1>5 DEF PollReturns, WriteDone, Nack
  <2>2. \A j \in Inst : drain'[j] = IF j = i THEN d ELSE drain[j]
    BY <2>1 DEF TypeOK
  <2>3. UNCHANGED <<at, sock, session, claimant>> /\ drain[i].phase # "idle"
    BY <1>5 DEF PollReturns, WriteDone, Nack, socketVars
  <2>4. row[k] = "sent" /\ written[k] = 0 /\ k \notin drain[i].cmd
    <3>1. CASE PollReturns(i)
      BY <3>1 DEF PollReturns, Custody, Shape, queueVars
    <3>2. CASE WriteDone(i)
      <4>1. row' = row /\ written' = [l \in Cmd |-> IF l \in drain[i].cmd THEN written[l] + 1 ELSE written[l]]
        BY <3>2 DEF WriteDone, queueVars
      <4>2. k \in drain[i].cmd => written[k] = 0
        BY DEF Custody, Holds
      <4> QED
        BY <4>1, <4>2
    <3>3. CASE Nack(i)
      <4>1. PICK l \in drain[i].cmd : row' = [row EXCEPT ![l] = "failed"]
        BY <3>3 DEF Nack, AckCommand
      <4>2. PICK e \in Cmd : drain[i].cmd = {e}
        BY <3>3 DEF Nack, Custody, Shape
      <4>3. written' = written
        BY <3>3 DEF Nack
      <4> QED
        BY <1>1, <4>1, <4>2, <4>3 DEF TypeOK, QueueTypeOK
    <3> QED
      BY <1>5, <3>1, <3>2, <3>3
  <2>5. CASE k \in drain[i].left
    <3>1. sock[drain[i].conn] # "open" \/ session[i] # drain[i].conn
      BY <1>1, <2>1, <2>2, <2>5, LoopHeadHolds
    <3>2. claimant[k] = drain[i].conn /\ at[drain[i].conn] = i
      BY <2>3, <2>5 DEF Claims, Owners, Holds
    <3> QED
      BY <2>3, <3>1, <3>2
  <2>6. CASE k \notin drain[i].left
    <3>1. ~Carried(k)
      BY <1>1, <2>2, <2>4, <2>6 DEF Carried, Holds
    <3> QED
      BY <2>3, <2>4, <3>1
  <2> QED
    BY <2>5, <2>6
<1> QED
  BY <1>2, <1>3, <1>4, <1>5 DEF DrainStep

\* As long as nothing failed, no other step takes a command out of a drain or
\* marks a row sent.
LEMMA OthersLoseNothing ==
  ASSUME LinkInv, Custody, Claims, [Next]_vars, \A i \in Inst : ~DrainStep(i),
         faults = 0, faults' = 0,
         NEW k \in Cmd, row'[k] = "sent", written'[k] = 0, ~Carried(k)'
  PROVE  row[k] = "sent" /\ written[k] = 0 /\ ~Carried(k) /\ claimant'[k] = claimant[k]
<1> USE DEF LinkInv
<1>1. ASSUME NEW i \in Inst, NEW s, Drain(i, s)
      PROVE  Carried(k) => Carried(k)'
  <2>1. \A j \in Inst : drain'[j] = drain[j] \/ (drain[j].left = {} /\ drain[j].cmd = {})
    BY <1>1 DEF Drain, TypeOK, Custody, Shape
  <2> QED
    BY <2>1 DEF Carried
<1>2. CASE \E c \in Conn : Admit(c)
  <2>1. PICK c \in Conn : Admit(c)
    BY <1>2
  <2>2. at[c] \in Inst /\ Drain(at[c], [session EXCEPT ![at[c]] = c]) /\ UNCHANGED <<row, written, claimant>>
    BY <2>1 DEF Admit, Placed, queueVars
  <2> QED
    BY <1>1, <2>2
<1>3. CASE \E l \in Cmd : ApiStep(l)
  <2>1. PICK l \in Cmd : ApiStep(l)
    BY <1>3
  <2>2. UNCHANGED <<written, claimant>>
    BY <2>1 DEF ApiStep, Queue, RequestWakeup, Cancel, ExpiryPasses, OnWakeup, commandVars
  <2>3. row[k] = "sent"
    BY <2>1 DEF ApiStep, Queue, RequestWakeup, Cancel, ExpiryPasses, OnWakeup, QueueCommand, CancelCommand,
                Lapse, queueVars, TypeOK, QueueTypeOK
  <2>4. drain' = drain \/ \E i \in Inst : Drain(i, session)
    BY <2>1 DEF ApiStep, Queue, RequestWakeup, Cancel, ExpiryPasses, OnWakeup, commandVars
  <2>5. Carried(k) => Carried(k)'
    BY <1>1, <2>4 DEF Carried
  <2> QED
    BY <2>2, <2>3, <2>5
<1>4. CASE UNCHANGED <<row, written, claimant, drain>>
  BY <1>4 DEF Carried
<1>5. ASSUME NEW c \in Conn, SocketStep(c), ~Admit(c)
      PROVE  UNCHANGED <<row, written, claimant, drain>>
  BY <1>5 DEF SocketStep, Connect, ReceiveFrames, Refuse, Disconnect, OnClose, queueVars, commandVars
<1>6. ASSUME NEW i \in Inst PROVE ~Crash(i)
  BY DEF Crash
<1>7. ~StrayCommits
  BY DEF StrayCommits, Claims
<1>8. PresenceStep \/ UNCHANGED vars => UNCHANGED <<row, written, claimant, drain>>
  BY DEF PresenceStep, vars, queueVars, commandVars
<1> QED
  BY <1>2, <1>3, <1>4, <1>5, <1>6, <1>7, <1>8 DEF Next

\* A loss is explained when it happens and stays explained.
LEMMA LossStep ==
  ASSUME LinkInv, Custody, Owners, Claims, LossIsExplained, [Next]_vars
  PROVE  LossIsExplained'
<1>1. faults \in Nat /\ faults' \in Nat
  <2>1. LinkInv'
    BY LinkStep
  <2> QED
    BY <2>1 DEF LinkInv, TypeOK
<1>2. faults' = faults \/ faults' = faults + 1
  <2>1. ASSUME NEW c \in Conn, SocketStep(c) PROVE faults' = faults
    BY <2>1 DEF SocketStep, Connect, ReceiveFrames, Admit, Refuse, Disconnect, OnClose
  <2>2. ASSUME NEW i \in Inst, DrainStep(i) PROVE faults' = faults \/ faults' = faults + 1
    BY <2>2 DEF DrainStep, PollCommits, PollReturns, PollFails, WriteDone, WriteFails, Nack, NackFails
  <2>3. ASSUME NEW k \in Cmd, ApiStep(k) PROVE faults' = faults
    BY <2>3 DEF ApiStep, Queue, RequestWakeup, Cancel, ExpiryPasses, OnWakeup
  <2> QED
    BY <2>1, <2>2, <2>3 DEF Next, Crash, PresenceStep, StrayCommits, vars
<1>3. ASSUME ~(faults' > 0), NEW k \in Cmd, row'[k] = "sent", written'[k] = 0, ~Carried(k)'
      PROVE  sock'[claimant'[k]] # "open" \/ session'[at'[claimant'[k]]] # claimant'[k]
  <2>1. faults = 0 /\ faults' = 0
    BY <1>1, <1>2, <1>3
  <2>2. CASE row[k] = "sent" /\ written[k] = 0 /\ ~Carried(k) /\ claimant'[k] = claimant[k]
    <3>1. claimant[k] \in admitted
      BY <2>1, <2>2 DEF Claims
    <3>2. sock[claimant[k]] # "open" \/ session[at[claimant[k]]] # claimant[k]
      BY <2>1, <2>2 DEF LossIsExplained
    <3> QED
      BY <2>2, <3>1, <3>2, StaysGone
  <2>3. CASE \E i \in Inst : DrainStep(i)
    BY <1>3, <2>1, <2>2, <2>3, DrainLoss
  <2>4. CASE \A i \in Inst : ~DrainStep(i)
    BY <1>3, <2>1, <2>2, <2>4, OthersLoseNothing
  <2> QED
    BY <2>3, <2>4
<1> QED
  BY <1>3 DEF LossIsExplained

-----------------------------------------------------------------------------
(* What users may rely on. *)

\* The inductive invariant of the link.
CommandInv == LinkInv /\ Custody /\ Owners /\ Claims /\ LossIsExplained

\* It holds from the start and every callback of every process keeps it.
LEMMA CommandInvHolds == Init /\ [][Next]_vars => []CommandInv
<1>1. Init => CommandInv
  <2> SUFFICES ASSUME Init PROVE Custody /\ Owners /\ Claims /\ LossIsExplained
    BY LinkInit DEF CommandInv
  <2>1. Custody
    BY DEF Init, QueueInit, Idle, Custody, Shape, Holds
  <2>2. Owners /\ Claims
    BY DEF Init, QueueInit, Idle, Owners, Claims, Holds
  <2>3. LossIsExplained
    BY DEF Init, QueueInit, LossIsExplained
  <2> QED
    BY <2>1, <2>2, <2>3
<1>2. CommandInv /\ [Next]_vars => CommandInv'
  <2> SUFFICES ASSUME CommandInv, [Next]_vars PROVE CommandInv'
    OBVIOUS
  <2>1. LinkInv' /\ Custody' /\ Owners' /\ Claims' /\ LossIsExplained'
    BY LinkStep, CustodyStep, OwnersStep, ClaimsStep, LossStep DEF CommandInv, LinkInv
  <2> QED
    BY <2>1 DEF CommandInv
<1> QED
  BY <1>1, <1>2, PTL

\* "Atomic queued -> sent claiming prevents two holders from writing the same
\* command" (docs/REALTIME_AND_COMMAND_ROUTING.md), for any number of instances,
\* connections, commands, crashes and failed calls.
THEOREM CommandWrittenAtMostOnce == Spec => []WrittenAtMostOnce
<1>1. CommandInv => WrittenAtMostOnce
  BY DEF CommandInv, Custody, WrittenAtMostOnce, Carried, Holds
<1> QED
  BY CommandInvHolds, <1>1, PTL DEF Spec

\* A cancellation the API confirmed (devices.ts lines 296-309) and an expiry it
\* recorded hold for ever: no drain has the command and none ever wrote it.
THEOREM CanceledStaysUnwritten == Spec => []CanceledIsNeverWritten
<1>1. CommandInv => CanceledIsNeverWritten
  BY DEF CommandInv, Custody, CanceledIsNeverWritten, Carried, Holds
<1> QED
  BY CommandInvHolds, <1>1, PTL DEF Spec

\* A claimed command is lost only when its connection was closed or replaced
\* before the write (commands.ts lines 115-116), or a process or call failed.
THEOREM LossAlwaysExplained == Spec => []LossIsExplained
<1>1. CommandInv => LossIsExplained
  BY DEF CommandInv
<1> QED
  BY CommandInvHolds, <1>1, PTL DEF Spec

-----------------------------------------------------------------------------
(* Sessions and the presence entry. *)

\* Only an admission gives an instance a session, and only that connection's close
\* takes it away again (commands.ts lines 90-97).
LEMMA SessionStep ==
  ASSUME LinkInv, Owners, SessionExplained, [Next]_vars
  PROVE  SessionExplained'
<1> USE DEF LinkInv, SessionExplained
<1>1. ASSUME NEW c \in Conn, Connect(c) PROVE SessionExplained'
  <2>1. /\ sock[c] = "new" /\ \A e \in Conn : e # c => sock'[e] = sock[e]
        /\ UNCHANGED <<session, latest, late>>
    BY <1>1 DEF Connect, historyVars, TypeOK
  <2>2. \A i \in Inst : session[i] # c
    BY <2>1, LinkAssumption DEF Owners, Placed
  <2>3. \A i \in Inst : session[i] \in Conn \cup {NoConn} /\ latest[i] \in Conn \cup {NoConn}
    BY DEF TypeOK, HistoryTypeOK
  <2>4. ASSUME NEW i \in Inst, latest[i] # session[i] PROVE latest[i] \in Conn /\ latest[i] # c
    BY <2>1, <2>3, <2>4
  <2> QED
    BY <2>1, <2>2, <2>3, <2>4, LinkAssumption
<1>2. ASSUME NEW c \in Conn, Admit(c) PROVE SessionExplained'
  <2>1. /\ at[c] \in Inst /\ sock' = sock
        /\ session' = [session EXCEPT ![at[c]] = c]
        /\ latest' = [latest EXCEPT ![at[c]] = c]
        /\ late' = IF sock[c] = "closed" THEN late \cup {c} ELSE late
    BY <1>2 DEF Admit, Placed
  <2> QED
    BY <2>1 DEF TypeOK, HistoryTypeOK
<1>3. ASSUME NEW c \in Conn, OnClose(c) PROVE SessionExplained'
  <2>1. /\ at[c] \in Inst /\ sock[c] = "destroyed"
        /\ sock' = [sock EXCEPT ![c] = "closed"]
        /\ session' = Unregistered(c, session)
        /\ UNCHANGED <<latest, late>>
    BY <1>3 DEF OnClose, TypeOK, Placed
  <2>2. ASSUME NEW i \in Inst PROVE session'[i] = IF session[i] = c THEN NoConn ELSE session[i]
    BY <2>1 DEF Unregistered, Owners, Placed, TypeOK
  <2>3. \A e \in Conn : sock'[e] = IF e = c THEN "closed" ELSE sock[e]
    BY <2>1 DEF TypeOK
  <2>4. \A i \in Inst : session[i] \in Conn \cup {NoConn} /\ latest[i] \in Conn \cup {NoConn}
    BY DEF TypeOK, HistoryTypeOK
  <2>5. ASSUME NEW i \in Inst
        PROVE  session'[i] = latest[i] \/ (session'[i] = NoConn /\ sock'[latest[i]] = "closed")
    <3>1. CASE session[i] = latest[i]
      BY <2>2, <2>3, <2>4, <3>1, LinkAssumption
    <3>2. CASE session[i] = NoConn /\ latest[i] # NoConn /\ sock[latest[i]] = "closed"
      BY <2>2, <2>3, <2>4, <3>2, LinkAssumption
    <3> QED
      BY <3>1, <3>2
  <2>6. ASSUME NEW i \in Inst, session'[i] # NoConn, sock'[session'[i]] = "closed"
        PROVE  session'[i] \in late
    BY <2>2, <2>3, <2>4, <2>6
  <2> QED
    BY <2>1, <2>5, <2>6
<1>4. ASSUME NEW i \in Inst, Crash(i) PROVE SessionExplained'
  <2>1. /\ sock' = [c \in Conn |-> IF at[c] = i THEN "closed" ELSE sock[c]]
        /\ session' = [session EXCEPT ![i] = NoConn]
        /\ latest' = [latest EXCEPT ![i] = NoConn]
        /\ late' = late \ {c \in Conn : at[c] = i}
    BY <1>4 DEF Crash
  <2>2. ASSUME NEW j \in Inst, j # i
        PROVE  /\ session'[j] = session[j] /\ latest'[j] = latest[j]
               /\ session[j] # NoConn => at[session[j]] = j
               /\ session[j] \in Conn \cup {NoConn} /\ latest[j] \in Conn \cup {NoConn}
    BY <2>1, <2>2 DEF TypeOK, HistoryTypeOK, Placed
  <2>3. session'[i] = NoConn /\ latest'[i] = NoConn
    BY <2>1 DEF TypeOK, HistoryTypeOK
  <2>4. ASSUME NEW j \in Inst, j # i
        PROVE  /\ session'[j] = latest'[j] \/ (session'[j] = NoConn /\ sock'[latest'[j]] = "closed")
               /\ session'[j] # NoConn /\ sock'[session'[j]] = "closed" => session'[j] \in late'
    BY <2>1, <2>2, <2>4
  <2> QED
    BY <2>3, <2>4
<1>5. ASSUME NEW c \in Conn, ReceiveFrames(c) \/ Refuse(c) \/ Disconnect(c) PROVE SessionExplained'
  <2>1. /\ UNCHANGED <<session, latest, late>>
        /\ \/ sock' = sock
           \/ sock[c] # "closed" /\ sock' = [sock EXCEPT ![c] = "destroyed"]
    BY <1>5 DEF ReceiveFrames, Refuse, Disconnect, historyVars, TypeOK
  <2>2. \A e \in Conn : sock'[e] = "closed" <=> sock[e] = "closed"
    BY <2>1 DEF TypeOK
  <2>3. \A i \in Inst : session[i] \in Conn \cup {NoConn} /\ latest[i] \in Conn \cup {NoConn}
    BY DEF TypeOK, HistoryTypeOK
  <2>4. \A i \in Inst : latest[i] = NoConn => session[i] = latest[i]
    BY <2>3
  <2> QED
    BY <2>1, <2>2, <2>3, <2>4
<1>6. ASSUME UNCHANGED <<sock, session, latest, late>> PROVE SessionExplained'
  BY <1>6
<1>7. ASSUME NEW i \in Inst, DrainStep(i) PROVE UNCHANGED <<sock, session, latest, late>>
  BY <1>7 DEF DrainStep, PollCommits, PollReturns, PollFails, WriteDone, WriteFails, Nack, NackFails,
              socketVars, historyVars
<1>8. ASSUME NEW k \in Cmd, ApiStep(k) PROVE UNCHANGED <<sock, session, latest, late>>
  BY <1>8 DEF ApiStep, Queue, RequestWakeup, Cancel, ExpiryPasses, OnWakeup, socketVars, historyVars
<1>9. ASSUME PresenceStep \/ StrayCommits \/ UNCHANGED vars PROVE UNCHANGED <<sock, session, latest, late>>
  BY <1>9 DEF PresenceStep, StrayCommits, vars, socketVars, historyVars
<1> QED
  BY <1>1, <1>2, <1>3, <1>4, <1>5, <1>6, <1>7, <1>8, <1>9 DEF Next, SocketStep

\* "A late close removes a session only when it still owns that exact local
\* registration" (docs/REALTIME_AND_COMMAND_ROUTING.md lines 41-42): an open
\* connection that lost its session was followed by a later admission on its
\* instance, and a session without an open connection was registered too late.
THEOREM SessionAlwaysExplained == Spec => []SessionExplained
<1>1. Init => SessionExplained
  BY DEF Init, SessionExplained
<1>2. CommandInv /\ SessionExplained /\ [Next]_vars => SessionExplained'
  BY SessionStep DEF CommandInv
<1> QED
  BY CommandInvHolds, <1>1, <1>2, PTL DEF Spec

\* What a claim rests on while its instance has calls on their way: the last of
\* them sets the entry again.
ClaimsStand ==
  /\ \A i \in Inst : \A n \in DOMAIN calls[i] : calls[i][n] # "delete"
  /\ \A c \in Conn : claim[c] = "made" =>
       /\ at[c] \in Inst
       /\ IF calls[at[c]] = <<>> THEN holder = at[c]
          ELSE calls[at[c]][Len(calls[at[c]])] = "online"

\* The client connection of RedisPresenceStore executes an instance's oldest call.
LEMMA InOrder ==
  ASSUME Scripted, TypeOK, NEW i \in Inst, NEW n \in Deliverable(i)
  PROVE  /\ n = 1 /\ calls[i] # <<>> /\ 1 \in DOMAIN calls[i]
         /\ Replaced(calls[i], n, <<>>) = Tail(calls[i])
         /\ Len(Tail(calls[i])) = Len(calls[i]) - 1
         /\ \A m \in DOMAIN Tail(calls[i]) : Tail(calls[i])[m] = calls[i][m + 1] /\ m + 1 \in DOMAIN calls[i]
<1> DEFINE q == calls[i]
<1>1. q \in Seq(Calls) /\ n = 1 /\ q # <<>>
  BY DEF TypeOK, PresenceTypeOK, Deliverable
<1>2. Len(q) \in Nat /\ Len(q) > 0 /\ DOMAIN q = 1 .. Len(q)
  BY <1>1, EmptySeq
<1>3. SubSeq(q, 1, 0) = <<>> /\ SubSeq(q, 2, Len(q)) = Tail(q)
  BY <1>1, <1>2
<1>4. /\ Len(Tail(q)) = Len(q) - 1
      /\ \A m \in 1 .. Len(Tail(q)) : Tail(q)[m] = q[m + 1] /\ m + 1 \in DOMAIN q
  BY <1>1, <1>2
<1>5. Tail(q) \in Seq(Calls) /\ <<>> \o <<>> \o Tail(q) = Tail(q)
  BY <1>1, <1>2
<1>6. Replaced(q, 1, <<>>) = <<>> \o <<>> \o Tail(q)
  BY <1>3 DEF Replaced
<1> QED
  BY <1>1, <1>2, <1>4, <1>5, <1>6

\* SET makes its instance the holder.
LEMMA OnlineSets ==
  ASSUME NEW h, NEW i
  PROVE  Executed(h, i, "online") = i
BY DEF Executed

\* A sequence of several elements ends as its tail does.
LEMMA LastOfTail ==
  ASSUME NEW S, NEW q \in Seq(S), q # <<>>, Len(q) # 1
  PROVE  Tail(q) # <<>> /\ Tail(q)[Len(Tail(q))] = q[Len(q)]
<1>0. Len(q) \in Nat /\ (q = <<>> <=> Len(q) = 0)
  BY EmptySeq
<1> DEFINE n == Len(q)
<1>a. n \in Nat /\ n # 0 /\ n # 1
  BY <1>0
<1>1. n > 1
  <2> HIDE DEF n
  <2> QED
    BY <1>a
<1>2. Tail(q) \in Seq(S) /\ Len(Tail(q)) = Len(q) - 1
  BY HeadTailProperties
<1>3. Tail(q) = <<>> <=> Len(Tail(q)) = 0
  BY <1>2, EmptySeq
<1>4. Tail(q)[Len(q) - 1] = q[Len(q)]
  BY <1>1, HeadTailProperties
<1> QED
  BY <1>1, <1>2, <1>3, <1>4

\* What each call does to the claims (server.ts lines 95-100 and 218-220): an
\* instance's own calls are executed in the order it made them, and a release of
\* another instance finds that it is not the holder.
LEMMA ClaimsMeetCalls ==
  ASSUME Scripted, TypeOK, Placed, ClaimsStand, NEW i \in Inst, NEW n \in Deliverable(i),
         PresenceExecutes(i, n) \/ PresenceLoses(i, n), at' = at
  PROVE  ClaimsStand'
<1> DEFINE q == calls[i]
<1> USE DEF ClaimsStand
<1>1. /\ n = 1 /\ q # <<>> /\ q[1] \in {"online", "offline"}
      /\ Replaced(q, n, <<>>) = Tail(q) /\ Len(Tail(q)) = Len(q) - 1 /\ Len(q) \in Nat
      /\ \A m \in DOMAIN Tail(q) : Tail(q)[m] = q[m + 1] /\ m + 1 \in DOMAIN q
  BY InOrder DEF TypeOK, PresenceTypeOK, Calls
<1>0. q \in Seq(Calls)
  BY DEF TypeOK, PresenceTypeOK
<1>2. calls' = [calls EXCEPT ![i] = Tail(q)]
  BY <1>1 DEF PresenceExecutes, PresenceLoses, Execute, LoseCall, FollowUp
<1>3. calls'[i] = Tail(q) /\ \A j \in Inst : j # i => calls'[j] = calls[j]
  BY <1>2 DEF TypeOK, PresenceTypeOK
<1>4. ASSUME NEW j \in Inst, NEW m \in DOMAIN calls'[j] PROVE calls'[j][m] # "delete"
  <2>1. CASE j = i
    <3>1. m \in DOMAIN Tail(q) /\ calls'[j][m] = Tail(q)[m]
      BY <1>3, <1>4, <2>1
    <3>2. Tail(q)[m] = q[m + 1] /\ m + 1 \in DOMAIN q
      BY <1>1, <3>1
    <3> QED
      BY <3>1, <3>2
  <2>2. CASE j # i
    BY <1>3, <1>4, <2>2
  <2> QED
    BY <2>1, <2>2
<1>5. ASSUME NEW c \in Conn, claim'[c] = "made"
      PROVE  /\ at[c] \in Inst
             /\ IF calls'[at[c]] = <<>> THEN holder' = at[c]
                ELSE calls'[at[c]][Len(calls'[at[c]])] = "online"
  <2>1. claim[c] = "made" /\ at[c] \in Inst
    BY <1>5 DEF PresenceExecutes, PresenceLoses, Unmade
  <2>2. CASE at[c] = i
    <3>1. q[Len(q)] = "online"
      BY <1>1, <2>1, <2>2
    <3>2. CASE Len(q) = 1
      <4>1. q[1] = "online" /\ calls'[i] = <<>>
        BY <1>1, <1>3, <3>1, <3>2, EmptySeq DEF TypeOK, PresenceTypeOK
      <4>2. PresenceExecutes(i, n)
        BY <1>1, <1>5, <2>2, <4>1 DEF PresenceLoses, Unmade
      <4> QED
        <5>1. holder' = Executed(holder, i, "online")
          BY <1>1, <4>1, <4>2 DEF PresenceExecutes, Execute
        <5>2. holder' = i
          BY <5>1, OnlineSets
        <5> QED
          BY <2>2, <4>1, <5>2
    <3>3. CASE Len(q) # 1
      <4>1. Tail(q) # <<>> /\ Tail(q)[Len(Tail(q))] = q[Len(q)]
        BY <1>0, <1>1, <3>3, LastOfTail
      <4> QED
        BY <1>3, <2>1, <2>2, <3>1, <4>1
    <3> QED
      BY <3>2, <3>3
  <2>3. CASE at[c] # i
    <3>1. calls'[at[c]] = calls[at[c]]
      BY <1>3, <2>1, <2>3
    <3>2. PresenceExecutes(i, n) => q[1] = "offline"
      BY <1>1, <1>5, <2>3 DEF PresenceExecutes, Unmade
    <3>3. holder = at[c] => holder' = at[c]
      BY <1>1, <2>3, <3>2 DEF PresenceExecutes, PresenceLoses, Execute, LoseCall, Executed
    <3> QED
      BY <2>1, <3>1, <3>3
  <2> QED
    BY <2>2, <2>3
<1> QED
  BY <1>4, <1>5

\* A call an instance makes comes after all its others.
LEMMA IssueLast ==
  ASSUME TypeOK, ClaimsStand, NEW i \in Inst, NEW call \in {"online", "offline"}, Issue(i, call)
  PROVE  /\ calls'[i] # <<>> /\ calls'[i][Len(calls'[i])] = call
         /\ \A j \in Inst : j # i => calls'[j] = calls[j]
         /\ \A j \in Inst : \A n \in DOMAIN calls'[j] : calls'[j][n] # "delete"
         /\ holder' = holder
<1> DEFINE q == calls[i]
<1>1. q \in Seq(Calls) /\ call \in Calls /\ call # "delete"
  BY DEF TypeOK, PresenceTypeOK, Calls
<1>2. /\ Append(q, call) # <<>> /\ Append(q, call)[Len(Append(q, call))] = call
      /\ \A n \in DOMAIN Append(q, call) : Append(q, call)[n] = call \/ (n \in DOMAIN q /\ Append(q, call)[n] = q[n])
  BY <1>1, AppendProperties
<1>3. calls'[i] = Append(q, call) /\ \A j \in Inst : j # i => calls'[j] = calls[j]
  BY DEF Issue, TypeOK, PresenceTypeOK
<1> QED
  BY <1>1, <1>2, <1>3 DEF Issue, ClaimsStand

\* No callback, crash or call undermines a claim that still counts as made.
LEMMA ClaimsKept ==
  ASSUME Scripted, LinkInv, ClaimsStand, [Next]_vars
  PROVE  ClaimsStand'
<1> USE DEF LinkInv
<1>1. ASSUME NEW c \in Conn, Connect(c) PROVE ClaimsStand'
  <2>1. /\ sock[c] = "new" /\ \A e \in Conn : e # c => at'[e] = at[e]
        /\ UNCHANGED <<calls, holder, claim>>
    BY <1>1 DEF Connect, historyVars, presenceVars, TypeOK
  <2>2. claim[c] # "made"
    BY <2>1, LinkAssumption DEF Placed, ClaimsStand
  <2> QED
    BY <2>1, <2>2 DEF ClaimsStand
<1>2. ASSUME NEW c \in Conn, at[c] \in Inst, Issue(at[c], "online"), at' = at,
             \A e \in Conn : e # c => claim'[e] = claim[e]
      PROVE  ClaimsStand'
  <2>1. /\ calls'[at[c]] # <<>> /\ calls'[at[c]][Len(calls'[at[c]])] = "online"
        /\ \A j \in Inst : j # at[c] => calls'[j] = calls[j]
        /\ \A j \in Inst : \A n \in DOMAIN calls'[j] : calls'[j][n] # "delete"
        /\ holder' = holder
    BY <1>2, IssueLast
  <2>2. ASSUME NEW e \in Conn, claim'[e] = "made"
        PROVE  /\ at[e] \in Inst
               /\ IF calls'[at[e]] = <<>> THEN holder' = at[e]
                  ELSE calls'[at[e]][Len(calls'[at[e]])] = "online"
    <3>1. CASE at[e] = at[c]
      BY <1>2, <2>1, <3>1
    <3>2. CASE at[e] # at[c]
      <4>1. claim[e] = "made"
        BY <1>2, <2>2, <3>2
      <4> QED
        BY <2>1, <3>2, <4>1 DEF ClaimsStand
    <3> QED
      BY <3>1, <3>2
  <2> QED
    BY <1>2, <2>1, <2>2 DEF ClaimsStand
<1>3. ASSUME NEW c \in Conn, Admit(c) PROVE ClaimsStand'
  <2>1. /\ at[c] \in Inst /\ Issue(at[c], "online") /\ at' = at
        /\ \A e \in Conn : e # c => claim'[e] = claim[e]
    BY <1>3 DEF Admit, Placed, TypeOK, HistoryTypeOK
  <2> QED
    BY <1>2, <2>1
<1>4. ASSUME NEW c \in Conn, ReceiveFrames(c) PROVE ClaimsStand'
  <2>1. CASE c \in admitted
    <3>1. /\ at[c] \in Inst /\ Issue(at[c], "online") /\ at' = at
          /\ \A e \in Conn : e # c => claim'[e] = claim[e]
      BY <1>4, <2>1 DEF ReceiveFrames, Placed, TypeOK, HistoryTypeOK
    <3> QED
      BY <1>2, <3>1
  <2>2. CASE c \notin admitted
    BY <1>4, <2>2 DEF ReceiveFrames, presenceVars, ClaimsStand
  <2> QED
    BY <2>1, <2>2
<1>5. ASSUME NEW c \in Conn, OnClose(c) PROVE ClaimsStand'
  <2>1. /\ at[c] \in Inst /\ at' = at
        /\ \A e \in Conn : claim'[e] = "made" => claim[e] = "made" /\ ~(c \in bound /\ at[e] = at[c])
    BY <1>5 DEF OnClose, ReleasedWith, Placed, TypeOK, HistoryTypeOK
  <2>2. CASE c \in bound
    <3>1. /\ \A j \in Inst : j # at[c] => calls'[j] = calls[j]
          /\ \A j \in Inst : \A n \in DOMAIN calls'[j] : calls'[j][n] # "delete"
          /\ holder' = holder
      BY <1>5, <2>1, <2>2, IssueLast DEF OnClose
    <3> QED
      BY <2>1, <2>2, <3>1 DEF ClaimsStand
  <2>3. CASE c \notin bound
    BY <1>5, <2>1, <2>3 DEF OnClose, presenceVars, ClaimsStand
  <2> QED
    BY <2>2, <2>3
<1>6. ASSUME NEW i \in Inst, Crash(i) PROVE ClaimsStand'
  <2>1. /\ at' = at /\ holder' = holder
        /\ calls' = [calls EXCEPT ![i] = <<>>]
        /\ claim' = Unmade({c \in Conn : at[c] = i})
    BY <1>6 DEF Crash
  <2>2. calls'[i] = <<>> /\ \A j \in Inst : j # i => calls'[j] = calls[j]
    BY <2>1 DEF TypeOK, PresenceTypeOK
  <2>3. DOMAIN calls'[i] = {}
    BY <2>2
  <2>4. \A e \in Conn : claim'[e] = "made" => claim[e] = "made" /\ at[e] # i
    BY <2>1 DEF Unmade
  <2> QED
    BY <2>1, <2>2, <2>3, <2>4 DEF ClaimsStand
<1>7. ASSUME NEW c \in Conn, Refuse(c) \/ Disconnect(c) PROVE ClaimsStand'
  <2>1. /\ UNCHANGED <<at, calls, holder>>
        /\ \A e \in Conn : claim'[e] = "made" => claim[e] = "made"
    BY <1>7 DEF Refuse, Disconnect, Unmade, presenceVars, historyVars
  <2> QED
    BY <2>1 DEF ClaimsStand
<1>8. CASE PresenceStep
  <2>1. at' = at
    BY <1>8 DEF PresenceStep
  <2>2. CASE PresenceExpires
    <3>1. calls' = calls /\ \A e \in Conn : claim'[e] # "made"
      BY <2>2 DEF PresenceExpires, ExpirePresence, Unmade
    <3> QED
      BY <3>1 DEF ClaimsStand
  <2> QED
    BY <1>8, <2>1, <2>2, ClaimsMeetCalls DEF PresenceStep
<1>9. ASSUME UNCHANGED <<at, calls, holder, claim>> PROVE ClaimsStand'
  BY <1>9 DEF ClaimsStand
<1>10. ASSUME NEW i \in Inst, DrainStep(i) PROVE UNCHANGED <<at, calls, holder, claim>>
  BY <1>10 DEF DrainStep, PollCommits, PollReturns, PollFails, WriteDone, WriteFails, Nack, NackFails,
               socketVars, historyVars, presenceVars
<1>11. ASSUME NEW k \in Cmd, ApiStep(k) PROVE UNCHANGED <<at, calls, holder, claim>>
  BY <1>11 DEF ApiStep, Queue, RequestWakeup, Cancel, ExpiryPasses, OnWakeup, socketVars, historyVars, presenceVars
<1>12. ASSUME StrayCommits \/ UNCHANGED vars PROVE UNCHANGED <<at, calls, holder, claim>>
  BY <1>12 DEF StrayCommits, vars, socketVars, historyVars, presenceVars
<1> QED
  BY <1>1, <1>3, <1>4, <1>5, <1>6, <1>7, <1>8, <1>9, <1>10, <1>11, <1>12 DEF Next, SocketStep

\* presence.ts lines 21-22, of RedisPresenceStore and for any number of instances and
\* connections: a connection whose claim was executed has the presence entry, unless
\* its call was lost, the TTL fired, another instance claimed the device later or
\* another connection of its own instance was closed since.
THEOREM PresenceAlwaysExplained == Scripted => (Spec => []PresenceExplained)
<1> SUFFICES ASSUME Scripted PROVE Spec => []PresenceExplained
  OBVIOUS
<1>1. Init => ClaimsStand
  BY DEF Init, PresenceInit, ClaimsStand
<1>2. CommandInv /\ ClaimsStand /\ [Next]_vars => ClaimsStand'
  BY ClaimsKept DEF CommandInv
<1>3. ClaimsStand => PresenceExplained
  BY DEF ClaimsStand, PresenceExplained
<1> QED
  BY CommandInvHolds, <1>1, <1>2, <1>3, PTL DEF Spec

\* RegistriesExplained, which the run DeviceLink checks, is the two together: what takes
\* a connection's place, in the sessions of its process or in the presence store, is one
\* of the causes they name.
THEOREM RegistriesAlwaysExplained == Scripted => (Spec => []RegistriesExplained)
<1> SUFFICES ASSUME Scripted PROVE Spec => []RegistriesExplained
  OBVIOUS
<1>1. Spec => []SessionExplained
  BY SessionAlwaysExplained
<1>2. Spec => []PresenceExplained
  BY PresenceAlwaysExplained
<1> QED
  BY <1>1, <1>2, PTL DEF RegistriesExplained

-----------------------------------------------------------------------------
(* The link implements the promise of CommandHandover. *)

\* Where the promise sees a command, and what it sees an instance have.
Stage == [k \in Cmd |-> IF row[k] # "sent" THEN row[k] ELSE IF written[k] > 0 THEN "written" ELSE "out"]
Hands == [i \in Inst |-> drain[i].left \cup drain[i].cmd]

\* Callers of drain() (commands.ts lines 99-110) change nothing the promise sees.
LEMMA DrainUnseen ==
  ASSUME TypeOK, Custody, NEW i \in Inst, NEW s \in [Inst -> Conn \cup {NoConn}], Drain(i, s)
  PROVE  Hands' = Hands
<1>1. PICK d \in Drains : drain' = [drain EXCEPT ![i] = d] /\ Holds(d) = Holds(drain[i])
  BY DrainHolds
<1>2. \A j \in Inst : Holds(drain'[j]) = Holds(drain[j])
  BY <1>1 DEF TypeOK
<1> QED
  BY <1>2 DEF Hands, Holds

\* What a drain has after its step is what its instance has.
LEMMA HandsFollow ==
  ASSUME TypeOK, NEW i \in Inst, NEW d, drain' = [drain EXCEPT ![i] = d]
  PROVE  Hands' = [Hands EXCEPT ![i] = Holds(d)]
<1>1. \A j \in Inst : drain'[j] = IF j = i THEN d ELSE drain[j]
  BY DEF TypeOK
<1> QED
  BY <1>1 DEF Hands, Holds

\* A drain that is given up (a crash, a failed call, a write loop that stops):
\* its instance loses what it had, if it had anything.
LEMMA GivesUp ==
  ASSUME TypeOK, NEW i \in Inst, drain' = [drain EXCEPT ![i] = Idle], Stage' = Stage
  PROVE  Handover!GiveUp(i) \/ UNCHANGED <<Stage, Hands>>
<1>1. Holds(Idle) = {}
  BY DEF Holds, Idle
<1>2. Hands' = [Hands EXCEPT ![i] = {}]
  BY <1>1, HandsFollow
<1>3. CASE Hands[i] = {}
  <2>1. Hands' = Hands
    BY <1>2, <1>3 DEF Hands
  <2> QED
    BY <2>1
<1>4. CASE Hands[i] # {}
  BY <1>2, <1>4 DEF Handover!GiveUp, Stage, Hands
<1> QED
  BY <1>3, <1>4

\* The committed claim (positions.ts lines 167-201) takes everything out of the
\* queue but what has lapsed.
LEMMA ClaimPolls ==
  ASSUME TypeOK, Custody, ClaimPending, written' = written
  PROVE  /\ Handover!Queued \cap lapsed \in SUBSET Handover!Queued
         /\ Handover!Queued \ (Handover!Queued \cap lapsed) = Claimable
         /\ Handover!Polled(Handover!Queued \cap lapsed)
<1>1. \A k \in Cmd : k \in Handover!Queued <=> row[k] = "queued"
  BY DEF Handover!Queued
<1>2. Handover!Queued \subseteq Cmd
  BY DEF Handover!Queued
<1>3. \A k \in Cmd : row'[k] = IF row[k] # "queued" THEN row[k] ELSE IF k \in lapsed THEN "expired" ELSE "sent"
  BY DEF ClaimPending
<1>4. \A k \in Cmd : row[k] = "queued" => written[k] = 0
  BY DEF Custody
<1>5. Stage' = [k \in Cmd |-> IF k \notin Handover!Queued THEN Stage[k]
                              ELSE IF k \in Handover!Queued \cap lapsed THEN "expired" ELSE "out"]
  BY <1>1, <1>3, <1>4 DEF Stage
<1>6. Handover!Polled(Handover!Queued \cap lapsed)
  BY <1>5 DEF Stage, Handover!Polled
<1> QED
  BY <1>1, <1>2, <1>6 DEF Claimable

\* A write or an acknowledgement ends the one command under way, and the head of
\* the write loop (commands.ts lines 115-116) keeps the rest or gives it up.
LEMMA LoopFinishes ==
  ASSUME TypeOK, Custody, NEW i \in Inst, NEW d \in LoopHead(i, drain[i].left),
         drain' = [drain EXCEPT ![i] = d],
         NEW k \in Cmd, drain[i].cmd = {k}, NEW how \in {"written", "failed"},
         Stage' = [Stage EXCEPT ![k] = how]
  PROVE  Handover!Finish(i, k)
<1>1. drain[i].left \in SUBSET Cmd /\ drain[i].left \cap {k} = {}
  BY DEF TypeOK, Custody, Shape
<1>2. Hands[i] = drain[i].left \cup {k}
  BY DEF Hands
<1>3. Holds(d) \in {{}, Hands[i] \ {k}}
  BY <1>1, <1>2, LoopHeadHolds DEF Holds, Idle
<1>4. Hands' = [Hands EXCEPT ![i] = Holds(d)]
  BY HandsFollow
<1> QED
  BY <1>2, <1>3, <1>4 DEF Handover!Finish, Stage, Hands

\* Every step of drainOnce takes, ends or gives up, or shows nothing.
LEMMA DrainStepRefines ==
  ASSUME TypeOK, Custody, NEW i \in Inst, DrainStep(i)
  PROVE  Handover!Next \/ UNCHANGED <<Stage, Hands>>
<1>1. drain[i].left \in SUBSET Cmd /\ Shape(drain[i])
  BY DEF TypeOK, Custody
<1>2. CASE PollCommits(i)
  <2>1. /\ drain' = [drain EXCEPT ![i].phase = "claimed", ![i].left = Claimable]
        /\ drain[i].left = {} /\ drain[i].cmd = {}
        /\ ClaimPending /\ written' = written
    BY <1>1, <1>2 DEF PollCommits, Shape
  <2> DEFINE d == [drain[i] EXCEPT !.phase = "claimed", !.left = Claimable]
  <2>2. drain' = [drain EXCEPT ![i] = d] /\ Holds(d) = Claimable
    BY <2>1 DEF TypeOK, Holds
  <2>3. Hands' = [Hands EXCEPT ![i] = Claimable]
    BY <2>2, HandsFollow
  <2>4. Hands[i] = {}
    BY <2>1 DEF Hands
  <2> DEFINE outdated == Handover!Queued \cap lapsed
  <2>5. /\ outdated \in SUBSET Handover!Queued /\ Handover!Polled(outdated)
        /\ Hands' = [Hands EXCEPT ![i] = Handover!Queued \ outdated]
    BY <2>1, <2>3, ClaimPolls
  <2> HIDE DEF outdated
  <2>6. Handover!Take(i)
    BY <2>4, <2>5 DEF Handover!Take, Handover!Polled, Hands
  <2> QED
    BY <2>6 DEF Handover!Next
<1>3. CASE PollReturns(i)
  <2>1. PICK d \in LoopHead(i, drain[i].left) : drain' = [drain EXCEPT ![i] = d]
    BY <1>3 DEF PollReturns
  <2>2. Stage' = Stage
    BY <1>3 DEF PollReturns, Stage, queueVars
  <2>3. Hands[i] = drain[i].left
    BY <1>1, <1>3 DEF PollReturns, Shape, Hands
  <2>4. CASE d = Idle
    BY <2>1, <2>2, <2>4, GivesUp DEF Handover!Next, Handover!Settle
  <2>5. CASE Holds(d) = drain[i].left
    <3>1. Hands' = [Hands EXCEPT ![i] = Hands[i]]
      BY <2>1, <2>3, <2>5, HandsFollow
    <3> QED
      BY <2>2, <3>1 DEF Hands
  <2> QED
    BY <1>1, <2>1, <2>4, <2>5, LoopHeadHolds
<1>4. CASE PollFails(i) \/ NackFails(i)
  <2>1. drain' = [drain EXCEPT ![i] = Idle] /\ Stage' = Stage
    BY <1>4 DEF PollFails, NackFails, Stage, queueVars
  <2> QED
    BY <2>1, GivesUp DEF Handover!Next, Handover!Settle
<1>5. CASE WriteDone(i)
  <2>1. PICK d \in LoopHead(i, drain[i].left) : drain' = [drain EXCEPT ![i] = d]
    BY <1>5 DEF WriteDone
  <2>2. PICK k \in Cmd : drain[i].cmd = {k}
    BY <1>1, <1>5 DEF WriteDone, Shape
  <2>3. row[k] = "sent" /\ written[k] = 0
    BY <2>2 DEF Custody, Holds
  <2>4. row' = row /\ written' = [l \in Cmd |-> IF l = k THEN written[l] + 1 ELSE written[l]]
    BY <1>5, <2>2 DEF WriteDone, queueVars
  <2>5. Stage' = [Stage EXCEPT ![k] = "written"]
    <3>1. /\ row' = row /\ written'[k] = 1
          /\ \A l \in Cmd : l # k => written'[l] = written[l]
      BY <2>3, <2>4
    <3>2. \A l \in Cmd : Stage'[l] = IF l = k THEN "written" ELSE Stage[l]
      BY <2>3, <3>1 DEF Stage, TypeOK
    <3> QED
      BY <3>2 DEF Stage
  <2>6. Handover!Finish(i, k)
    BY <2>1, <2>2, <2>5, LoopFinishes
  <2> QED
    BY <2>6 DEF Handover!Next, Handover!Settle
<1>6. CASE WriteFails(i)
  <2>1. drain' = [drain EXCEPT ![i].phase = "nacking"] /\ Stage' = Stage
    BY <1>6 DEF WriteFails, Stage, queueVars
  <2>2. \A j \in Inst : drain'[j].left = drain[j].left /\ drain'[j].cmd = drain[j].cmd
    BY <2>1 DEF TypeOK
  <2> QED
    BY <2>1, <2>2 DEF Hands
<1>7. CASE Nack(i)
  <2>1. PICK d \in LoopHead(i, drain[i].left) : drain' = [drain EXCEPT ![i] = d]
    BY <1>7 DEF Nack
  <2>2. PICK k \in Cmd : drain[i].cmd = {k}
    BY <1>1, <1>7 DEF Nack, Shape
  <2>3. row' = [row EXCEPT ![k] = "failed"] /\ written' = written
    BY <1>7, <2>2 DEF Nack, AckCommand
  <2>4. Stage' = [Stage EXCEPT ![k] = "failed"]
    BY <2>3 DEF Stage, TypeOK, QueueTypeOK
  <2>5. Handover!Finish(i, k)
    BY <2>1, <2>2, <2>4, LoopFinishes
  <2> QED
    BY <2>5 DEF Handover!Next, Handover!Settle
<1> QED
  BY <1>2, <1>3, <1>4, <1>5, <1>6, <1>7 DEF DrainStep

\* The API queues and withdraws; waking, expiry and the subscriber show nothing.
LEMMA ApiStepRefines ==
  ASSUME TypeOK, Custody, NEW k \in Cmd, ApiStep(k)
  PROVE  Handover!Next \/ UNCHANGED <<Stage, Hands>>
<1>1. CASE Queue(k)
  <2>1. row[k] = "none" /\ row' = [row EXCEPT ![k] = "queued"] /\ UNCHANGED <<written, drain>>
    BY <1>1 DEF Queue, QueueCommand
  <2>2. Stage[k] = "none" /\ Stage' = [Stage EXCEPT ![k] = "queued"] /\ Hands' = Hands
    BY <2>1 DEF Stage, Hands, TypeOK, QueueTypeOK
  <2>3. Handover!Queue(k)
    BY <2>2 DEF Handover!Queue, Stage, Hands
  <2> QED
    BY <2>3 DEF Handover!Next
<1>2. CASE Cancel(k)
  <2>1. row[k] = "queued" /\ row' = [row EXCEPT ![k] = "canceled"] /\ UNCHANGED <<written, drain>>
    BY <1>2 DEF Cancel, CancelCommand, commandVars
  <2>2. Stage[k] = "queued" /\ Stage' = [Stage EXCEPT ![k] = "canceled"] /\ Hands' = Hands
    BY <2>1 DEF Stage, Hands, TypeOK, QueueTypeOK
  <2>3. Handover!Withdraw(k)
    BY <2>2 DEF Handover!Withdraw, Stage, Hands
  <2> QED
    BY <2>3 DEF Handover!Next
<1>3. CASE RequestWakeup(k) \/ ExpiryPasses(k)
  BY <1>3 DEF RequestWakeup, ExpiryPasses, Lapse, queueVars, commandVars, Stage, Hands
<1>4. ASSUME NEW i \in Inst, OnWakeup(i, k) PROVE UNCHANGED <<Stage, Hands>>
  <2>1. Drain(i, session) /\ UNCHANGED <<row, written>>
    BY <1>4 DEF OnWakeup, queueVars
  <2>2. Hands' = Hands
    BY <2>1, DrainUnseen DEF TypeOK
  <2> QED
    BY <2>1, <2>2 DEF Stage
<1> QED
  BY <1>1, <1>2, <1>3, <1>4 DEF ApiStep

\* Sockets, sessions, presence and lost polls: only a poll that reaches nobody and
\* a crash are seen at all.
LEMMA OtherStepsRefine ==
  ASSUME TypeOK, Placed, Custody,
         \/ \E c \in Conn : SocketStep(c)
         \/ \E i \in Inst : Crash(i)
         \/ PresenceStep \/ StrayCommits \/ UNCHANGED vars
  PROVE  Handover!Next \/ UNCHANGED <<Stage, Hands>>
<1>1. ASSUME NEW c \in Conn, Admit(c) PROVE UNCHANGED <<Stage, Hands>>
  <2> DEFINE s == [session EXCEPT ![at[c]] = c]
  <2>1. at[c] \in Inst /\ Drain(at[c], s) /\ UNCHANGED <<row, written>>
    BY <1>1 DEF Admit, Placed, queueVars
  <2>2. s \in [Inst -> Conn \cup {NoConn}]
    BY DEF TypeOK
  <2>3. Hands' = Hands
    BY <2>1, <2>2, DrainUnseen
  <2> QED
    BY <2>1, <2>3 DEF Stage
<1>2. ASSUME NEW c \in Conn, SocketStep(c), ~Admit(c) PROVE UNCHANGED <<Stage, Hands>>
  BY <1>2 DEF SocketStep, Connect, ReceiveFrames, Refuse, Disconnect, OnClose, queueVars, commandVars, Stage, Hands
<1>3. ASSUME NEW i \in Inst, Crash(i) PROVE Handover!Next \/ UNCHANGED <<Stage, Hands>>
  <2>1. drain' = [drain EXCEPT ![i] = Idle] /\ Stage' = Stage
    BY <1>3 DEF Crash, queueVars, Stage
  <2> QED
    BY <2>1, GivesUp DEF Handover!Next, Handover!Settle
<1>4. CASE PresenceStep \/ UNCHANGED vars
  BY <1>4 DEF PresenceStep, vars, queueVars, commandVars, Stage, Hands
<1>5. CASE StrayCommits
  <2>1. ClaimPending /\ written' = written /\ drain' = drain
    BY <1>5 DEF StrayCommits
  <2> DEFINE outdated == Handover!Queued \cap lapsed
  <2>2. outdated \in SUBSET Handover!Queued /\ Handover!Polled(outdated)
    BY <2>1, ClaimPolls
  <2> HIDE DEF outdated
  <2>3. Handover!GoAstray
    BY <2>1, <2>2 DEF Handover!GoAstray, Handover!Polled
  <2> QED
    BY <2>3 DEF Handover!Next
<1> QED
  BY <1>1, <1>2, <1>3, <1>4, <1>5

\* The link with its sockets, sessions, wake-ups, crashes and lost answers
\* implements the safety of the promise: a command is taken out of the queue once,
\* by one holder, who ends it or gives it up.
THEOREM KeepsHandoverSafety == Spec => Handover!Safety
<1>1. Init => Handover!Init
  BY DEF Init, QueueInit, Idle, Handover!Init
<1>2. CommandInv /\ [Next]_vars => [Handover!Next]_<<Stage, Hands>>
  <2> SUFFICES ASSUME CommandInv, [Next]_vars
               PROVE  Handover!Next \/ UNCHANGED <<Stage, Hands>>
    OBVIOUS
  <2>1. TypeOK /\ Placed /\ Custody
    BY DEF CommandInv, LinkInv
  <2> QED
    BY <2>1, DrainStepRefines, ApiStepRefines, OtherStepsRefine DEF Next
<1> QED
  BY <1>1, <1>2, CommandInvHolds, PTL DEF Spec, Handover!Safety, Handover!hvars, Stage, Hands

=============================================================================
