----------------------------- MODULE DeviceLink -----------------------------
(***************************************************************************)
(* One device, the ingest instances it connects to, and the commands users *)
(* queue for it: the socket handler of apps/ingest/src/server.ts, its      *)
(* ActiveCommandSessions (commands.ts), the wake-up subscriber, the        *)
(* shared presence entry and the durable rows of CommandQueue.  An action  *)
(* is what one callback of one Node process does between two awaits.       *)
(***************************************************************************)
EXTENDS CommandQueue, PresenceStore

CONSTANTS
  Conn,       \* connections of the device, each used once
  NoConn,
  MaxSockets, \* config.maxConnections of each instance's ConnectionGate
  MaxCalls,   \* bound: frames arrive while fewer presence calls are under way
  MaxFaults   \* bound: crashes and failed calls to the command API

ASSUME LinkAssumption ==
  /\ NoConn \notin Conn
  /\ NoInst \notin Inst
  /\ MaxSockets \in [Inst -> Nat]
  /\ MaxCalls \in Nat /\ MaxFaults \in Nat
  /\ Scripted \in BOOLEAN

VARIABLES
  at,        \* the instance the load balancer gave each connection to
  sock,      \* each connection's socket
  checking,  \* connections whose chunk waits for the admission decision
  admitted,  \* connections with admittedImei and an unregister callback
  bound,     \* connections with boundImei
  session,   \* ActiveCommandSessions.sessions of each instance
  drain,     \* ActiveCommandSessions.drains: the running drainOnce
  gate,      \* ConnectionGate.total of each instance
  stray,     \* a poll whose caller gave up is still on its way to the API
  asking,    \* API requests between the insert and the presence lookup
  wake,      \* published wake-ups on their way to each instance
  faults,    \* crashes and failed calls so far
  written,   \* how often each command was flushed to a device socket
  claimant,  \* the connection whose drain claimed the command
  unpolled,  \* admitted connections of an instance that has not polled since
  latest,    \* the connection each process admitted last
  late,      \* connections admitted after their 'close' event
  claim      \* what became of each open connection's last presence.online

historyVars == <<latest, late, claim>>
socketVars == <<at, sock, checking, admitted, bound, session, gate, historyVars>>
commandVars == <<drain, stray, asking, wake, written, claimant, unpolled>>
vars == <<queueVars, presenceVars, socketVars, commandVars, faults>>

Idle == [phase |-> "idle", conn |-> NoConn, left |-> {}, cmd |-> {}]

HistoryTypeOK ==
  /\ latest \in [Inst -> Conn \cup {NoConn}]
  /\ late \subseteq Conn
  /\ claim \in [Conn -> {"none", "made", "released"}]

TypeOK ==
  /\ QueueTypeOK
  /\ PresenceTypeOK
  /\ at \in [Conn -> Inst \cup {NoInst}]
  /\ sock \in [Conn -> {"new", "open", "destroyed", "closed"}]
  /\ checking \subseteq Conn
  /\ admitted \subseteq Conn
  /\ bound \subseteq Conn
  /\ session \in [Inst -> Conn \cup {NoConn}]
  /\ gate \in [Inst -> Nat]
  /\ drain \in [Inst -> [phase : {"idle", "polling", "claimed", "writing", "nacking"},
                         conn : Conn \cup {NoConn}, left : SUBSET Cmd, cmd : SUBSET Cmd]]
  /\ stray \in BOOLEAN
  /\ asking \subseteq Cmd
  /\ wake \in [Inst -> SUBSET Cmd]
  /\ faults \in 0 .. MaxFaults
  /\ written \in [Cmd -> Nat]
  /\ claimant \in [Cmd -> Conn \cup {NoConn}]
  /\ unpolled \subseteq Conn
  /\ HistoryTypeOK

Init ==
  /\ QueueInit
  /\ PresenceInit
  /\ at = [c \in Conn |-> NoInst]
  /\ sock = [c \in Conn |-> "new"]
  /\ checking = {}
  /\ admitted = {}
  /\ bound = {}
  /\ session = [i \in Inst |-> NoConn]
  /\ gate = [i \in Inst |-> 0]
  /\ drain = [i \in Inst |-> Idle]
  /\ stray = FALSE
  /\ asking = {}
  /\ wake = [i \in Inst |-> {}]
  /\ faults = 0
  /\ written = [k \in Cmd |-> 0]
  /\ claimant = [k \in Cmd |-> NoConn]
  /\ unpolled = {}
  /\ latest = [i \in Inst |-> NoConn]
  /\ late = {}
  /\ claim = [c \in Conn |-> "none"]

----------------------------------------------------------------------------
(* ActiveCommandSessions *)

\* drain(imei) on instance i, with sessions s: joins the drain that is already
\* running, and polls only for a session whose socket is not destroyed.
Drain(i, s) ==
  drain' = [drain EXCEPT ![i] =
              IF @.phase = "idle" /\ s[i] # NoConn /\ sock[s[i]] = "open"
                THEN [Idle EXCEPT !.phase = "polling", !.conn = s[i]] ELSE @]

\* Mutant: the loop gives up the rest of the batch after a write.
LoopHeadOnce(i, left) ==
  LET c == drain[i].conn
  IN  IF drain[i].phase # "claimed" \/ left = {} \/ sock[c] # "open" \/ session[i] # c
        THEN {Idle}
        ELSE {[phase |-> "writing", conn |-> c, left |-> left \ {k}, cmd |-> {k}] : k \in left}

\* The head of the write loop: stop when nothing is left, or when the socket is
\* gone or no longer the registered one; otherwise start the next write.
LoopHead(i, left) ==
  LET c == drain[i].conn
  IN  IF left = {} \/ sock[c] # "open" \/ session[i] # c
        THEN {Idle}
        ELSE {[phase |-> "writing", conn |-> c, left |-> left \ {k}, cmd |-> {k}] : k \in left}

\* Mutant: unregister deletes whatever session the device has now.
UnregisteredAny(c, s) == IF c \in admitted THEN [s EXCEPT ![at[c]] = NoConn] ELSE s

\* The unregister callback of connection c, with the sessions s.
Unregistered(c, s) ==
  IF c \in admitted /\ s[at[c]] = c THEN [s EXCEPT ![at[c]] = NoConn] ELSE s

----------------------------------------------------------------------------
(* The socket handler *)

\* ConnectionGate.tryOpen counts a connection, and close gives its place back.
Entered(i, g) == [g EXCEPT ![i] = @ + 1]

\* Mutant: a connection leaves the total once for its source and once for itself.
LeftTwice(i, g) == [g EXCEPT ![i] = @ - 2]

Left(i, g) == [g EXCEPT ![i] = IF @ > 0 THEN @ - 1 ELSE 0]

\* Mutant: a connection without a transport identity keeps its place.
ConnectKeepsPlace(c) ==
  /\ sock[c] = "new"
  /\ \E i \in Inst :
       /\ at' = [at EXCEPT ![c] = i]
       /\ \/ /\ gate[i] < MaxSockets[i]
             /\ sock' \in {[sock EXCEPT ![c] = "open"], [sock EXCEPT ![c] = "closed"]}
             /\ gate' = Entered(i, gate)
          \/ /\ sock' = [sock EXCEPT ![c] = "closed"]
             /\ UNCHANGED gate
  /\ UNCHANGED <<queueVars, presenceVars, checking, admitted, bound, session, commandVars, historyVars, faults>>

\* The device connects: the gate lets it in; or lets it in, and it has no
\* transport identity, so it leaves again; or the gate refuses it.
Connect(c) ==
  /\ sock[c] = "new"
  /\ \E i \in Inst :
       /\ at' = [at EXCEPT ![c] = i]
       /\ \/ /\ gate[i] < MaxSockets[i]
             /\ sock' = [sock EXCEPT ![c] = "open"]
             /\ gate' = Entered(i, gate)
          \/ /\ gate[i] < MaxSockets[i]
             /\ sock' = [sock EXCEPT ![c] = "closed"]
             /\ gate' = Left(i, Entered(i, gate))
          \/ /\ sock' = [sock EXCEPT ![c] = "closed"]
             /\ UNCHANGED gate
  /\ UNCHANGED <<queueVars, presenceVars, checking, admitted, bound, session, commandVars, historyVars, faults>>

\* A chunk with frames of the device.  The socket is paused while a chunk is
\* processed, so no second one is read.  An admitted connection refreshes its
\* presence and forwards; otherwise the chunk waits for admission.check.
ReceiveFrames(c) ==
  /\ sock[c] = "open"
  /\ c \notin checking
  /\ IF c \in admitted
       THEN /\ Len(calls[at[c]]) < MaxCalls
            /\ bound' = bound \cup {c}
            /\ Issue(at[c], "online")
            /\ claim' = [claim EXCEPT ![c] = "made"]
            /\ UNCHANGED checking
       ELSE /\ checking' = checking \cup {c}
            /\ UNCHANGED <<presenceVars, bound, claim>>
  /\ UNCHANGED <<queueVars, at, sock, admitted, session, gate, latest, late, commandVars, faults>>

\* admission.check allows the device: register the session, poll the durable
\* queue, and go on with the chunk.  The socket may be gone by now: nothing here
\* looks.
Admit(c) ==
  LET i == at[c]
      s == [session EXCEPT ![i] = c]
  IN  /\ c \in checking
      /\ checking' = checking \ {c}
      /\ admitted' = admitted \cup {c}
      /\ session' = s
      /\ Drain(i, s)
      /\ bound' = bound \cup {c}
      /\ Issue(i, "online")
      /\ unpolled' = unpolled \cup {c}
      /\ latest' = [latest EXCEPT ![i] = c]
      /\ late' = IF sock[c] = "closed" THEN late \cup {c} ELSE late
      /\ claim' = IF sock[c] # "open" THEN claim ELSE [claim EXCEPT ![c] = "made"]
      /\ UNCHANGED <<stray, queueVars, at, sock, gate, asking, wake, faults, written, claimant>>

\* The claims of the connections in C come to nothing.
Unmade(C) == [c \in Conn |-> IF c \in C THEN "none" ELSE claim[c]]

\* admission.check denies the device or throws: the socket is destroyed.
Refuse(c) ==
  /\ c \in checking
  /\ checking' = checking \ {c}
  /\ sock' = [sock EXCEPT ![c] = IF @ = "open" THEN "destroyed" ELSE @]
  /\ UNCHANGED <<queueVars, presenceVars, at, admitted, bound, session, gate, historyVars, commandVars, faults>>

\* The peer resets the connection, or it idles out.
Disconnect(c) ==
  /\ sock[c] = "open"
  /\ sock' = [sock EXCEPT ![c] = "destroyed"]
  /\ claim' = Unmade({c})
  /\ UNCHANGED <<queueVars, presenceVars, at, checking, admitted, bound, session, gate,
                 latest, late, commandVars, faults>>

\* The release of connection c is one of all that its instance has claimed.
ReleasedWith(c) ==
  [d \in Conn |-> IF c \in bound /\ at[d] = at[c] /\ claim[d] = "made" THEN "released"
                  ELSE claim[d]]

\* Mutant: a connection leaves the gate, but not the sessions.
OnCloseKeeps(c) ==
  /\ sock[c] = "destroyed"
  /\ sock' = [sock EXCEPT ![c] = "closed"]
  /\ gate' = Left(at[c], gate)
  /\ IF c \in bound THEN Issue(at[c], "offline") ELSE UNCHANGED presenceVars
  /\ claim' = ReleasedWith(c)
  /\ UNCHANGED <<queueVars, at, checking, admitted, bound, session, latest, late, commandVars, faults>>

\* The 'close' event of a destroyed socket.
OnClose(c) ==
  /\ sock[c] = "destroyed"
  /\ sock' = [sock EXCEPT ![c] = "closed"]
  /\ gate' = Left(at[c], gate)
  /\ IF c \in bound THEN Issue(at[c], "offline") ELSE UNCHANGED presenceVars
  /\ session' = Unregistered(c, session)
  /\ claim' = ReleasedWith(c)
  /\ UNCHANGED <<queueVars, at, checking, admitted, bound, latest, late, commandVars, faults>>

\* Nobody waits any more for the poll of instance i; if it was sent and not
\* committed, it may still be.
Abandoned(i) == stray' \in {stray, stray \/ drain[i].phase = "polling"}

\* The process of instance i dies and starts again; Redis pub/sub keeps nothing
\* for it.
Crash(i) ==
  LET mine == {c \in Conn : at[c] = i}
  IN  /\ faults < MaxFaults
      /\ faults' = faults + 1
      /\ sock' = [c \in Conn |-> IF c \in mine THEN "closed" ELSE sock[c]]
      /\ checking' = checking \ mine
      /\ admitted' = admitted \ mine
      /\ bound' = bound \ mine
      /\ session' = [session EXCEPT ![i] = NoConn]
      /\ gate' = [gate EXCEPT ![i] = 0]
      /\ drain' = [drain EXCEPT ![i] = Idle]
      /\ Abandoned(i)
      /\ wake' = [wake EXCEPT ![i] = {}]
      /\ calls' = [calls EXCEPT ![i] = <<>>]
      /\ unpolled' = unpolled \ mine
      /\ latest' = [latest EXCEPT ![i] = NoConn]
      /\ late' = late \ mine
      /\ claim' = Unmade(mine)
      /\ UNCHANGED <<queueVars, at, holder, asking, written, claimant>>

----------------------------------------------------------------------------
(* The API: queueing, waking and cancelling *)

\* POST /devices/:id/commands inserts the row ...
Queue(k) ==
  /\ QueueCommand(k)
  /\ asking' = asking \cup {k}
  /\ UNCHANGED <<stray, presenceVars, socketVars, drain, wake, written, claimant, unpolled, faults>>

\* ... then looks the holder up and publishes a wake-up to it; without an entry,
\* or when Redis fails, the row just stays queued.
RequestWakeup(k) ==
  /\ k \in asking
  /\ asking' = asking \ {k}
  /\ \/ holder # NoInst /\ wake' = [wake EXCEPT ![holder] = @ \cup {k}]
     \/ UNCHANGED wake
  /\ UNCHANGED <<stray, queueVars, presenceVars, socketVars, drain, written, claimant, unpolled, faults>>

OnWakeup(i, k) ==
  /\ k \in wake[i]
  /\ wake' = [wake EXCEPT ![i] = @ \ {k}]
  /\ Drain(i, session)
  /\ UNCHANGED <<stray, queueVars, presenceVars, socketVars, asking, written, claimant, unpolled, faults>>

Cancel(k) ==
  /\ CancelCommand(k)
  /\ UNCHANGED <<presenceVars, socketVars, commandVars, faults>>

ExpiryPasses(k) ==
  /\ Lapse(k)
  /\ UNCHANGED <<presenceVars, socketVars, commandVars, faults>>

----------------------------------------------------------------------------
(* drainOnce *)

\* The API commits the claim of instance i's poll.
PollCommits(i) ==
  /\ drain[i].phase = "polling"
  /\ ClaimPending
  /\ claimant' = [k \in Cmd |-> IF k \in Claimable THEN drain[i].conn ELSE claimant[k]]
  /\ drain' = [drain EXCEPT ![i].phase = "claimed", ![i].left = Claimable]
  /\ unpolled' = {c \in unpolled : at[c] # i}
  /\ UNCHANGED <<stray, presenceVars, socketVars, asking, wake, written, faults>>

\* Its response arrives: the write loop begins.
PollReturns(i) ==
  /\ drain[i].phase = "claimed"
  /\ \E d \in LoopHead(i, drain[i].left) : drain' = [drain EXCEPT ![i] = d]
  /\ UNCHANGED <<stray, queueVars, presenceVars, socketVars, asking, wake, written, claimant, unpolled, faults>>

\* The poll rejects, before or after the API committed: drainOnce throws.
PollFails(i) ==
  /\ drain[i].phase \in {"polling", "claimed"}
  /\ faults < MaxFaults
  /\ faults' = faults + 1
  /\ drain' = [drain EXCEPT ![i] = Idle]
  /\ Abandoned(i)
  /\ UNCHANGED <<queueVars, presenceVars, socketVars, asking, wake, written, claimant, unpolled>>

\* The API commits a claim that nobody will write.
StrayCommits ==
  /\ stray
  /\ stray' = FALSE
  /\ ClaimPending
  /\ UNCHANGED <<presenceVars, socketVars, drain, asking, wake, written, claimant, unpolled, faults>>

\* The write callback reports success.
WriteDone(i) ==
  /\ drain[i].phase = "writing"
  /\ sock[drain[i].conn] = "open"
  /\ written' = [k \in Cmd |-> IF k \in drain[i].cmd THEN written[k] + 1 ELSE written[k]]
  /\ \E d \in LoopHead(i, drain[i].left) : drain' = [drain EXCEPT ![i] = d]
  /\ UNCHANGED <<stray, queueVars, presenceVars, socketVars, asking, wake, claimant, unpolled, faults>>

\* Mutant: the write callback ignores its error argument,
\* so the promise of a write to a dead socket never settles.
WriteFailsSilently(i) ==
  /\ drain[i].phase = "writing"
  /\ sock[drain[i].conn] # "open"
  /\ UNCHANGED vars

\* The socket was destroyed under the write: the callback reports an error and
\* the command is acknowledged as failed.
WriteFails(i) ==
  /\ drain[i].phase = "writing"
  /\ sock[drain[i].conn] # "open"
  /\ drain' = [drain EXCEPT ![i].phase = "nacking"]
  /\ UNCHANGED <<stray, queueVars, presenceVars, socketVars, asking, wake, written, claimant, unpolled, faults>>

Nack(i) ==
  /\ drain[i].phase = "nacking"
  /\ \E k \in drain[i].cmd : AckCommand(k, "failed")
  /\ \E d \in LoopHead(i, drain[i].left) : drain' = [drain EXCEPT ![i] = d]
  /\ UNCHANGED <<stray, presenceVars, socketVars, asking, wake, written, claimant, unpolled, faults>>

NackFails(i) ==
  /\ drain[i].phase = "nacking"
  /\ faults < MaxFaults
  /\ faults' = faults + 1
  /\ drain' = [drain EXCEPT ![i] = Idle]
  /\ UNCHANGED <<stray, queueVars, presenceVars, socketVars, asking, wake, written, claimant, unpolled>>

----------------------------------------------------------------------------
(* Redis *)

\* Redis executes a call: presence.online of one instance ends the claims made on
\* the others.
PresenceExecutes(i, n) ==
  /\ Execute(i, n)
  /\ claim' = IF calls[i][n] = "online" THEN Unmade({c \in Conn : at[c] # i}) ELSE claim

PresenceLoses(i, n) ==
  /\ LoseCall(i, n)
  /\ claim' = IF calls[i][n] = "online" THEN Unmade({c \in Conn : at[c] = i}) ELSE claim

PresenceExpires == ExpirePresence /\ claim' = Unmade(Conn)

PresenceStep ==
  /\ \/ \E i \in Inst : \E n \in Deliverable(i) : PresenceExecutes(i, n) \/ PresenceLoses(i, n)
     \/ PresenceExpires
  /\ UNCHANGED <<queueVars, at, sock, checking, admitted, bound, session, gate, latest, late,
                 commandVars, faults>>

SocketStep(c) ==
  Connect(c) \/ ReceiveFrames(c) \/ Admit(c) \/ Refuse(c) \/ Disconnect(c) \/ OnClose(c)

DrainStep(i) ==
  \/ PollCommits(i) \/ PollReturns(i) \/ PollFails(i)
  \/ WriteDone(i) \/ WriteFails(i) \/ Nack(i) \/ NackFails(i)

ApiStep(k) ==
  Queue(k) \/ RequestWakeup(k) \/ Cancel(k) \/ ExpiryPasses(k) \/ \E i \in Inst : OnWakeup(i, k)

Next ==
  \/ \E c \in Conn : SocketStep(c)
  \/ \E i \in Inst : DrainStep(i) \/ Crash(i)
  \/ \E k \in Cmd : ApiStep(k)
  \/ PresenceStep
  \/ StrayCommits

\* The command API answers or the HTTP client gives up, and Node calls every
\* write callback, with an error once the socket is destroyed.  Nothing else need
\* ever happen: not even the 'close' event of a destroyed socket.
Fairness == \A i \in Inst : WF_vars(DrainStep(i))

Spec == Init /\ [][Next]_vars /\ Fairness

----------------------------------------------------------------------------
(* Properties *)

\* A drain holds the command: it will be written, acknowledged or given up.
Carried(k) == \E i \in Inst : k \in drain[i].left \cup drain[i].cmd

\* docs/REALTIME_AND_COMMAND_ROUTING.md: "Atomic queued -> sent claiming prevents
\* two holders from writing the same command", across reconnects, overlapping
\* drains on several instances, wake-ups and crashes.
WrittenAtMostOnce ==
  \A k \in Cmd : /\ written[k] <= 1
                 /\ Carried(k) => written[k] = 0
                 /\ \A i, j \in Inst : i # j => k \notin (drain[i].left \cup drain[i].cmd)
                                                       \cap (drain[j].left \cup drain[j].cmd)

\* A cancellation the API confirmed (devices.ts lines 296-309) and an expiry it
\* recorded hold: the command is not on its way to a socket and never was.
CanceledIsNeverWritten ==
  \A k \in Cmd : row[k] \in {"canceled", "expired"} => written[k] = 0 /\ ~Carried(k)

\* A claimed command that was never written and that nothing carries any more is
\* explained: the connection that claimed it was closed or replaced meanwhile,
\* or a process or a call to the API failed.
LossIsExplained ==
  \A k \in Cmd :
    row[k] = "sent" /\ written[k] = 0 /\ ~Carried(k) =>
      \/ faults > 0
      \/ sock[claimant[k]] # "open"
      \/ session[at[claimant[k]]] # claimant[k]

\* The gate's counter comes back to the truth on every path a connection ends.
GateExact ==
  \A i \in Inst :
    gate[i] = Cardinality({c \in Conn : at[c] = i /\ sock[c] \in {"open", "destroyed"}})

\* A command is out once it is claimed, until a write or a failure ends it; an
\* instance has the commands of its drain.
Handover == INSTANCE CommandHandover WITH
  state <- [k \in Cmd |-> IF row[k] # "sent" THEN row[k] ELSE IF written[k] > 0 THEN "written" ELSE "out"],
  hands <- [i \in Inst |-> drain[i].left \cup drain[i].cmd]

\* Claiming, write loops, reconnects, crashes and failed calls of all instances keep
\* the promise of CommandHandover: each command is taken out of the queue once, by one
\* holder, who ends it or gives it up; a cancelled one is never taken.
KeepsHandover == Handover!Spec

\* "A late close removes a session only when it still owns that exact local
\* registration" (docs/REALTIME_AND_COMMAND_ROUTING.md): an instance has the session
\* of the connection it admitted last, until that one is closed.  A session whose
\* connection is closed was registered after the close (server.ts line 126 does not
\* look at the socket), and stays until the device is admitted there again.
SessionExplained ==
  \A i \in Inst :
    /\ session[i] = latest[i] \/ (session[i] = NoConn /\ sock[latest[i]] = "closed")
    /\ session[i] # NoConn /\ sock[session[i]] = "closed" => session[i] \in late

\* presence.ts lines 21-22: a release does not evict "a newer connection elsewhere".
\* A connection whose last presence.online was executed has the entry, whatever was
\* executed before or after on other instances, unless that call was lost, the TTL
\* fired, another instance's presence.online came later, or another connection of
\* the same instance was closed since (server.ts lines 218-220 release by instance).
PresenceExplained ==
  \A c \in Conn : claim[c] = "made" /\ calls[at[c]] = <<>> => holder = at[c]

\* Both registries of connections, of a process and of all of them: what takes a newer
\* connection's place in one of them is one of these causes.
RegistriesExplained == SessionExplained /\ PresenceExplained

\* presence.ts lines 21-22, of every store: "Release a device - but only if this
\* instance still owns the binding".  Only its holder's own calls and the TTL take
\* the entry away.
ReleasesOwnBinding ==
  [][holder # NoInst /\ holder' = NoInst
       => calls' = calls \/ calls'[holder] # calls[holder]]_vars

\* What server.ts lines 83-84 say of boundImei: "release exactly that binding on
\* close".  The close of one connection leaves the entry to another one, open on
\* the same instance, that has claimed it.
CloseReleasesOwnClaim ==
  \A c \in Conn :
    claim[c] = "released" /\ calls[at[c]] = <<>> => holder = at[c]

\* The entry drain() joins callers to always goes away again, whatever happens to
\* the socket, so that later wake-ups are not swallowed for ever.
DrainsEnd == \A i \in Inst : drain[i].phase # "idle" ~> drain[i].phase = "idle"

\* What docs/REALTIME_AND_COMMAND_ROUTING.md says of a reconnect race: it "leaves
\* the row queued for the next holder".  So no row is claimed and then dropped.
ReconnectKeepsRowQueued ==
  \A k \in Cmd : row[k] = "sent" => written[k] > 0 \/ Carried(k)

\* What server.ts lines 127-128 say: "every admitted connection polls durable
\* queued commands".  As long as no poll was committed on its instance since its
\* admission, a drain is under way there that could still poll.
EveryAdmissionPolls ==
  \A c \in unpolled : sock[c] = "open" /\ session[at[c]] = c
                        => drain[at[c]].phase # "idle"
=============================================================================
