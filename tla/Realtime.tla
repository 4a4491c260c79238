------------------------------ MODULE Realtime ------------------------------
(***************************************************************************)
(* Live events: the bus of each API replica with the shared broker         *)
(* (bus.ts), and the bounded mailbox and write loop of each SSE stream     *)
(* (bounded-event-queue.ts, routes/positions.ts).  The broker delivers at  *)
(* most once and keeps the order of a publisher's connection.  Positions   *)
(* and alerts take the same path and are one kind of event here.           *)
(***************************************************************************)
EXTENDS Naturals, Sequences, SequencesExt

CONSTANTS
  Replica,
  Tenant,
  Stream,
  Home,          \* the replica a stream is connected to
  Viewer,        \* the tenant in a stream's token
  capacity,
  MaxEvents,     \* bound: events published
  MaxBusFaults   \* bound: publishes, subscriptions and broker messages that fail

ASSUME RealtimeAssumption ==
  /\ Home \in [Stream -> Replica] /\ Viewer \in [Stream -> Tenant]
  /\ capacity \in Nat \ {0} /\ MaxEvents \in Nat /\ MaxBusFaults \in Nat

Event == [source : Replica, tenant : Tenant, n : 1 .. MaxEvents]

VARIABLES
  brokerReady,  \* each replica's subscription promise
  outbox,       \* events emitted locally, their publish under way
  channel,      \* messages on their way to a replica's subscriber
  stream,       \* each stream: its loop's next step, its mailbox, the item in hand
  written,      \* events written to the client
  heard,        \* events emitted on its bus for its tenant since it opened (history)
  published,    \* number of events so far
  busFaults

busVars == <<brokerReady, outbox, channel, stream, written, heard, published, busFaults>>

NoStream == [at |-> "closed", items |-> <<>>, waiter |-> FALSE, hand |-> <<>>]

RealtimeTypeOK ==
  /\ brokerReady \in [Replica -> {"none", "pending", "ready", "rejected"}]
  /\ \A r \in Replica : outbox[r] \in Seq(Event) /\ channel[r] \in Seq(Event)
  /\ \A s \in Stream :
       /\ stream[s].at \in {"closed", "next", "awaiting", "writing", "aborted"}
       /\ stream[s].items \in Seq(Event) /\ Len(stream[s].items) <= capacity
       /\ stream[s].waiter <=> stream[s].at = "awaiting"
       /\ stream[s].waiter => stream[s].items = <<>>
       /\ Len(stream[s].hand) <= 1
  /\ published \in 0 .. MaxEvents /\ busFaults \in 0 .. MaxBusFaults

RealtimeInit ==
  /\ brokerReady = [r \in Replica |-> "none"]
  /\ outbox = [r \in Replica |-> <<>>] /\ channel = [r \in Replica |-> <<>>]
  /\ stream = [s \in Stream |-> NoStream]
  /\ written = [s \in Stream |-> <<>>] /\ heard = [s \in Stream |-> <<>>]
  /\ published = 0 /\ busFaults = 0

----------------------------------------------------------------------------
Listening(s) == stream[s].at \in {"next", "awaiting", "writing"}

Aborted == [NoStream EXCEPT !.at = "aborted"]

\* Mutant: the mailbox has no limit.
PushedUnbounded(q, e) ==
  IF q.waiter THEN [q EXCEPT !.at = "writing", !.waiter = FALSE, !.hand = <<e>>]
  ELSE [q EXCEPT !.items = Append(@, e)]

\* push: to the waiting consumer, else into the mailbox, else the stream is
\* aborted.  A waiter whose promise has settled takes the value nowhere.
Pushed(q, e) ==
  CASE q.waiter /\ q.at = "awaiting"  -> [q EXCEPT !.at = "writing", !.waiter = FALSE, !.hand = <<e>>]
    [] q.waiter /\ q.at # "awaiting"  -> [q EXCEPT !.waiter = FALSE]
    [] ~q.waiter                      -> IF Len(q.items) < capacity THEN [q EXCEPT !.items = Append(@, e)] ELSE Aborted

Addressed(r, e) == {s \in Stream : Listening(s) /\ Home[s] = r /\ Viewer[s] = e.tenant}

\* emitter.emit calls the listeners of the tenant's channel, synchronously.
Emit(r, e) ==
  /\ stream' = [s \in Stream |-> IF s \in Addressed(r, e) THEN Pushed(stream[s], e) ELSE stream[s]]
  /\ heard' = [s \in Stream |-> IF s \in Addressed(r, e) THEN Append(heard[s], e) ELSE heard[s]]

\* The SSE route: two listeners, and the broker subscription on first use.  A
\* rejected subscription is kept and never tried again.
Opens(s) ==
  /\ stream[s].at = "closed"
  /\ stream' = [stream EXCEPT ![s].at = "next"]
  /\ brokerReady' = [brokerReady EXCEPT ![Home[s]] = IF @ = "none" THEN "pending" ELSE @]
  /\ UNCHANGED <<outbox, channel, written, heard, published, busFaults>>

Subscribed(r) ==
  /\ brokerReady[r] = "pending"
  /\ brokerReady' = [brokerReady EXCEPT ![r] = "ready"]
  /\ UNCHANGED <<outbox, channel, stream, written, heard, published, busFaults>>

SubscribeFails(r) ==
  /\ brokerReady[r] = "pending" /\ busFaults < MaxBusFaults
  /\ brokerReady' = [brokerReady EXCEPT ![r] = "rejected"]
  /\ busFaults' = busFaults + 1
  /\ UNCHANGED <<outbox, channel, stream, written, heard, published>>

\* publish: local emission first, then the broker.
Publishes(r, t) ==
  /\ published < MaxEvents
  /\ LET e == [source |-> r, tenant |-> t, n |-> published + 1]
     IN  Emit(r, e) /\ outbox' = [outbox EXCEPT ![r] = Append(@, e)]
  /\ published' = published + 1
  /\ UNCHANGED <<brokerReady, channel, written, busFaults>>

\* Every subscriber gets the message, the publisher too.
BrokerTakes(r) ==
  /\ outbox[r] # <<>>
  /\ outbox' = [outbox EXCEPT ![r] = Tail(@)]
  /\ channel' = [q \in Replica |-> IF brokerReady[q] = "ready" THEN Append(channel[q], Head(outbox[r])) ELSE channel[q]]
  /\ UNCHANGED <<brokerReady, stream, written, heard, published, busFaults>>

\* The publish is refused: logged, for the other replicas the event is lost.
BrokerRefuses(r) ==
  /\ outbox[r] # <<>> /\ busFaults < MaxBusFaults
  /\ outbox' = [outbox EXCEPT ![r] = Tail(@)] /\ busFaults' = busFaults + 1
  /\ UNCHANGED <<brokerReady, channel, stream, written, heard, published>>

\* A subscriber that reconnects misses messages.
MessageLost(r) ==
  /\ channel[r] # <<>> /\ busFaults < MaxBusFaults
  /\ channel' = [channel EXCEPT ![r] = Tail(@)] /\ busFaults' = busFaults + 1
  /\ UNCHANGED <<brokerReady, outbox, stream, written, heard, published>>

Receives(r) ==
  /\ channel[r] # <<>>
  /\ channel' = [channel EXCEPT ![r] = Tail(@)]
  /\ LET e == Head(channel[r])
     IN  IF e.source = r THEN UNCHANGED <<stream, heard>> ELSE Emit(r, e)
  /\ UNCHANGED <<brokerReady, outbox, written, published, busFaults>>

----------------------------------------------------------------------------
(* The loop of the SSE route *)

\* queue.next: the oldest item, or a waiter and its timer.
Nexts(s) ==
  /\ stream[s].at = "next" /\ ~stream[s].waiter
  /\ LET items == stream[s].items
     IN  stream' = IF items = <<>> THEN [stream EXCEPT ![s].at = "awaiting", ![s].waiter = TRUE]
                   ELSE [stream EXCEPT ![s].at = "writing", ![s].hand = <<Head(items)>>, ![s].items = Tail(items)]
  /\ UNCHANGED <<brokerReady, outbox, channel, written, heard, published, busFaults>>

\* Mutant: the timer resolves the promise and leaves the waiter in place.
TimedOutKeepsWaiter(q) == [q EXCEPT !.at = "writing"]

TimedOut(q) == [q EXCEPT !.at = "writing", !.waiter = FALSE]

\* 25 seconds without an event: a ping is written.
TimesOut(s) ==
  /\ stream[s].at = "awaiting"
  /\ stream' = [stream EXCEPT ![s] = TimedOut(@)]
  /\ UNCHANGED <<brokerReady, outbox, channel, written, heard, published, busFaults>>

\* writeSSE returns, however slow the client is.
WriteReturns(s) ==
  /\ stream[s].at = "writing"
  /\ written' = [written EXCEPT ![s] = @ \o stream[s].hand]
  /\ stream' = [stream EXCEPT ![s].at = "next", ![s].hand = <<>>]
  /\ UNCHANGED <<brokerReady, outbox, channel, heard, published, busFaults>>

\* The client goes: both listeners are removed, the queue is closed.
ClientAborts(s) ==
  /\ Listening(s)
  /\ stream' = [stream EXCEPT ![s] = Aborted]
  /\ UNCHANGED <<brokerReady, outbox, channel, written, heard, published, busFaults>>

RealtimeNext ==
  \/ \E s \in Stream : Opens(s) \/ Nexts(s) \/ TimesOut(s) \/ WriteReturns(s) \/ ClientAborts(s)
  \/ \E r \in Replica :
       \/ Subscribed(r) \/ SubscribeFails(r) \/ BrokerTakes(r) \/ BrokerRefuses(r) \/ MessageLost(r) \/ Receives(r)
       \/ \E t \in Tenant : Publishes(r, t)

RealtimeSpec == RealtimeInit /\ [][RealtimeNext]_busVars

----------------------------------------------------------------------------
\* A stream that is not aborted has every event its replica emitted for it since
\* it opened, written, in hand or in its mailbox and in that order, although
\* pushes, timeouts and writes interleave; and no event reaches any client twice
\* or before an earlier one of the same publisher.
StreamFaithful ==
  \A s \in Stream :
    /\ Listening(s) => written[s] \o stream[s].hand \o stream[s].items = heard[s]
    /\ IsPrefix(written[s], heard[s])
    /\ \A i, j \in DOMAIN heard[s] :
         i < j /\ heard[s][i].source = heard[s][j].source => heard[s][i].n < heard[s][j].n
=============================================================================
