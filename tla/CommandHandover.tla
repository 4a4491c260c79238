-------------------------- MODULE CommandHandover ---------------------------
(***************************************************************************)
(* What a customer is promised of the commands for a device, with no       *)
(* sockets, sessions, polls or wake-ups: "Atomic queued -> sent claiming   *)
(* prevents two holders from writing the same command"                     *)
(* (docs/REALTIME_AND_COMMAND_ROUTING.md).  A poll takes all that is       *)
(* queued at once; only who has a command may finish it, once; a command   *)
(* that nobody has is lost, and one that was withdrawn is never taken.     *)
(***************************************************************************)
CONSTANTS Cmd, Inst

VARIABLES
  state,   \* of each command: waiting, out of the queue, or how it ended
  hands    \* the commands each instance has to finish

hvars == <<state, hands>>

Init ==
  /\ state = [k \in Cmd |-> "none"]
  /\ hands = [i \in Inst |-> {}]

Queue(k) ==
  /\ state[k] = "none"
  /\ state' = [state EXCEPT ![k] = "queued"]
  /\ UNCHANGED hands

\* A confirmed cancellation: the command is still in the queue.
Withdraw(k) ==
  /\ state[k] = "queued"
  /\ state' = [state EXCEPT ![k] = "canceled"]
  /\ UNCHANGED hands

Queued == {k \in Cmd : state[k] = "queued"}

\* A poll empties the queue, but for the commands that come too late.
Polled(late) ==
  state' = [k \in Cmd |-> IF k \notin Queued THEN state[k] ELSE IF k \in late THEN "expired" ELSE "out"]

Take(i) ==
  /\ hands[i] = {}
  /\ \E late \in SUBSET Queued : Polled(late) /\ hands' = [hands EXCEPT ![i] = Queued \ late]

\* The answer to a poll reaches nobody.
GoAstray ==
  /\ \E late \in SUBSET Queued : Polled(late)
  /\ UNCHANGED hands

\* A command ends, and its holder goes on with the rest or gives it up.
Finish(i, k) ==
  /\ k \in hands[i]
  /\ \E how \in {"written", "failed"} : state' = [state EXCEPT ![k] = how]
  /\ \E rest \in {{}, hands[i] \ {k}} : hands' = [hands EXCEPT ![i] = rest]

GiveUp(i) ==
  /\ hands[i] # {}
  /\ hands' = [hands EXCEPT ![i] = {}]
  /\ UNCHANGED state

Settle(i) == GiveUp(i) \/ \E k \in Cmd : Finish(i, k)

Next ==
  \/ \E k \in Cmd : Queue(k) \/ Withdraw(k)
  \/ \E i \in Inst : Take(i) \/ Settle(i)
  \/ GoAstray

\* Safety of the promise.
Safety == Init /\ [][Next]_hvars

\* The promise: nobody keeps a command for ever.
Spec == Safety /\ \A i \in Inst : WF_hvars(Settle(i))
=============================================================================
