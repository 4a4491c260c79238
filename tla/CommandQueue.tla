---------------------------- MODULE CommandQueue ----------------------------
(***************************************************************************)
(* The durable command rows of one device, as the API changes them.  Each  *)
(* operator is one database transaction; PostgreSQL re-checks the WHERE    *)
(* clause of an UPDATE under the row lock, so a transaction is one step.   *)
(***************************************************************************)
EXTENDS Integers, FiniteSets

CONSTANTS
  Cmd,       \* request_location commands of the device
  Expiring   \* those queued with expiresInSeconds

VARIABLES
  row,       \* device_commands.status, "none" before the insert
  lapsed     \* commands whose expiresAt lies in the past

queueVars == <<row, lapsed>>

QueueTypeOK ==
  /\ row \in [Cmd -> {"none", "queued", "sent", "acked", "failed", "expired", "canceled"}]
  /\ lapsed \subseteq Expiring

QueueInit ==
  /\ row = [k \in Cmd |-> "none"]
  /\ lapsed = {}

QueueCommand(k) ==
  /\ row[k] = "none"
  /\ row' = [row EXCEPT ![k] = "queued"]
  /\ UNCHANGED lapsed

\* What POST /devices/:id/commands/pending claims and returns.
Claimable == {k \in Cmd : row[k] = "queued" /\ k \notin lapsed}

\* Mutant: the claim selects the queued rows without marking them.
ClaimWithoutMark ==
  /\ row' = [k \in Cmd |-> IF row[k] = "queued" /\ k \in lapsed THEN "expired" ELSE row[k]]
  /\ UNCHANGED lapsed

ClaimPending ==
  /\ row' = [k \in Cmd |-> IF row[k] # "queued" THEN row[k]
                           ELSE IF k \in lapsed THEN "expired" ELSE "sent"]
  /\ UNCHANGED lapsed

\* POST /devices/commands/:cmdId/ack looks only at the id.
AckCommand(k, status) ==
  /\ row' = [row EXCEPT ![k] = status]
  /\ UNCHANGED lapsed

\* Mutant: cancelling by id, whatever the row's status.
CancelAny(k) ==
  /\ row[k] # "none"
  /\ row' = [row EXCEPT ![k] = "canceled"]
  /\ UNCHANGED lapsed

CancelCommand(k) ==
  /\ row[k] = "queued"
  /\ row' = [row EXCEPT ![k] = "canceled"]
  /\ UNCHANGED lapsed

\* The clock passes the command's expiresAt.
Lapse(k) ==
  /\ row[k] # "none"
  /\ k \in Expiring \ lapsed
  /\ lapsed' = lapsed \cup {k}
  /\ UNCHANGED row
=============================================================================
