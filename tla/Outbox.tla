------------------------------- MODULE Outbox -------------------------------
(***************************************************************************)
(* The transactional outbox and the relays that drain it into the queue.    *)
(* Work is asked for, and taken back, by a row committed with the change    *)
(* that made it necessary; each worker replica runs a relay that claims     *)
(* pending rows under lock, hands them to BullMQ one by one, and marks in   *)
(* its transaction the ones that arrived.  Redis may fail a call, and a     *)
(* relay may die with its transaction after some of its rows were handed.   *)
(*                                                                          *)
(* The queue holds a job until it has finished and for an hour after; no    *)
(* behaviour here is longer than that hour.                                 *)
(***************************************************************************)
EXTENDS Naturals, Sequences, FiniteSets

CONSTANTS
  Jobs,         \* job ids
  Timers,       \* those that are also taken back: the waiting-human timers
  Transient,    \* those queued with removeOnComplete: true: the summaries
  Relays,       \* one per worker replica
  Batch,        \* rows claimed in a pass (100 in the code)
  MaxRows,      \* bound: rows ever written
  MaxErrors,    \* bound: calls to Redis that fail a row
  MaxSwallowed, \* bound: failures of job.remove(), which fail no row
  MaxCrashes    \* bound: passes that die before they commit

ASSUME OutboxAssumption ==
  /\ Timers \subseteq Jobs
  /\ Transient \subseteq Jobs \ Timers
  /\ Batch \in Nat \ {0}
  /\ MaxRows \in Nat
  /\ MaxErrors \in Nat
  /\ MaxSwallowed \in Nat
  /\ MaxCrashes \in Nat

VARIABLES
  rows,    \* the table, in the order the relay reads it
  relay,   \* per relay: the rows its pass has locked, tried and marked so far
  queue,   \* per job: what BullMQ holds under its id
  born,    \* per job: how often it has come into being
  maker,   \* per job: the row that last made it; 0 once taken back
  faults   \* what has gone wrong so far, for the bounds

vars == <<rows, relay, queue, born, maker, faults>>
queueVars == <<queue, born, maker>>

NoPass == [held |-> {}, tried |-> {}, marked |-> {}]

Init ==
  /\ rows = <<>>
  /\ relay = [r \in Relays |-> NoPass]
  /\ queue = [j \in Jobs |-> "absent"]
  /\ born = [j \in Jobs |-> 0]
  /\ maker = [j \in Jobs |-> 0]
  /\ faults = [errors |-> 0, swallowed |-> 0, crashes |-> 0]

Row(op, j) == [op |-> op, job |-> j, state |-> "pending"]

-----------------------------------------------------------------------------
(* The writers. *)

Enqueue(j) ==
  /\ Len(rows) < MaxRows
  /\ rows' = Append(rows, Row("add", j))
  /\ UNCHANGED <<relay, queueVars, faults>>

Locked(k) == \E r \in Relays : k \in relay[r].held

PendingAdd(j, k) == rows[k].op = "add" /\ rows[k].job = j /\ rows[k].state = "pending"

(* A slip: only the half for the job that was already handed over. *)
CancelRelayedOnly(j) ==
  /\ Len(rows) < MaxRows
  /\ rows' = Append(rows, Row("remove", j))
  /\ UNCHANGED <<relay, queueVars, faults>>

(* Both halves, as one transaction: the job may be on either side of the    *)
(* relay.  The update waits for a pass that holds one of the rows.          *)
Cancel(j) ==
  /\ Len(rows) < MaxRows
  /\ \A k \in DOMAIN rows : PendingAdd(j, k) => ~Locked(k)
  /\ rows' = Append([k \in DOMAIN rows |->
                       IF PendingAdd(j, k) THEN [rows[k] EXCEPT !.state = "cancelled"] ELSE rows[k]],
                    Row("remove", j))
  /\ UNCHANGED <<relay, queueVars, faults>>

-----------------------------------------------------------------------------
(* One pass of a relay. *)

Claimable == {k \in DOMAIN rows : rows[k].state = "pending" /\ ~Locked(k)}

(* A slip: no SKIP LOCKED, and no lock either. *)
ClaimUnlocked(r) ==
  LET pending == {k \in DOMAIN rows : rows[k].state = "pending"}
  IN  /\ relay[r] = NoPass
      /\ pending # {}
      /\ relay' = [relay EXCEPT ![r].held =
                     {k \in pending : Cardinality({m \in pending : m < k}) < Batch}]
      /\ UNCHANGED <<rows, queueVars, faults>>

(* A slip: the rows are marked as they are claimed, before the queue has them. *)
ClaimAndMark(r) ==
  LET claimed == {k \in Claimable : Cardinality({m \in Claimable : m < k}) < Batch}
  IN  /\ relay[r] = NoPass
      /\ Claimable # {}
      /\ relay' = [relay EXCEPT ![r].held = claimed]
      /\ rows' = [k \in DOMAIN rows |->
                    IF k \in claimed THEN [rows[k] EXCEPT !.state = "relayed"] ELSE rows[k]]
      /\ UNCHANGED <<queueVars, faults>>

(* The oldest pending rows, FOR UPDATE SKIP LOCKED. *)
Claim(r) ==
  /\ relay[r] = NoPass
  /\ Claimable # {}
  /\ relay' = [relay EXCEPT ![r].held =
                 {k \in Claimable : Cardinality({m \in Claimable : m < k}) < Batch}]
  /\ UNCHANGED <<rows, queueVars, faults>>

(* The row the pass comes to next. *)
IsNext(r, k) ==
  /\ k \in relay[r].held \ relay[r].tried
  /\ \A m \in relay[r].held \ relay[r].tried : k <= m

Arrived(r, k) ==
  relay' = [relay EXCEPT ![r].tried = @ \cup {k}, ![r].marked = @ \cup {k}]

(* queue.add: BullMQ ignores an id it already holds. *)
AddJob(k) ==
  LET j == rows[k].job
  IN  \/ /\ queue[j] = "absent"
         /\ queue' = [queue EXCEPT ![j] = "waiting"]
         /\ born' = [born EXCEPT ![j] = @ + 1]
         /\ maker' = [maker EXCEPT ![j] = k]
      \/ /\ queue[j] # "absent"
         /\ UNCHANGED queueVars

HandAdd(r) ==
  \E k \in DOMAIN rows :
    /\ IsNext(r, k)
    /\ rows[k].op = "add"
    /\ AddJob(k)
    /\ Arrived(r, k)
    /\ UNCHANGED <<rows, faults>>

(* job.remove(): a job that is running cannot be removed, and that is not   *)
(* told apart from one that is gone.                                        *)
RemoveJob(k) ==
  LET j == rows[k].job
  IN  \/ /\ queue[j] \in {"waiting", "retrying", "held"}
         /\ queue' = [queue EXCEPT ![j] = "absent"]
         /\ maker' = [maker EXCEPT ![j] = 0]
         /\ UNCHANGED born
      \/ /\ queue[j] \in {"absent", "active"}
         /\ UNCHANGED queueVars

HandRemove(r) ==
  \E k \in DOMAIN rows :
    /\ IsNext(r, k)
    /\ rows[k].op = "remove"
    /\ RemoveJob(k)
    /\ Arrived(r, k)
    /\ UNCHANGED <<rows, faults>>

(* Whatever remove() throws is swallowed, a failure of Redis included: the  *)
(* row is marked and the job is still there.                                *)
SwallowRemove(r) ==
  \E k \in DOMAIN rows :
    /\ IsNext(r, k)
    /\ rows[k].op = "remove"
    /\ queue[rows[k].job] # "absent"
    /\ faults.swallowed < MaxSwallowed
    /\ faults' = [faults EXCEPT !.swallowed = @ + 1]
    /\ Arrived(r, k)
    /\ UNCHANGED <<rows, queueVars>>

(* queue.add or queue.getJob fails: the row stays pending, whether or not   *)
(* an add took effect before its answer was lost.                           *)
RowFails(r) ==
  \E k \in DOMAIN rows :
    /\ IsNext(r, k)
    /\ faults.errors < MaxErrors
    /\ faults' = [faults EXCEPT !.errors = @ + 1]
    /\ \/ UNCHANGED queueVars
       \/ rows[k].op = "add" /\ AddJob(k)
    /\ relay' = [relay EXCEPT ![r].tried = @ \cup {k}]
    /\ UNCHANGED rows

Hand(r) == HandAdd(r) \/ HandRemove(r)

CommitPass(r) ==
  /\ relay[r].held # {}
  /\ relay[r].tried = relay[r].held
  /\ rows' = [k \in DOMAIN rows |->
                IF k \in relay[r].marked THEN [rows[k] EXCEPT !.state = "relayed"] ELSE rows[k]]
  /\ relay' = [relay EXCEPT ![r] = NoPass]
  /\ UNCHANGED <<queueVars, faults>>

(* The relay dies, or its transaction does: what it marked is forgotten,    *)
(* what it handed over is not.                                              *)
Crash(r) ==
  /\ relay[r].held # {}
  /\ faults.crashes < MaxCrashes
  /\ faults' = [faults EXCEPT !.crashes = @ + 1]
  /\ relay' = [relay EXCEPT ![r] = NoPass]
  /\ UNCHANGED <<rows, queueVars>>

-----------------------------------------------------------------------------
(* The queue's own steps. *)

QueueStep(j, from, to) ==
  /\ queue[j] \in from
  /\ queue' = [queue EXCEPT ![j] = to]
  /\ UNCHANGED <<rows, relay, born, maker, faults>>

StartJob(j)  == QueueStep(j, {"waiting", "retrying"}, "active")
FinishJob(j) == QueueStep(j, {"active"}, IF j \in Transient THEN "absent" ELSE "held")
RetryJob(j)  == QueueStep(j, {"active"}, "retrying")

-----------------------------------------------------------------------------

Pass(r) == Claim(r) \/ Hand(r) \/ CommitPass(r)

Next ==
  \/ \E j \in Jobs : Enqueue(j)
  \/ \E j \in Timers : Cancel(j)
  \/ \E r \in Relays : Pass(r) \/ SwallowRemove(r) \/ RowFails(r) \/ Crash(r)
  \/ \E j \in Jobs : StartJob(j) \/ FinishJob(j) \/ RetryJob(j)

Spec == Init /\ [][Next]_vars

(* Every worker sweeps the table once a second, notified or not. *)
FairSpec == Spec /\ \A r \in Relays : WF_vars(Claim(r)) /\ WF_vars(Hand(r)) /\ WF_vars(CommitPass(r))

-----------------------------------------------------------------------------

TypeOK ==
  /\ rows \in Seq([op : {"add", "remove"}, job : Jobs, state : {"pending", "relayed", "cancelled"}])
  /\ relay \in [Relays -> [held : SUBSET (1..Len(rows)), tried : SUBSET (1..Len(rows)),
                           marked : SUBSET (1..Len(rows))]]
  /\ queue \in [Jobs -> {"absent", "waiting", "active", "retrying", "held"}]
  /\ born \in [Jobs -> Nat]
  /\ maker \in [Jobs -> Nat]
  /\ faults \in [errors : Nat, swallowed : Nat, crashes : Nat]

(* Two replicas never hold the same row, and what a pass holds is pending:  *)
(* nobody cancels a row while it is being handed over.                      *)
RowsAreHeldOnce ==
  /\ \A r, s \in Relays : r # s => relay[r].held \cap relay[s].held = {}
  /\ \A r \in Relays : \A k \in relay[r].held : rows[k].state = "pending"

(* ADR 0006: at-least-once delivery of the intent, exactly-once creation of *)
(* the job.  Holds of the jobs that keep their id for as long as it matters *)
(* and are not taken back: turns, suggestions, deliveries, pushes.          *)
Kept == Jobs \ (Timers \cup Transient)

Abstract == INSTANCE Promises WITH
  Jobs    <- Kept,
  asked   <- {j \in Kept : \E k \in DOMAIN rows : rows[k].job = j},
  created <- [j \in Kept |-> born[j]]

PromisesAreKept == Abstract!Spec

RowsOf(j) == {k \in DOMAIN rows : rows[k].job = j}
Settled(j) == \A k \in RowsOf(j) : rows[k].state # "pending"
LastOf(j, op) ==
  {k \in RowsOf(j) : rows[k].op = op /\ \A m \in RowsOf(j) : m <= k}

(* effect-ports.ts:253-254: "Cancelling is a promise like any other".  A     *)
(* timer whose last word was a cancellation, all of it relayed, has not     *)
(* been left to start: it is gone, or it had started by then.  Unless Redis *)
(* failed the removal itself, which the relay does not notice.              *)
CancelledNeverStarts ==
  faults.swallowed = 0 =>
    \A j \in Timers : Settled(j) /\ LastOf(j, "remove") # {} => queue[j] # "waiting"

-----------------------------------------------------------------------------
(* What the repository says of the outbox and it does not do. *)

(* outbox.ts:153-154: a job that could not be removed because it was        *)
(* running "is not a problem to solve here": a timer asked for after the    *)
(* last cancellation is made all the same.                                  *)
LaterAskIsKept ==
  \A j \in Timers : Settled(j) /\ LastOf(j, "add") # {} =>
    \A k \in RowsOf(j) : rows[k].op = "remove" => maker[j] > k
=============================================================================
