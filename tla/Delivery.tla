------------------------------ MODULE Delivery ------------------------------
(***************************************************************************)
(* One outbound message on its way to the customer: the job that delivers   *)
(* it part by part, with its retries and stalls; the receipts the platform  *)
(* sends about the thread; the agent who takes the conversation over, hands *)
(* it back, or sends a failed message again.                                *)
(*                                                                          *)
(* A part is what the platform takes in one request: a piece of a long text *)
(* or one of the files of a message that carries several.                   *)
(***************************************************************************)
EXTENDS Naturals

CONSTANTS
  Parts,           \* how many parts the message has
  Channel,         \* "line" dedupes a push by its retry key, "messenger" does not
  ReplyToken,      \* TRUE if the conversation holds a LINE reply token at first
  MaxAttempts,     \* BullMQ's attempts for a job (3 in the code)
  MaxStalledCount, \* stalls BullMQ forgives a job (1, its default)
  MaxStalls,       \* bound: how often the worker may stall on one job
  Zombies,         \* TRUE if a run may go on after its job was taken from it
  LateHook,        \* TRUE if an agent may be quicker than the worker's hook
  MaxResends       \* bound: how often an agent sends the message again

ASSUME DeliveryAssumption ==
  /\ Parts \in Nat \ {0}
  /\ Channel \in {"line", "messenger"}
  /\ ReplyToken \in BOOLEAN
  /\ ReplyToken => Channel = "line"
  /\ MaxAttempts \in Nat \ {0}
  /\ MaxStalledCount \in Nat
  /\ MaxStalls \in Nat
  /\ Zombies \in BOOLEAN
  /\ LateHook \in BOOLEAN
  /\ MaxResends \in Nat

Jobs == 0..MaxResends                    \* the first delivery, then each resend
Runs == 1..(MaxAttempts + MaxStalls)

VARIABLES
  status,     \* the message's row: its status ...
  sentParts,  \* ... and its checkpoint
  aiOwns,     \* may the AI send in this conversation?
  token,      \* is the reply token still there to be claimed?
  job,        \* per job: what the queue knows of it
  run,        \* per job and run: where it stands, and what it has read
  taken,      \* per part: how often the customer has received it
  keyed       \* the parts whose retry key LINE has accepted

rowVars == <<status, sentParts>>
platformVars == <<taken, keyed>>
vars == <<status, sentParts, aiOwns, token, job, run, taken, keyed>>

Idle == [at |-> "idle", next |-> 1, final |-> FALSE, token |-> FALSE]
Over == [Idle EXCEPT !.at = "over"]

Init ==
  /\ status = "queued"
  /\ sentParts = 0
  /\ aiOwns = TRUE
  /\ token = ReplyToken
  /\ job = [j \in Jobs |-> [state |-> IF j = 0 THEN "waiting" ELSE "none",
                            runs |-> 0, failed |-> 0, stalled |-> 0]]
  /\ run = [j \in Jobs |-> [r \in Runs |-> Idle]]
  /\ taken = [p \in 1..Parts |-> 0]
  /\ keyed = {}

-----------------------------------------------------------------------------
(* The queue. *)

InTry   == {"send", "record", "mark"}
Outside == {"load", "gate", "withhold", "token", "failing", "uncertain"}
Going   == InTry \cup Outside

IsCurrent(j, r) == job[j].state = "active" /\ job[j].runs = r

(* `finalAttempt` is decided when the run starts. *)
StartRun(j) ==
  /\ job[j].state = "waiting"
  /\ job[j].runs + 1 \in Runs
  /\ job' = [job EXCEPT ![j].state = "active", ![j].runs = @ + 1]
  /\ run' = [run EXCEPT ![j][job[j].runs + 1] =
               [Idle EXCEPT !.at = "load", !.final = job[j].failed + 1 >= MaxAttempts]]
  /\ UNCHANGED <<rowVars, aiOwns, token, platformVars>>

Goto(j, r, from, to) ==
  /\ run[j][r].at = from
  /\ run' = [run EXCEPT ![j][r].at = to]
  /\ UNCHANGED job

Finish(j, r, from) ==
  /\ run[j][r].at = from
  /\ run' = [run EXCEPT ![j][r] = Over]
  /\ job' = IF IsCurrent(j, r) THEN [job EXCEPT ![j].state = "completed"] ELSE job

(* The run throws; the queue retries the job until it has used its attempts. *)
Fail(j, r, from) ==
  LET failed == job[j].failed + 1
  IN  /\ run[j][r].at = from
      /\ run' = [run EXCEPT ![j][r] = Over]
      /\ \/ /\ ~IsCurrent(j, r)
            /\ UNCHANGED job
         \/ /\ IsCurrent(j, r) /\ failed < MaxAttempts
            /\ job' = [job EXCEPT ![j].state = "waiting", ![j].failed = failed]
         \/ /\ IsCurrent(j, r) /\ failed >= MaxAttempts
            /\ job' = [job EXCEPT ![j].state = "failed", ![j].failed = failed]

(* A throw before the send, or while its outcome is being recorded. *)
Throw(j, r) ==
  /\ \E from \in Outside : Fail(j, r, from)
  /\ UNCHANGED <<rowVars, aiOwns, token, platformVars>>

(* A slip: a job that stalled out has attempts left, so it is not terminal. *)
StallOutUnnoticed(j, after) ==
  /\ job' = [job EXCEPT ![j].state = "settled"]
  /\ run' = after

(* Failed for good, without a run and without an attempt. *)
StallOut(j, after) ==
  /\ job' = [job EXCEPT ![j].state = "failed"]
  /\ run' = after

(* The worker stops renewing the job's lock. *)
Stall(j) ==
  LET dead == [run EXCEPT ![j][job[j].runs] = Over]
      stalled == job[j].stalled + 1
  IN  /\ job[j].state = "active"
      /\ job[j].stalled < MaxStalls
      /\ \E after \in IF Zombies THEN {run, dead} ELSE {dead} :
           IF stalled > MaxStalledCount
             THEN StallOut(j, after)
             ELSE /\ run' = after
                  /\ job' = [job EXCEPT ![j].state = "waiting", ![j].stalled = stalled]
      /\ UNCHANGED <<rowVars, aiOwns, token, platformVars>>

(* markDeliveryFailed, which the worker runs for a job that failed for good. *)
MarkDeliveryFailed(j) ==
  /\ job[j].state = "failed"
  /\ job' = [job EXCEPT ![j].state = "settled"]
  /\ status' = IF status = "queued" THEN "failed" ELSE status
  /\ UNCHANGED <<sentParts, aiOwns, token, run, platformVars>>

-----------------------------------------------------------------------------
(* One run of the delivery. *)

(* Sent already, withdrawn, or possibly delivered: not this job's to send.  *)
Load(j, r) ==
  /\ \/ /\ status \notin {"queued", "failed"}
        /\ Finish(j, r, "load")
     \/ /\ status \in {"queued", "failed"}
        /\ run[j][r].at = "load"
        /\ run' = [run EXCEPT ![j][r].at = "gate", ![j][r].next = sentParts + 1]
        /\ UNCHANGED job
  /\ UNCHANGED <<rowVars, aiOwns, token, platformVars>>

(* An AI reply a human has since overtaken is not delivered. *)
Gate(j, r) ==
  /\ Goto(j, r, "gate", IF aiOwns THEN "token" ELSE "withhold")
  /\ UNCHANGED <<rowVars, aiOwns, token, platformVars>>

Withhold(j, r) ==
  /\ Finish(j, r, "withhold")
  /\ status' = "canceled"
  /\ UNCHANGED <<sentParts, aiOwns, token, platformVars>>

(* Claimed before the attempt, by one job only; it may have expired. *)
ClaimToken(j, r) ==
  /\ run[j][r].at = "token"
  /\ \E claims \in IF token THEN BOOLEAN ELSE {FALSE} :
       /\ token' = (token /\ ~claims)
       /\ run' = [run EXCEPT ![j][r].token = claims,
                             ![j][r].at = IF run[j][r].next > Parts THEN "mark" ELSE "send"]
  /\ UNCHANGED <<job, rowVars, aiOwns, platformVars>>

(* The customer receives the part, or LINE recognises its key. *)
Take(p, key) ==
  /\ taken' = IF key /\ p \in keyed THEN taken ELSE [taken EXCEPT ![p] = @ + 1]
  /\ keyed' = IF key THEN keyed \cup {p} ELSE keyed

(* A reply by token, for the first part: it carries no retry key.  A token  *)
(* LINE refuses is given up for a push.                                     *)
Reply(j, r) ==
  /\ run[j][r].next = 1 /\ run[j][r].token
  /\ \/ Goto(j, r, "send", "record") /\ Take(1, FALSE)
     \/ Goto(j, r, "send", "failing") /\ (Take(1, FALSE) \/ UNCHANGED platformVars)
     \/ /\ run[j][r].at = "send"
        /\ run' = [run EXCEPT ![j][r].token = FALSE]
        /\ UNCHANGED <<job, platformVars>>

(* A slip: a retry key of the run's own. *)
PushAfresh(j, r) ==
  /\ ~(run[j][r].next = 1 /\ run[j][r].token)
  /\ \/ Goto(j, r, "send", "record") /\ Take(run[j][r].next, FALSE)
     \/ /\ Goto(j, r, "send", "failing")
        /\ Take(run[j][r].next, FALSE) \/ UNCHANGED platformVars

(* A push to LINE: accepted, accepted with its answer lost, or refused.     *)
Push(j, r) ==
  /\ ~(run[j][r].next = 1 /\ run[j][r].token)
  /\ \/ Goto(j, r, "send", "record") /\ Take(run[j][r].next, TRUE)
     \/ /\ Goto(j, r, "send", "failing")
        /\ Take(run[j][r].next, TRUE) \/ UNCHANGED platformVars

(* A request to Messenger: no answer at all is uncertain; a refusal, or an  *)
(* answer that cannot be read, is a plain error.                            *)
Request(j, r) ==
  \/ Goto(j, r, "send", "record") /\ Take(run[j][r].next, FALSE)
  \/ /\ Goto(j, r, "send", "uncertain") \/ Goto(j, r, "send", "failing")
     /\ Take(run[j][r].next, FALSE) \/ UNCHANGED platformVars

Send(j, r) ==
  /\ IF Channel = "line" THEN Reply(j, r) \/ Push(j, r) ELSE Request(j, r)
  /\ UNCHANGED <<rowVars, aiOwns, token>>

(* A slip: the checkpoint is written for the part about to be sent as well. *)
RecordUnitEarly(j, r) ==
  LET p == run[j][r].next
  IN  /\ run[j][r].at = "record"
      /\ run' = [run EXCEPT ![j][r].at = IF p = Parts THEN "mark" ELSE "send", ![j][r].next = p + 1]
      /\ sentParts' = IF p = Parts THEN p ELSE p + 1
      /\ UNCHANGED <<job, status, aiOwns, token, platformVars>>

(* Each part is checkpointed as the platform takes it. *)
RecordUnit(j, r) ==
  LET p == run[j][r].next
  IN  /\ run[j][r].at = "record"
      /\ run' = [run EXCEPT ![j][r].at = IF p = Parts THEN "mark" ELSE "send", ![j][r].next = p + 1]
      /\ sentParts' = p
      /\ UNCHANGED <<job, status, aiOwns, token, platformVars>>

MarkSent(j, r) ==
  /\ Finish(j, r, "mark")
  /\ status' = "sent"
  /\ UNCHANGED <<sentParts, aiOwns, token, platformVars>>

(* A write inside the `try` fails: it is caught like a failed send. *)
WriteFails(j, r) ==
  /\ Goto(j, r, "record", "failing") \/ Goto(j, r, "mark", "failing")
  /\ UNCHANGED <<rowVars, aiOwns, token, platformVars>>

(* A slip: every failure is recorded as the last. *)
RecordEveryFailure(j, r) ==
  /\ Fail(j, r, "failing")
  /\ status' = "failed"
  /\ UNCHANGED <<sentParts, aiOwns, token, platformVars>>

(* `failed` on the last attempt only; until then it stays `queued`. *)
RecordFailure(j, r) ==
  /\ Fail(j, r, "failing")
  /\ status' = IF run[j][r].final THEN "failed" ELSE "queued"
  /\ UNCHANGED <<sentParts, aiOwns, token, platformVars>>

(* Possibly delivered: recorded for a person to judge, and not retried. *)
RecordUncertain(j, r) ==
  /\ Finish(j, r, "uncertain")
  /\ status' = "uncertain"
  /\ UNCHANGED <<sentParts, aiOwns, token, platformVars>>

Run(j, r) ==
  \/ Load(j, r) \/ Gate(j, r) \/ Withhold(j, r) \/ ClaimToken(j, r)
  \/ Send(j, r) \/ RecordUnit(j, r) \/ MarkSent(j, r)
  \/ RecordFailure(j, r) \/ RecordUncertain(j, r)

-----------------------------------------------------------------------------
(* Everybody else. *)

(* An agent asks for it to be sent again.  Who owns the conversation is     *)
(* read first; requests are numbered as they come.                          *)
AskToResend(j) ==
  /\ job[j].state = "none"
  /\ \A i \in Jobs : i < j => job[i].state # "none"
  /\ aiOwns
  /\ job' = [job EXCEPT ![j].state = "asked"]
  /\ UNCHANGED <<rowVars, aiOwns, token, run, platformVars>>

(* Usually the hook of a failed job has run, milliseconds after it, before  *)
(* anybody sends the message again.                                         *)
HookHasRun == LateHook \/ \A i \in Jobs : job[i].state # "failed"

Resends(j, sendable) ==
  /\ job[j].state = "asked"
  /\ HookHasRun
  /\ status' = IF status \in sendable THEN "queued" ELSE status
  /\ job' = [job EXCEPT ![j].state = IF status \in sendable THEN "waiting" ELSE "refused"]
  /\ UNCHANGED <<sentParts, aiOwns, token, run, platformVars>>

(* A slip: whatever has not arrived is offered again. *)
ResendUndelivered(j) == Resends(j, {"failed", "uncertain", "canceled"})

(* A slip: the second of two clicks finds the message queued, and goes on. *)
ResendTwice(j) == Resends(j, {"failed", "queued"})

(* The row is locked, moved back to queued, and given a job of its own: of  *)
(* two clicks, one.                                                         *)
Resend(j) == Resends(j, {"failed"})

Weaker(receipt) ==
  IF receipt = "read" THEN {"queued", "sent", "delivered"} ELSE {"queued", "sent"}

(* Messenger's watermark covers every message of the thread written before  *)
(* it, this one among them, whichever message it was prompted by.           *)
Receipt ==
  /\ Channel = "messenger"
  /\ \E receipt \in {"delivered", "read"} :
       /\ status \in Weaker(receipt)
       /\ status' = receipt
  /\ UNCHANGED <<sentParts, aiOwns, token, job, run, platformVars>>

(* A colleague takes the conversation over, or gives it back. *)
OwnershipChanges ==
  /\ aiOwns' = ~aiOwns
  /\ UNCHANGED <<rowVars, token, job, run, platformVars>>

-----------------------------------------------------------------------------

Next ==
  \/ \E j \in Jobs :
       \/ StartRun(j) \/ Stall(j) \/ MarkDeliveryFailed(j) \/ (j # 0 /\ (AskToResend(j) \/ Resend(j)))
       \/ \E r \in Runs : Run(j, r) \/ Throw(j, r) \/ WriteFails(j, r)
  \/ Receipt \/ OwnershipChanges

Spec == Init /\ [][Next]_vars

(* The worker takes its jobs, its runs take their steps, and its hook runs. *)
FairSpec ==
  /\ Spec
  /\ \A j \in Jobs : /\ WF_vars(StartRun(j)) /\ WF_vars(MarkDeliveryFailed(j))
                    /\ \A r \in Runs : WF_vars(Run(j, r))

-----------------------------------------------------------------------------

TypeOK ==
  /\ status \in {"queued", "sent", "delivered", "read", "failed", "canceled", "uncertain"}
  /\ sentParts \in 0..Parts
  /\ aiOwns \in BOOLEAN
  /\ token \in BOOLEAN
  /\ job \in [Jobs -> [state : {"none", "asked", "refused", "waiting", "active", "completed", "failed", "settled"},
                       runs : 0..(MaxAttempts + MaxStalls), failed : Nat, stalled : Nat]]
  /\ run \in [Jobs -> [Runs -> [at : {"idle", "over"} \cup Going, next : 1..(Parts + 1),
                                final : BOOLEAN, token : BOOLEAN]]]
  /\ taken \in [1..Parts -> Nat]
  /\ keyed \subseteq 1..Parts

(* docs/REQUIREMENTS.md:44: a reply counts once the platform took it.  What *)
(* the delivery itself marks as sent has reached the customer, every part   *)
(* of it, through whatever attempts, stalls and resends it took; and what   *)
(* the checkpoint lets a retry skip has been received.                      *)
SentIsReceived ==
  /\ status = "sent" => \A p \in 1..Parts : taken[p] >= 1
  /\ \A p \in 1..sentParts : taken[p] >= 1

(* Every retry of a part carries the same key, so LINE delivers it once:    *)
(* whatever stalls, crashes in between, or is sent again by hand.           *)
LineDeliversOnce == Channel = "line" => \A p \in 1..Parts : taken[p] <= 1

(* outbound.ts:258-260: `failed` means nothing will try again by itself,    *)
(* which is what lets a person send it again without racing a retry.        *)
FailedIsFinal ==
  status = "failed" =>
    \A j \in Jobs : /\ job[j].state \notin {"waiting", "active"}
                    /\ \A r \in Runs : run[j][r].at \notin Going

(* conversations.ts:806-810: a resend never races an automatic retry, and a *)
(* double click is one resend: one job at a time has the message to send.   *)
OneDeliveryAtATime ==
  \A i, j \in Jobs :
    job[i].state \in {"waiting", "active"} /\ job[j].state \in {"waiting", "active"} => i = j

(* A message withheld on purpose, or possibly delivered already, is closed: *)
(* nothing more of it is sent and nobody reopens it.                        *)
ClosedForGood ==
  [][(status \in {"canceled", "uncertain"}) => UNCHANGED <<status, taken>>]_vars

(* No message is left queued: it is sent, closed or offered to a person.    *)
NobodyWaitsForEver == status = "queued" ~> status # "queued"

-----------------------------------------------------------------------------
(* What the repository says of a delivery and it does not do. *)

(* docs/REQUIREMENTS.md:44: "only once the platform took it (`sent`,        *)
(* `delivered`, `read`)".                                                   *)
OnlyTakenRepliesCount ==
  status \in {"sent", "delivered", "read"} => \A p \in 1..Parts : taken[p] >= 1
=============================================================================
