-------------------------------- MODULE Turns --------------------------------
(***************************************************************************)
(* One conversation, everybody who writes to it at once: the inbound job of *)
(* each customer message, the AI turn each message asks for (with retries, *)
(* stalls and the hook that runs when a job has failed for good), the       *)
(* delivery job that may still withhold a reply, the agents using the       *)
(* console, and the sweep that closes quiet conversations.                  *)
(*                                                                          *)
(* A step is what the code does between two points where another process    *)
(* can be seen: one read, or one write, or one transaction.  The outbox and *)
(* the queue are abstracted to "a job promised in a transaction can start"; *)
(* the module Outbox is about that promise.                                 *)
(***************************************************************************)
EXTENDS Conversation, Naturals

CONSTANTS
  Events,          \* the customer's messages, as webhook events of the channel
  MediaEvents,     \* those that carry media the AI cannot interpret
  Now,             \* the instant of an agent's request
  Agent,           \* the agent at the console
  DefaultMode,     \* the mode a conversation begins in, and begins again in
  Requests,        \* how many requests the agents make, as a set
  Operations,      \* what they may ask for
  Answers,         \* what the model may come back with
  MaxAttempts,     \* BullMQ's attempts for a job (3 in the code)
  MaxStalledCount, \* stalls BullMQ forgives a job (1, its default)
  MaxStalls,       \* bound: how often the worker may stall on one turn
  MaxRedeliveries  \* bound: how often one inbound job may be run again

ASSUME TurnsAssumption ==
  /\ Instants = Events \cup {Now}
  /\ MediaEvents \subseteq Events
  /\ Agent \in Users
  /\ DefaultMode \in Modes \ {"waiting_human"}
  /\ MaxAttempts \in Nat \ {0}
  /\ MaxStalledCount \in Nat
  /\ MaxStalls \in Nat
  /\ MaxRedeliveries \in Nat
  /\ Operations \subseteq [kind : {"take_over", "return_to_ai", "message", "assign"}, to : {"-"}]
                     \cup [kind : {"set_mode"}, to : Modes]
                     \cup [kind : {"set_status"}, to : Statuses]
  /\ Answers \subseteq {"reply", "reply+writes", "reply+link", "handoff", "empty", "empty+writes"}

(* The runs of one turn's job, in the order they start; run 0 is the hook   *)
(* the worker runs when the job has failed for good.                        *)
Runs == 0..(MaxAttempts + MaxStalls)
Hook == 0

VARIABLES
  conv,        \* the conversation's row
  lastBy,      \* who wrote the newest message of the thread
  inbound,     \* per event: how far its job has come, and how often it began again
  id,          \* per event: the id of the stored message, in commit order; 0 if none
  lastId,      \* the newest such id
  owed,        \* per event: the AI turn promised for it, and how it delivers
  suggested,   \* the events a suggestion job was promised for
  acks,        \* the holding messages, by the message that prompted the handoff
  job,         \* per event: the AI turn's job
  pc,          \* per event and run: where the run stands
  answer,      \* per event and run: what the model came back with
  wrote,       \* the turns whose writes reached the tenant's system
  replies,     \* the AI's stored replies, with the run that wrote each
  delivery,    \* per event: how far the reply's delivery has come
  ending,      \* per event: how the runs of its turn have ended
  req          \* per request of an agent: where it stands

convVars == <<conv, lastBy>>
mailVars == <<inbound, id, lastId, owed, suggested>>
turnVars == <<job, pc, answer, ending>>
vars == <<conv, lastBy, inbound, id, lastId, owed, suggested, acks, job, pc, answer,
          wrote, replies, delivery, ending, req>>

NoAnswer == "-"

Init ==
  /\ conv = NewConversation(DefaultMode, NoUser)
  /\ lastBy = "nobody"
  /\ inbound = [e \in Events |-> [at |-> "received", again |-> 0]]
  /\ id = [e \in Events |-> 0]
  /\ lastId = 0
  /\ owed = [e \in Events |-> "none"]
  /\ suggested = {}
  /\ acks = {}
  /\ job = [e \in Events |-> [state |-> "none", runs |-> 0, failed |-> 0, stalled |-> 0]]
  /\ pc = [e \in Events |-> [r \in Runs |-> "idle"]]
  /\ answer = [e \in Events |-> [r \in Runs |-> NoAnswer]]
  /\ wrote = {}
  /\ replies = {}
  /\ delivery = [e \in Events |-> "none"]
  /\ ending = [e \in Events |-> {}]
  /\ req = [q \in Requests |-> [at |-> "idle", patch |-> NoPatch]]

-----------------------------------------------------------------------------
(* The inbound job of an event. *)

InboundAt(e, from, to) ==
  /\ inbound[e].at = from
  /\ inbound' = [inbound EXCEPT ![e].at = to]

(* resolveConversation, a transaction of its own: a resolved conversation   *)
(* is reopened before the message is stored.                                *)
Resolve(e) ==
  /\ InboundAt(e, "received", "resolved")
  /\ \E owner \in {NoUser, Agent} : conv' = Reopened(conv, DefaultMode, owner)
  /\ UNCHANGED <<lastBy, id, lastId, owed, suggested, acks, turnVars, wrote, replies, delivery, req>>

Asks(effects, effect) == \E k \in DOMAIN effects : effects[k] = effect

(* A redelivered event whose message is already in the thread: what it owed *)
(* was promised by the transaction that stored it.                          *)
StoreDuplicate(e) ==
  /\ InboundAt(e, "resolved", "stored")
  /\ id[e] # 0
  /\ UNCHANGED <<conv, lastBy, id, lastId, owed, suggested, acks, turnVars, wrote, replies,
                 delivery, req>>

(* A slip: what the message owes is promised after the commit that stores   *)
(* it, so a job that dies in between has nothing left to promise.           *)
StoreNewThenPromise(e) ==
  LET result  == CustomerMessage(conv, e, e \in MediaEvents)
      deliver == IF Asks(result.effects, "run_ai_turn:send") THEN "send" ELSE "none"
  IN  /\ InboundAt(e, "resolved", "stored")
      /\ id[e] = 0
      /\ id' = [id EXCEPT ![e] = lastId + 1]
      /\ lastId' = lastId + 1
      /\ \E survived \in BOOLEAN :
           /\ owed' = IF survived THEN [owed EXCEPT ![e] = deliver] ELSE owed
           /\ job' = IF survived /\ deliver = "send"
                       THEN [job EXCEPT ![e].state = "waiting"] ELSE job
      /\ lastBy' = "customer"
      /\ UNCHANGED <<conv, suggested, acks, pc, answer, ending, wrote, replies, delivery, req>>

(* One customer event, one commit: the message takes the next id under the  *)
(* conversation's lock, moves the conversation, and promises its work.      *)
StoreNew(e) ==
  LET result  == CustomerMessage(conv, e, e \in MediaEvents)
      deliver == CASE Asks(result.effects, "run_ai_turn:send") -> "send"
                   [] Asks(result.effects, "run_ai_turn:draft") -> "draft"
                   [] OTHER -> "none"
      acked   == Asks(result.effects, "send_acknowledgement:handoff")
  IN  /\ InboundAt(e, "resolved", "stored")
      /\ id[e] = 0
      /\ id' = [id EXCEPT ![e] = lastId + 1]
      /\ lastId' = lastId + 1
      /\ conv' = Apply(conv, result.patch)
      /\ owed' = [owed EXCEPT ![e] = deliver]
      /\ job' = [job EXCEPT ![e].state = IF deliver = "none" THEN "none" ELSE "waiting"]
      /\ suggested' = IF Asks(result.effects, "run_suggestion")
                        THEN suggested \cup {e} ELSE suggested
      /\ acks' = IF acked THEN acks \cup {e} ELSE acks
      /\ lastBy' = IF acked THEN "system" ELSE "customer"
      /\ UNCHANGED <<pc, answer, ending, wrote, replies, delivery, req>>

(* The raw event is marked processed once all of it has been handled. *)
MarkProcessed(e) ==
  /\ InboundAt(e, "stored", "processed")
  /\ UNCHANGED <<convVars, id, lastId, owed, suggested, acks, turnVars, wrote, replies, delivery, req>>

(* The job threw or its worker died: it begins again, from the raw event. *)
Redeliver(e) ==
  /\ inbound[e].at \in {"resolved", "stored"}
  /\ inbound[e].again < MaxRedeliveries
  /\ inbound' = [inbound EXCEPT ![e] = [at |-> "received", again |-> inbound[e].again + 1]]
  /\ UNCHANGED <<convVars, id, lastId, owed, suggested, acks, turnVars, wrote, replies, delivery, req>>

Inbound(e) == Resolve(e) \/ StoreDuplicate(e) \/ StoreNew(e) \/ MarkProcessed(e)

-----------------------------------------------------------------------------
(* The AI turn's job, as BullMQ runs it. *)

Running == {"load", "check", "think", "owned1", "newer1", "owned2", "write", "newer2",
            "draft", "owned3", "commit", "link", "suggest", "hand", "handcommit"}

(* The run the queue is waiting for; an older one may still be going, after *)
(* a stall, but the queue no longer listens to it.                          *)
IsCurrent(e, r) == job[e].state = "active" /\ job[e].runs = r

StartRun(e) ==
  /\ job[e].state = "waiting"
  /\ job[e].runs + 1 \in Runs
  /\ job' = [job EXCEPT ![e].state = "active", ![e].runs = job[e].runs + 1]
  /\ pc' = [pc EXCEPT ![e][job[e].runs + 1] = "load"]
  /\ UNCHANGED <<convVars, mailVars, acks, answer, ending, wrote, replies, delivery, req>>

Goto(e, r, from, to) ==
  /\ pc[e][r] = from
  /\ pc' = [pc EXCEPT ![e][r] = to]
  /\ UNCHANGED <<job, ending>>

(* The run returns, and the queue completes the job if it is still its run. *)
Finish(e, r, from, how) ==
  /\ pc[e][r] = from
  /\ pc' = [pc EXCEPT ![e][r] = "done"]
  /\ ending' = [ending EXCEPT ![e] = @ \cup {how}]
  /\ job' = IF IsCurrent(e, r) THEN [job EXCEPT ![e].state = "completed"] ELSE job

(* A slip: a job that has used its attempts is only logged. *)
GiveUpUnhooked(e, newPc) ==
  /\ job' = [job EXCEPT ![e].state = "failed"]
  /\ pc' = newPc

(* The job has failed for good: the worker's hook hands the turn to people. *)
GiveUp(e, newPc) ==
  /\ job' = [job EXCEPT ![e].state = "failed"]
  /\ pc' = [newPc EXCEPT ![e][Hook] = "hand"]

(* Any step of a run may throw.  The queue retries, until the last attempt. *)
Throw(e, r) ==
  LET dead == [pc EXCEPT ![e][r] = "dead"]
      failed == job[e].failed + 1
  IN  /\ r # Hook
      /\ pc[e][r] \in Running
      /\ \/ /\ ~IsCurrent(e, r)
            /\ pc' = dead
            /\ UNCHANGED job
         \/ /\ IsCurrent(e, r) /\ failed < MaxAttempts
            /\ pc' = dead
            /\ job' = [job EXCEPT ![e].state = "waiting", ![e].failed = failed]
         \/ /\ IsCurrent(e, r) /\ failed >= MaxAttempts
            /\ GiveUp(e, dead)
      /\ UNCHANGED <<convVars, mailVars, acks, answer, ending, wrote, replies, delivery, req>>

(* The worker stops renewing the job's lock, because it died with the run   *)
(* or because it is merely slow.  The queue starts the job over, or fails   *)
(* it without a run once it has stalled too often.                          *)
Stall(e) ==
  LET r == job[e].runs
      stalled == job[e].stalled + 1
  IN  /\ job[e].state = "active"
      /\ job[e].stalled < MaxStalls
      /\ \E after \in {pc, [pc EXCEPT ![e][r] = "dead"]} :
           IF stalled > MaxStalledCount
             THEN GiveUp(e, after)
             ELSE /\ pc' = after
                  /\ job' = [job EXCEPT ![e].state = "waiting", ![e].stalled = stalled]
      /\ UNCHANGED <<convVars, mailVars, acks, answer, ending, wrote, replies, delivery, req>>

-----------------------------------------------------------------------------
(* One run of an AI turn, read by read. *)

(* A slip: a newer message is enough, whether or not a turn is owed for it. *)
NewerMessage(e) == \E f \in Events : id[f] > id[e]

(* Is a turn owed for a customer message newer than the one this turn answers? *)
NewerTurnOwed(e) == \E f \in Events : id[f] > id[e] /\ owed[f] # "none"

(* A turn that drafts for a person's approval never asks who owns the thread. *)
StillAiOwned(e) == owed[e] # "send" \/ AiMaySend(conv.mode)

Answered(e) == \E reply \in replies : reply.turn = e

(* A read that decides where the run goes next. *)
OnlyRead == UNCHANGED <<convVars, mailVars, acks, answer, wrote, replies, delivery, req>>

(* The first of the checks, on the context that was loaded. *)
Load(e, r) ==
  /\ Goto(e, r, "load", IF StillAiOwned(e) THEN "check" ELSE "suggest")
  /\ OnlyRead

(* An earlier attempt of this turn may have answered; a newer turn may be   *)
(* owed; the workspace may have no provider to ask.                         *)
Check(e, r) ==
  /\ \/ /\ Answered(e)
        /\ Finish(e, r, "check", "replied")
     \/ /\ ~Answered(e) /\ NewerTurnOwed(e)
        /\ Finish(e, r, "check", "superseded")
     \/ /\ ~Answered(e) /\ ~NewerTurnOwed(e)
        /\ \E to \in {"think", "hand"} : Goto(e, r, "check", to)
  /\ OnlyRead

(* A draft may look things up; the tools that write are withheld from it. *)
Think(e, r) ==
  /\ Goto(e, r, "think", "owned1")
  /\ \E a \in Answers :
       /\ owed[e] = "draft" => a \in {"reply", "handoff", "empty"}
       /\ answer' = [answer EXCEPT ![e][r] = a]
  /\ UNCHANGED <<convVars, mailVars, acks, wrote, replies, delivery, req>>

(* The second check: before anything the turn learned is written. *)
StillOwnedAfterThinking(e, r) ==
  /\ Goto(e, r, "owned1", IF StillAiOwned(e) THEN "newer1" ELSE "suggest")
  /\ OnlyRead

Writes(a) == a \in {"reply+writes", "empty+writes"}
Empty(a)  == a \in {"empty", "empty+writes"}

(* Where an answer that is complete goes: an empty one is a handoff, except *)
(* in a draft, which ends there.                                            *)
AfterAnswer(e, r) ==
  CASE Empty(answer[e][r]) -> "hand"
    [] ~Empty(answer[e][r]) /\ owed[e] = "send" -> "owned3"
    [] ~Empty(answer[e][r]) /\ owed[e] = "draft" -> "newer2"

NewerAfterThinking(e, r) ==
  /\ \/ /\ NewerTurnOwed(e)
        /\ Finish(e, r, "newer1", "superseded")
     \/ /\ ~NewerTurnOwed(e)
        /\ answer[e][r] = "empty" /\ owed[e] = "draft"
        /\ Finish(e, r, "newer1", "silent")
     \/ /\ ~NewerTurnOwed(e)
        /\ ~(answer[e][r] = "empty" /\ owed[e] = "draft")
        /\ Goto(e, r, "newer1",
                CASE answer[e][r] = "handoff" -> "hand"
                  [] Writes(answer[e][r]) -> "owned2"
                  [] OTHER -> AfterAnswer(e, r))
  /\ OnlyRead

(* The check with teeth: past it the tenant's own systems change. *)
StillOwnedBeforeWrites(e, r) ==
  /\ Goto(e, r, "owned2", IF StillAiOwned(e) THEN "write" ELSE "suggest")
  /\ OnlyRead

(* A write that fails discards the reply and fetches a person; those before *)
(* it have been carried out.                                                *)
RunPendingWrites(e, r) ==
  /\ \/ /\ Goto(e, r, "write", AfterAnswer(e, r))
        /\ wrote' = wrote \cup {e}
     \/ /\ Goto(e, r, "write", "hand")
        /\ wrote' \in {wrote, wrote \cup {e}}
  /\ UNCHANGED <<convVars, mailVars, acks, answer, replies, delivery, req>>

(* A draft for a message the customer has already followed up is not kept. *)
NewerBeforeDraft(e, r) ==
  /\ \/ NewerTurnOwed(e) /\ Finish(e, r, "newer2", "superseded")
     \/ ~NewerTurnOwed(e) /\ Goto(e, r, "newer2", "draft")
  /\ OnlyRead

InsertDraft(e, r) ==
  /\ Finish(e, r, "draft", "drafted")
  /\ OnlyRead

(* The third check, immediately before the reply becomes real. *)
StillOwnedBeforeCommit(e, r) ==
  /\ Goto(e, r, "owned3", IF StillAiOwned(e) THEN "commit" ELSE "suggest")
  /\ OnlyRead

(* A slip: nothing but the read at the start keeps a turn from answering twice. *)
StoreReplyUnkeyed(e, r) ==
  /\ replies' = replies \cup {[turn |-> e, run |-> r]}
  /\ delivery' = [delivery EXCEPT ![e] = "queued"]
  /\ lastBy' = "ai"
  /\ Finish(e, r, "commit", "replied")
  /\ UNCHANGED <<conv, mailVars, acks, answer, wrote, req>>

(* Stored and queued as one commit, under the conversation's lock.  The     *)
(* unique turn key keeps the reply of an earlier attempt.                   *)
StoreReply(e, r) ==
  /\ replies' = IF Answered(e) THEN replies ELSE replies \cup {[turn |-> e, run |-> r]}
  /\ delivery' = IF Answered(e) THEN delivery ELSE [delivery EXCEPT ![e] = "queued"]
  /\ lastBy' = IF Answered(e) THEN lastBy ELSE "ai"
  /\ IF answer[e][r] = "reply+link"
       THEN Goto(e, r, "commit", "link")
       ELSE Finish(e, r, "commit", "replied")
  /\ UNCHANGED <<conv, mailVars, acks, answer, wrote, req>>

(* A slip: the mode read before the transaction is trusted inside it. *)
CommitUnlocked(e, r) ==
  \/ /\ ~Writes(answer[e][r]) /\ NewerTurnOwed(e)
     /\ Finish(e, r, "commit", "superseded")
     /\ OnlyRead
  \/ /\ Writes(answer[e][r]) \/ ~NewerTurnOwed(e)
     /\ StoreReply(e, r)

(* A slip: the newer message is not asked about again under the lock. *)
CommitOverNewer(e, r) ==
  \/ /\ ~AiMaySend(conv.mode)
     /\ Goto(e, r, "commit", "suggest")
     /\ OnlyRead
  \/ /\ AiMaySend(conv.mode)
     /\ StoreReply(e, r)

(* The last check, and the only one that cannot race. *)
Commit(e, r) ==
  \/ /\ ~AiMaySend(conv.mode)
     /\ Goto(e, r, "commit", "suggest")
     /\ OnlyRead
  \/ /\ AiMaySend(conv.mode)
     /\ ~Writes(answer[e][r]) /\ NewerTurnOwed(e)
     /\ Finish(e, r, "commit", "superseded")
     /\ OnlyRead
  \/ /\ AiMaySend(conv.mode)
     /\ Writes(answer[e][r]) \/ ~NewerTurnOwed(e)
     /\ StoreReply(e, r)

(* The verification link the reply has just announced; a person is fetched  *)
(* if it cannot be sent.                                                    *)
SendLink(e, r) ==
  /\ Finish(e, r, "link", "replied") \/ Goto(e, r, "link", "hand")
  /\ OnlyRead

SuggestInstead(e, r) ==
  /\ Finish(e, r, "suggest", "suggested")
  /\ suggested' = suggested \cup {e}
  /\ UNCHANGED <<convVars, inbound, id, lastId, owed, acks, answer, wrote, replies, delivery, req>>

(* handOff reads the conversation, and asks the state machine, outside the  *)
(* transaction that then applies the patch.                                 *)
ReadForHandoff(e, r) ==
  /\ \/ /\ AiHandoff(conv, e, "model_error", FALSE) = Ignored
        /\ Finish(e, r, "hand", "owned")
     \/ /\ AiHandoff(conv, e, "model_error", FALSE) # Ignored
        /\ Goto(e, r, "hand", "handcommit")
  /\ OnlyRead

CommitHandoff(e, r) ==
  /\ Finish(e, r, "handcommit", "handed")
  /\ conv' = Apply(conv, HandoffPatch(e, "model_error"))
  /\ acks' = acks \cup {e}
  /\ lastBy' = IF e \in acks THEN lastBy ELSE "system"
  /\ UNCHANGED <<mailVars, answer, wrote, replies, delivery, req>>

Turn(e, r) ==
  \/ Load(e, r) \/ Check(e, r) \/ Think(e, r)
  \/ StillOwnedAfterThinking(e, r) \/ NewerAfterThinking(e, r)
  \/ StillOwnedBeforeWrites(e, r) \/ RunPendingWrites(e, r)
  \/ NewerBeforeDraft(e, r) \/ InsertDraft(e, r)
  \/ StillOwnedBeforeCommit(e, r) \/ Commit(e, r) \/ SendLink(e, r)
  \/ SuggestInstead(e, r) \/ ReadForHandoff(e, r) \/ CommitHandoff(e, r)

-----------------------------------------------------------------------------
(* The delivery job of an AI reply. *)

DeliveryAt(e, from, to) ==
  /\ delivery[e] = from
  /\ delivery' = [delivery EXCEPT ![e] = to]
  /\ UNCHANGED <<convVars, mailVars, acks, turnVars, wrote, replies, req>>

(* A slip: a withheld reply takes a status no message has. *)
ClearForSendingMisnamed(e) ==
  DeliveryAt(e, "queued", IF AiMaySend(conv.mode) THEN "sending" ELSE "withheld")

(* A reply a human has since overtaken is not delivered. *)
ClearForSending(e) == DeliveryAt(e, "queued", IF AiMaySend(conv.mode) THEN "sending" ELSE "canceled")

Send(e) == DeliveryAt(e, "sending", "sent")

-----------------------------------------------------------------------------
(* A request of an agent: applyTransition loads the state, updates the row  *)
(* from what it read, and only then carries the effects out.                *)

OthersButConv == UNCHANGED <<mailVars, acks, turnVars, wrote, replies, delivery>>

(* An agent's reply is stored and queued before it takes the thread over. *)
StoreHumanMessage(q) ==
  /\ \E op \in Operations : op.kind = "message"
  /\ req[q].at = "idle"
  /\ req' = [req EXCEPT ![q] = [at |-> "stored", patch |-> NoPatch]]
  /\ lastBy' = "human"
  /\ UNCHANGED conv /\ OthersButConv

PatchFor(op) ==
  CASE op.kind = "take_over"    -> HumanTakeOver(Agent).patch
    [] op.kind = "return_to_ai" -> HumanReturnToAi(FALSE).patch
    [] op.kind = "message"      -> HumanMessage(conv, Agent).patch
    [] op.kind = "assign"       -> Assign(Agent).patch
    [] op.kind = "set_mode"     -> SetMode(conv, Now, op.to, FALSE).patch
    [] op.kind = "set_status"   -> SetStatus(op.to).patch

LoadState(q) ==
  /\ \E op \in Operations :
       /\ req[q].at = IF op.kind = "message" THEN "stored" ELSE "idle"
       /\ req' = [req EXCEPT ![q] = [at |-> "update", patch |-> PatchFor(op)]]
  /\ UNCHANGED convVars /\ OthersButConv

UpdateConversation(q) ==
  /\ req[q].at = "update"
  /\ req' = [req EXCEPT ![q] = [at |-> "done", patch |-> NoPatch]]
  /\ conv' = Apply(conv, req[q].patch)
  /\ UNCHANGED lastBy /\ OthersButConv

(* The API process dies with the request. *)
Abandon(q) ==
  /\ req[q].at \in {"stored", "update"}
  /\ req' = [req EXCEPT ![q] = [at |-> "done", patch |-> NoPatch]]
  /\ UNCHANGED convVars /\ OthersButConv

Request(q) == StoreHumanMessage(q) \/ LoadState(q) \/ UpdateConversation(q) \/ Abandon(q)

(* The sweep: an open conversation the AI answers, where our side spoke     *)
(* last, is closed under a condition that repeats the rule.                 *)
IdleResolve ==
  /\ conv.status = "open"
  /\ conv.mode \in {"ai", "ai_supervised"}
  /\ lastBy \in {"ai", "human"}
  /\ conv' = Apply(conv, SetStatus("resolved").patch)
  /\ UNCHANGED <<lastBy, mailVars, acks, turnVars, wrote, replies, delivery, req>>

-----------------------------------------------------------------------------

Worker == \E e \in Events :
  \/ Inbound(e) \/ Redeliver(e)
  \/ StartRun(e) \/ Stall(e)
  \/ \E r \in Runs : Turn(e, r) \/ Throw(e, r)
  \/ ClearForSending(e) \/ Send(e)

Next == Worker \/ (\E q \in Requests : Request(q)) \/ IdleResolve

(* The worker's processes keep taking steps; an agent need not finish what  *)
(* was begun, the sweep need not come, and nothing has to fail.             *)
Fairness == \A e \in Events :
  /\ WF_vars(Inbound(e))
  /\ WF_vars(StartRun(e))
  /\ \A r \in Runs : WF_vars(Turn(e, r))
  /\ WF_vars(ClearForSending(e))
  /\ WF_vars(Send(e))

Spec == Init /\ [][Next]_vars
FairSpec == Spec /\ Fairness

-----------------------------------------------------------------------------

RunState == {"idle", "done", "dead"} \cup Running
Endings  == {"replied", "suggested", "handed", "owned", "drafted", "superseded", "silent"}

TypeOK ==
  /\ conv \in ConversationState
  /\ lastBy \in {"nobody", "customer", "ai", "human", "system"}
  /\ inbound \in [Events -> [at : {"received", "resolved", "stored", "processed"},
                             again : 0..MaxRedeliveries]]
  /\ id \in [Events -> Nat]
  /\ lastId \in Nat
  /\ owed \in [Events -> {"none", "send", "draft"}]
  /\ suggested \subseteq Events
  /\ acks \subseteq Events
  /\ job \in [Events -> [state : {"none", "waiting", "active", "completed", "failed"},
                         runs : Runs, failed : Nat, stalled : Nat]]
  /\ pc \in [Events -> [Runs -> RunState]]
  /\ answer \in [Events -> [Runs -> Answers \cup {NoAnswer}]]
  /\ wrote \subseteq Events
  /\ replies \subseteq [turn : Events, run : Runs]
  /\ delivery \in [Events -> {"none", "queued", "sending", "sent", "canceled"}]
  /\ ending \in [Events -> SUBSET Endings]
  /\ DOMAIN req = Requests
  /\ \A q \in Requests : /\ req[q].at \in {"idle", "stored", "update", "done"}
                        /\ IsPatch(req[q].patch)

(* The instant of the wait and the reason of the handoff describe the mode  *)
(* of the row, although agents, turns and messages patch it at once and     *)
(* from states they read earlier; the console and the timer read them as one. *)
WaitIsDescribed == FieldsAgree(conv)

(* However often a turn is retried, and whatever stalled run of it is still *)
(* going, the customer gets one reply to it.                                *)
OneReplyPerTurn == \A a, b \in replies : a.turn = b.turn => a = b

(* inbound.ts:179-180: a message that is in the thread means that what it   *)
(* owed was promised too, be it a turn, a suggestion or a handoff.          *)
StoredMeansPromised ==
  \A e \in Events : id[e] # 0 => owed[e] # "none" \/ e \in suggested \/ e \in acks

(* A turn steps aside only for a message that has a turn of its own.        *)
StepsAsideForATurn ==
  \A e \in Events : "superseded" \in ending[e] =>
    \E f \in Events : id[f] > id[e] /\ owed[f] # "none"

(* No reply is stored, and none is cleared for sending, over a person: at   *)
(* the moment it happens the AI owns the conversation.                      *)
AiSpeaksOnlyAsOwner ==
  [][ \/ replies' # replies
      \/ \E e \in Events : delivery[e] # "sending" /\ delivery'[e] = "sending"
      => AiMaySend(conv.mode) ]_vars

(* A reply is stored for the newest message the AI owes an answer, unless   *)
(* it is the customer's only account of writes already carried out.         *)
RepliesToTheNewest ==
  [][ \A reply \in replies' \ replies :
        ~NewerTurnOwed(reply.turn) \/ reply.turn \in wrote ]_vars

(* A question the AI was to answer ends with somebody knowing of it: a      *)
(* reply to it or to a later one, a draft or suggestion, or a handoff.      *)
Told == {"replied", "suggested", "handed", "owned", "drafted"}

EveryQuestionReachesSomebody ==
  \A e \in Events :
    owed[e] # "none" ~> \E f \in Events : id[f] >= id[e] /\ ending[f] \cap Told # {}

-----------------------------------------------------------------------------
(* What the repository says of the program and the program does not do. *)

(* state-machine.ts:11-12: "while the mode is `human`, no effect may ever   *)
(* send a message to the customer".                                         *)
NoHoldingMessageOverHuman == [][acks' # acks => conv.mode # "human"]_vars

(* ai-turn.ts:548-551: "Stepping aside is only safe while this turn has     *)
(* changed nothing. Once its writes have reached the tenant's system, this  *)
(* reply is the customer's only account of them".                           *)
WritesAreAccountedFor ==
  \A e \in Events :
    e \in wrote /\ job[e].state = "completed" => ending[e] # {"superseded"}
=============================================================================
