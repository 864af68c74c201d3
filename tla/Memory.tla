------------------------------- MODULE Memory -------------------------------
(***************************************************************************)
(* What is remembered of a customer: the rolling summary, rewritten from   *)
(* the one before when one of their conversations is resolved, and the     *)
(* excerpts indexed for recall (processSummarize).  Two jobs run at once,  *)
(* one per conversation.  A summary is the set of the messages it took in, *)
(* directly or through the summaries it was rewritten from.                *)
(***************************************************************************)
EXTENDS Naturals, FiniteSets, FiniteSetsExt

CONSTANTS
  Threads,     \* conversations of the customer
  Batch,       \* messages one job reads: 200
  MaxMessages, \* bound: messages
  MaxAttempts, \* attempts of a job
  MaxStops     \* bound: workers that die

ASSUME MemoryAssumption ==
  /\ IsFiniteSet(Threads) /\ Batch \in Nat \ {0}
  /\ MaxMessages \in Nat /\ MaxAttempts \in Nat \ {0} /\ MaxStops \in Nat

VARIABLES
  told,       \* messages of each conversation, by their ids
  unsaid,     \* messages that have their id and are not committed
  summary,    \* customers.summary
  recall,     \* conversation_embeddings: how often each message is in it
  through,    \* conversations.summarized_through_message_id, 0 before the first
  task,       \* the job under the conversation's summary id
  stops,
  overlapped, \* history: two jobs of the customer have run at once
  leftOut     \* history: messages a job passed over: too many for it, or committed late

memory == <<told, unsaid, summary, recall, through, task, stops, overlapped, leftOut>>

NoTask == [at |-> "none", tries |-> 0, from |-> {}, rows |-> {}]
MessageIds == 1 .. MaxMessages
Summarising(t) == task[t].at \in {"read", "think", "index", "advance"}
Goto(t, step) == task' = [task EXCEPT ![t].at = step]
\* removeOnComplete
Complete(t) == task' = [task EXCEPT ![t] = NoTask]
\* After the watermark, the newest of them.
Unread(t) == {i \in told[t] : i > through[t]}
Newest(t) == {i \in Unread(t) : Cardinality({j \in Unread(t) : j > i}) < Batch}

MemoryInit ==
  /\ told = [t \in Threads |-> {}] /\ unsaid = [t \in Threads |-> {}]
  /\ through = [t \in Threads |-> 0]
  /\ summary = {} /\ recall = [i \in MessageIds |-> 0]
  /\ task = [t \in Threads |-> NoTask]
  /\ stops = 0 /\ overlapped = FALSE /\ leftOut = {}

-----------------------------------------------------------------------------
\* Anybody writes in the conversation: newId(), and the commit a moment later.
BeginMessage(t) ==
  /\ LET id == Cardinality(UNION {told[u] \cup unsaid[u] : u \in Threads}) + 1
     IN id <= MaxMessages /\ unsaid' = [unsaid EXCEPT ![t] = @ \cup {id}]
  /\ UNCHANGED <<told, summary, recall, through, task, stops, overlapped, leftOut>>

CommitMessage(t, i) ==
  /\ i \in unsaid[t]
  /\ unsaid' = [unsaid EXCEPT ![t] = @ \ {i}]
  /\ told' = [told EXCEPT ![t] = @ \cup {i}]
  /\ leftOut' = IF i < Max(task[t].rows \cup {through[t]}) THEN leftOut \cup {i} ELSE leftOut
  /\ UNCHANGED <<summary, recall, through, task, stops, overlapped>>

\* The conversation is resolved, for the first time or again: a job, unless one is waiting
\* or running under its id, or has failed there within the day.
Resolve(t) ==
  /\ task[t].at = "none"
  /\ Goto(t, "waiting")
  /\ UNCHANGED <<told, unsaid, summary, recall, through, stops, overlapped, leftOut>>

\* A run begins with the customer, and so with the summary it will rewrite.
ReadCustomer(t) ==
  /\ task[t].at = "waiting"
  /\ task' = [task EXCEPT ![t].at = "read", ![t].from = summary]
  /\ overlapped' = (overlapped \/ \E u \in Threads : Summarising(u))
  /\ UNCHANGED <<told, unsaid, summary, recall, through, stops, leftOut>>

\* The conversation, its watermark and what came after it.
ReadMessages(t) ==
  /\ task[t].at = "read"
  /\ IF Unread(t) = {}
     THEN Complete(t)
     ELSE task' = [task EXCEPT ![t].at = "think", ![t].rows = Newest(t)]
  /\ leftOut' = leftOut \cup (Unread(t) \ Newest(t))
  /\ UNCHANGED <<told, unsaid, summary, recall, through, stops, overlapped>>

\* The model answers, and the customer's summary is what it made of the two.
WriteSummary(t) ==
  /\ task[t].at = "think"
  /\ summary' = task[t].from \cup task[t].rows
  /\ Goto(t, "index")
  /\ UNCHANGED <<told, unsaid, recall, through, stops, overlapped, leftOut>>

(* A slip: the watermark goes on though the summary did not. *)
KeepSummaryAndAdvance(t) ==
  /\ task[t].at = "think"
  /\ through' = [through EXCEPT ![t] = Max(task[t].rows)]
  /\ Complete(t)
  /\ UNCHANGED <<told, unsaid, summary, recall, stops, overlapped, leftOut>>

\* It fails: "keeping the previous one", and the watermark where it was.
KeepSummary(t) ==
  /\ task[t].at = "think"
  /\ Complete(t)
  /\ UNCHANGED <<told, unsaid, summary, recall, through, stops, overlapped, leftOut>>

\* What was read is embedded and added to what recall has.
IndexForRecall(t) ==
  /\ task[t].at = "index"
  /\ recall' = [i \in MessageIds |-> recall[i] + (IF i \in task[t].rows THEN 1 ELSE 0)]
  /\ Goto(t, "advance")
  /\ UNCHANGED <<told, unsaid, summary, through, stops, overlapped, leftOut>>

\* The embedding fails: the job throws, and is tried again while it has attempts.  Failed for
\* good it keeps its id.
EmbeddingFails(t) ==
  /\ task[t].at = "index"
  /\ task' = [task EXCEPT ![t] =
                IF @.tries + 1 < MaxAttempts
                THEN [NoTask EXCEPT !.at = "waiting", !.tries = task[t].tries + 1]
                ELSE [NoTask EXCEPT !.at = "failed"]]
  /\ UNCHANGED <<told, unsaid, summary, recall, through, stops, overlapped, leftOut>>

\* removeOnFail: a day later the id is free.
ForgetFailure(t) ==
  /\ task[t].at = "failed"
  /\ Complete(t)
  /\ UNCHANGED <<told, unsaid, summary, recall, through, stops, overlapped, leftOut>>

\* The watermark is the newest message that was read.
Advance(t) ==
  /\ task[t].at = "advance"
  /\ through' = [through EXCEPT ![t] = Max(task[t].rows)]
  /\ Complete(t)
  /\ UNCHANGED <<told, unsaid, summary, recall, stops, overlapped, leftOut>>

\* The worker dies: another one finds the job stalled and runs it from the start.
StopWorker(t) ==
  /\ Summarising(t) /\ stops < MaxStops
  /\ stops' = stops + 1
  /\ task' = [task EXCEPT ![t] = [NoTask EXCEPT !.at = "waiting", !.tries = task[t].tries]]
  /\ UNCHANGED <<told, unsaid, summary, recall, through, overlapped, leftOut>>

MemoryNext ==
  \E t \in Threads :
    \/ BeginMessage(t) \/ (\E i \in unsaid[t] : CommitMessage(t, i)) \/ Resolve(t) \/ ReadCustomer(t) \/ ReadMessages(t) \/ WriteSummary(t)
    \/ KeepSummary(t) \/ IndexForRecall(t) \/ EmbeddingFails(t) \/ ForgetFailure(t)
    \/ Advance(t) \/ StopWorker(t)

MemorySpec == MemoryInit /\ [][MemoryNext]_memory

-----------------------------------------------------------------------------
(* Summaries, excerpts and jobs are about messages of the customer.         *)
MemoryTypeOK ==
  /\ told \in [Threads -> SUBSET MessageIds] /\ unsaid \in [Threads -> SUBSET MessageIds]
  /\ summary \subseteq MessageIds
  /\ recall \in [MessageIds -> Nat] /\ through \in [Threads -> 0 .. MaxMessages]
  /\ task \in [Threads -> [at : {"none", "waiting", "read", "think", "index", "advance", "failed"},
                           tries : 0 .. MaxAttempts, from : SUBSET MessageIds, rows : SUBSET MessageIds]]
  /\ stops \in 0 .. MaxStops /\ overlapped \in BOOLEAN /\ leftOut \subseteq MessageIds

Covered(t) == {i \in told[t] : i <= through[t]}

(* What lies behind the watermark no later summary reads, so the summary has*)
(* it: the watermark is "not advanced past messages the summary never took  *)
(* in" (summarize.ts:203), whatever fails, dies or arrives in between.  That*)
(* holds as long as the customer's summaries are made one after the other;  *)
(* a message too many for the batch of its job, or committed after one with *)
(* a later id was read, no summary has.                                     *)
NothingIsForgotten ==
  ~overlapped => \A t \in Threads : Covered(t) \ leftOut \subseteq summary

(* The same of the jobs as the worker runs them, two at once.               *)
NothingIsForgottenAtOnce ==
  \A t \in Threads : Covered(t) \ leftOut \subseteq summary

(* A job repeated is a job done once: "indexing replaces what it wrote for  *)
(* the same conversation" (summarize.ts:23-25).                             *)
RecallHasEachOnce == \A i \in MessageIds : recall[i] <= 1
=============================================================================
