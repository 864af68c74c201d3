----------------------------- MODULE TurnsProofs -----------------------------
(***************************************************************************)
(* What one conversation keeps true while its messages, its AI turns, their *)
(* retries and stalls, its agents and the sweep all write to it: for every  *)
(* number of messages, requests, attempts, stalls and redeliveries, every   *)
(* set of operations and answers, and every default mode.                   *)
(***************************************************************************)
EXTENDS Turns, ConversationLemmas

(* A request carries a patch computed from a state that may have gone; it   *)
(* must be harmless to whatever row it meets.                               *)
RequestsAreSafe == \A q \in Requests : SafePatch(req[q].patch)

(* Nothing is owed for a message that is not stored, and nothing of a turn  *)
(* exists before the turn is owed.                                          *)
Begun ==
  \A e \in Events :
    /\ id[e] = 0 => owed[e] = "none"
    /\ owed[e] = "none" => /\ job[e].state = "none"
                           /\ ending[e] = {}
                           /\ \A r \in Runs : pc[e][r] = "idle"

Described == TypeOK /\ WaitIsDescribed /\ RequestsAreSafe /\ Begun

(* The part of the type invariant the steps of a run are about. *)
RunTypes ==
  /\ job \in [Events -> [state : {"none", "waiting", "active", "completed", "failed"},
                         runs : Runs, failed : Nat, stalled : Nat]]
  /\ pc \in [Events -> [Runs -> RunState]]
  /\ ending \in [Events -> SUBSET Endings]

LEMMA HookIsARun ==
  ASSUME TurnsAssumption
  PROVE  Hook \in Runs /\ Runs \subseteq Nat
BY DEF TurnsAssumption, Hook, Runs

LEMMA GotoType ==
  ASSUME RunTypes, NEW e \in Events, NEW r \in Runs, NEW from, NEW to \in RunState,
         Goto(e, r, from, to)
  PROVE  RunTypes'
BY DEF RunTypes, Goto

LEMMA FinishType ==
  ASSUME RunTypes, NEW e \in Events, NEW r \in Runs, NEW from, NEW how \in Endings,
         Finish(e, r, from, how)
  PROVE  RunTypes'
<1>1. pc' \in [Events -> [Runs -> RunState]]
  BY DEF RunTypes, Finish, RunState
<1>2. ending' \in [Events -> SUBSET Endings]
  BY DEF RunTypes, Finish
<1>3. job' \in [Events -> [state : {"none", "waiting", "active", "completed", "failed"},
                           runs : Runs, failed : Nat, stalled : Nat]]
  BY DEF RunTypes, Finish
<1> QED
  BY <1>1, <1>2, <1>3 DEF RunTypes

LEMMA GiveUpType ==
  ASSUME TurnsAssumption, RunTypes, NEW e \in Events,
         NEW after \in [Events -> [Runs -> RunState]], GiveUp(e, after), UNCHANGED ending
  PROVE  RunTypes'
<1>1. "hand" \in RunState /\ Hook \in Runs
  BY HookIsARun DEF RunState, Running
<1> QED
  BY <1>1 DEF RunTypes, GiveUp

(* The places an answer may lead to are places a run may stand at. *)
LEMMA AfterAnswerType ==
  ASSUME NEW e \in Events, NEW r \in Runs, owed[e] \in {"send", "draft"}
  PROVE  AfterAnswer(e, r) \in {"hand", "owned3", "newer2"}
<1> DEFINE deliver == owed[e]
           nothing == Empty(answer[e][r])
<1>1. AfterAnswer(e, r) = CASE nothing -> "hand"
                            [] ~nothing /\ deliver = "send" -> "owned3"
                            [] ~nothing /\ deliver = "draft" -> "newer2"
  BY DEF AfterAnswer
<1>2. deliver \in {"send", "draft"} /\ nothing \in BOOLEAN
  BY DEF Empty
<1> HIDE DEF deliver, nothing
<1> QED
  BY <1>1, <1>2

-----------------------------------------------------------------------------
(* The steps of a run, taken together. *)

(* Every step of a run goes somewhere or finishes, and a run that finishes  *)
(* because it steps aside has just seen the newer turn it steps aside for.  *)
Moves(e, r) ==
  \E from \in Running :
    \/ \E to \in RunState : Goto(e, r, from, to)
    \/ \E how \in Endings : /\ Finish(e, r, from, how)
                            /\ how = "superseded" => NewerTurnOwed(e)

LEMMA TurnMoves ==
  ASSUME TypeOK, Begun, NEW e \in Events, NEW r \in Runs, Turn(e, r)
  PROVE  Moves(e, r)
<1> USE DEF Moves, Running, RunState, Endings
<1>0. pc[e][r] # "idle" => owed[e] \in {"send", "draft"}
  BY DEF TypeOK, Begun
<1>1. CASE Load(e, r)
  BY <1>1 DEF Load
<1>2. CASE Check(e, r)
  BY <1>2 DEF Check
<1>3. CASE Think(e, r)
  BY <1>3 DEF Think
<1>4. CASE StillOwnedAfterThinking(e, r)
  BY <1>4 DEF StillOwnedAfterThinking
<1>5. CASE NewerAfterThinking(e, r)
  <2>1. CASE NewerTurnOwed(e) /\ Finish(e, r, "newer1", "superseded")
    BY <2>1
  <2>2. CASE Finish(e, r, "newer1", "silent")
    BY <2>2
  <2>3. CASE Goto(e, r, "newer1", CASE answer[e][r] = "handoff" -> "hand"
                                    [] Writes(answer[e][r]) -> "owned2"
                                    [] OTHER -> AfterAnswer(e, r))
    <3>1. AfterAnswer(e, r) \in {"hand", "owned3", "newer2"}
      BY <1>0, <2>3, AfterAnswerType DEF Goto
    <3>2. \E to \in {"hand", "owned2", "owned3", "newer2"} : Goto(e, r, "newer1", to)
      BY <2>3, <3>1
    <3> QED
      BY <3>2
  <2> QED
    BY <1>5, <2>1, <2>2, <2>3 DEF NewerAfterThinking
<1>6. CASE StillOwnedBeforeWrites(e, r)
  BY <1>6 DEF StillOwnedBeforeWrites
<1>7. CASE RunPendingWrites(e, r)
  <2>1. pc[e][r] = "write"
    BY <1>7 DEF RunPendingWrites, Goto
  <2>2. AfterAnswer(e, r) \in {"hand", "owned3", "newer2"}
    BY <1>0, <2>1, AfterAnswerType
  <2> QED
    BY <1>7, <2>2 DEF RunPendingWrites
<1>8. CASE NewerBeforeDraft(e, r)
  BY <1>8 DEF NewerBeforeDraft
<1>9. CASE InsertDraft(e, r)
  BY <1>9 DEF InsertDraft
<1>10. CASE StillOwnedBeforeCommit(e, r)
  BY <1>10 DEF StillOwnedBeforeCommit
<1>11. CASE Commit(e, r)
  BY <1>11 DEF Commit, StoreReply
<1>12. CASE SendLink(e, r)
  BY <1>12 DEF SendLink
<1>13. CASE SuggestInstead(e, r)
  BY <1>13 DEF SuggestInstead
<1>14. CASE ReadForHandoff(e, r)
  BY <1>14 DEF ReadForHandoff
<1>15. CASE CommitHandoff(e, r)
  BY <1>15 DEF CommitHandoff
<1> QED
  BY <1>1, <1>2, <1>3, <1>4, <1>5, <1>6, <1>7, <1>8, <1>9, <1>10, <1>11, <1>12,
     <1>13, <1>14, <1>15 DEF Turn

(* What a step of a run never touches. *)
LEMMA TurnLeaves ==
  ASSUME NEW e \in Events, NEW r \in Runs, Turn(e, r)
  PROVE  UNCHANGED <<inbound, id, lastId, owed, req>>
BY DEF Turn, Load, Check, Think, StillOwnedAfterThinking, NewerAfterThinking,
       StillOwnedBeforeWrites, RunPendingWrites, NewerBeforeDraft, InsertDraft,
       StillOwnedBeforeCommit, Commit, StoreReply, SendLink, SuggestInstead,
       ReadForHandoff, CommitHandoff, OnlyRead, mailVars

(* A step of a run that changes the conversation changes it to a handoff. *)
LEMMA TurnConv ==
  ASSUME NEW e \in Events, NEW r \in Runs, Turn(e, r)
  PROVE  conv' = conv \/ conv' = Apply(conv, HandoffPatch(e, "model_error"))
BY DEF Turn, Load, Check, Think, StillOwnedAfterThinking, NewerAfterThinking,
       StillOwnedBeforeWrites, RunPendingWrites, NewerBeforeDraft, InsertDraft,
       StillOwnedBeforeCommit, Commit, StoreReply, SendLink, SuggestInstead,
       ReadForHandoff, CommitHandoff, OnlyRead, convVars

(* A move keeps the types of the run's state, and a turn that has moved was *)
(* owed already.                                                            *)
LEMMA MovesKeep ==
  ASSUME RunTypes, Begun, NEW e \in Events, NEW r \in Runs, Moves(e, r),
         UNCHANGED <<id, owed>>
  PROVE  RunTypes' /\ Begun'
<1>0. PICK from \in Running :
        \/ \E to \in RunState : Goto(e, r, from, to)
        \/ \E how \in Endings : Finish(e, r, from, how)
  BY DEF Moves
<1>1. RunTypes'
  BY <1>0, GotoType, FinishType
<1>2. pc[e][r] # "idle"
  BY <1>0 DEF Goto, Finish, Running
<1>3. owed[e] # "none"
  BY <1>2 DEF Begun
<1>4. \A f \in Events \ {e} : /\ job'[f] = job[f] /\ ending'[f] = ending[f]
                              /\ \A n \in Runs : pc'[f][n] = pc[f][n]
  BY <1>0 DEF RunTypes, Goto, Finish
<1> QED
  BY <1>1, <1>3, <1>4 DEF Begun

(* The types of what a step of a run may write beside its own state. *)
LEMMA TurnTypes ==
  ASSUME TypeOK, NEW e \in Events, NEW r \in Runs, Turn(e, r)
  PROVE  /\ lastBy' \in {"nobody", "customer", "ai", "human", "system"}
         /\ suggested' \subseteq Events
         /\ acks' \subseteq Events
         /\ answer' \in [Events -> [Runs -> Answers \cup {NoAnswer}]]
         /\ wrote' \subseteq Events
         /\ replies' \subseteq [turn : Events, run : Runs]
         /\ delivery' \in [Events -> {"none", "queued", "sending", "sent", "canceled"}]
<1> USE DEF TypeOK, OnlyRead, convVars, mailVars
<1>1. CASE Commit(e, r)
  <2>1. CASE OnlyRead
    BY <2>1
  <2>2. CASE StoreReply(e, r)
    <3>1. [turn |-> e, run |-> r] \in [turn : Events, run : Runs]
      OBVIOUS
    <3>2. replies' \subseteq [turn : Events, run : Runs]
      BY <2>2, <3>1 DEF StoreReply
    <3> QED
      BY <2>2, <3>2 DEF StoreReply
  <2> QED
    BY <1>1, <2>1, <2>2 DEF Commit
<1>2. CASE Think(e, r)
  BY <1>2 DEF Think
<1>3. CASE RunPendingWrites(e, r)
  BY <1>3 DEF RunPendingWrites
<1>4. CASE SuggestInstead(e, r)
  BY <1>4 DEF SuggestInstead
<1>5. CASE CommitHandoff(e, r)
  BY <1>5 DEF CommitHandoff
<1>6. CASE ~(Commit(e, r) \/ Think(e, r) \/ RunPendingWrites(e, r) \/ SuggestInstead(e, r)
               \/ CommitHandoff(e, r))
  <2>1. OnlyRead
    BY <1>6 DEF Turn, Load, Check, StillOwnedAfterThinking, NewerAfterThinking,
                StillOwnedBeforeWrites, NewerBeforeDraft, InsertDraft,
                StillOwnedBeforeCommit, SendLink, ReadForHandoff
  <2> QED
    BY <2>1
<1> QED
  BY <1>1, <1>2, <1>3, <1>4, <1>5, <1>6

(* A handoff is a safe patch whichever message it answers. *)
LEMMA HandoffIsSafe ==
  ASSUME ConversationAssumption, TurnsAssumption, NEW e \in Events
  PROVE  IsPatch(HandoffPatch(e, "model_error")) /\ SafePatch(HandoffPatch(e, "model_error"))
<1>1. e \in Instants /\ e # NoInstant
  BY DEF TurnsAssumption, ConversationAssumption
<1> QED
  BY <1>1 DEF HandoffPatch, IsPatch, SafePatch, Modes, Reasons

LEMMA TurnDescribed ==
  ASSUME ConversationAssumption, TurnsAssumption, Described,
         NEW e \in Events, NEW r \in Runs, Turn(e, r)
  PROVE  Described'
<1> USE DEF Described
<1>1. RunTypes
  BY DEF TypeOK, RunTypes
<1>2. UNCHANGED <<inbound, id, lastId, owed, req>>
  BY TurnLeaves
<1>3. RunTypes' /\ Begun'
  BY <1>1, <1>2, TurnMoves, MovesKeep
<1>4. conv' \in ConversationState /\ WaitIsDescribed'
  <2>1. conv \in ConversationState /\ FieldsAgree(conv)
    BY DEF TypeOK, WaitIsDescribed
  <2> QED
    BY <2>1, TurnConv, HandoffIsSafe, ApplyType, ApplySafe DEF WaitIsDescribed
<1>5. RequestsAreSafe'
  BY <1>2 DEF RequestsAreSafe
<1>6. TypeOK'
  BY <1>2, <1>3, <1>4, TurnTypes DEF TypeOK, RunTypes
<1> QED
  BY <1>3, <1>4, <1>5, <1>6

-----------------------------------------------------------------------------
(* The other actions. *)

LEMMA InboundType ==
  ASSUME TypeOK, NEW e \in Events, NEW from,
         NEW to \in {"received", "resolved", "stored", "processed"}, InboundAt(e, from, to)
  PROVE  inbound' \in [Events -> [at : {"received", "resolved", "stored", "processed"},
                                  again : 0..MaxRedeliveries]]
<1> DEFINE Jobs == [at : {"received", "resolved", "stored", "processed"},
                    again : 0..MaxRedeliveries]
<1>1. inbound \in [Events -> Jobs] /\ inbound' = [inbound EXCEPT ![e].at = to]
  BY DEF TypeOK, InboundAt
<1>2. [inbound[e] EXCEPT !.at = to] \in Jobs
  BY <1>1
<1> HIDE DEF Jobs
<1>3. inbound' \in [Events -> Jobs]
  BY <1>1, <1>2
<1> QED
  BY <1>3 DEF Jobs

LEMMA ResolveDescribed ==
  ASSUME ConversationAssumption, TurnsAssumption, Described, NEW e \in Events, Resolve(e)
  PROVE  Described'
<1> USE DEF Described
<1>1. PICK owner \in {NoUser, Agent} : conv' = Reopened(conv, DefaultMode, owner)
  BY DEF Resolve
<1>2. owner \in Users \cup {NoUser}
  BY DEF TurnsAssumption
<1>3. conv' \in ConversationState /\ FieldsAgree(conv')
  BY <1>1, <1>2, BeginningsAgree DEF TypeOK, WaitIsDescribed, TurnsAssumption
<1>4. TypeOK'
  BY <1>3, InboundType DEF TypeOK, Resolve, turnVars
<1> QED
  BY <1>3, <1>4 DEF WaitIsDescribed, RequestsAreSafe, Begun, Resolve, turnVars

LEMMA StoreNewDescribed ==
  ASSUME ConversationAssumption, TurnsAssumption, Described, NEW e \in Events, StoreNew(e)
  PROVE  Described'
<1> USE DEF Described
<1> DEFINE isMedia == e \in MediaEvents
           result == CustomerMessage(conv, e, isMedia)
           deliver == CASE Asks(result.effects, "run_ai_turn:send") -> "send"
                        [] Asks(result.effects, "run_ai_turn:draft") -> "draft"
                        [] OTHER -> "none"
           acked == Asks(result.effects, "send_acknowledgement:handoff")
<1>1. deliver \in {"none", "send", "draft"} /\ acked \in BOOLEAN
  BY DEF Asks
<1>2. IsPatch(result.patch) /\ SafePatch(result.patch)
  <2>1. e \in Instants /\ conv \in ConversationState /\ isMedia \in BOOLEAN
    BY DEF TurnsAssumption, TypeOK
  <2> HIDE DEF isMedia
  <2> QED
    BY <2>1, EventPatches
<1>3. /\ InboundAt(e, "resolved", "stored")
      /\ id[e] = 0
      /\ id' = [id EXCEPT ![e] = lastId + 1]
      /\ lastId' = lastId + 1
      /\ conv' = Apply(conv, result.patch)
      /\ owed' = [owed EXCEPT ![e] = deliver]
      /\ job' = [job EXCEPT ![e].state = IF deliver = "none" THEN "none" ELSE "waiting"]
      /\ suggested' \in {suggested, suggested \cup {e}}
      /\ acks' \in {acks, acks \cup {e}}
      /\ lastBy' \in {"system", "customer"}
      /\ UNCHANGED <<pc, answer, ending, wrote, replies, delivery, req>>
  BY DEF StoreNew
<1> HIDE DEF result, deliver, acked
<1>4. conv' \in ConversationState /\ FieldsAgree(conv')
  BY <1>2, <1>3, ApplyType, ApplySafe DEF TypeOK, WaitIsDescribed
<1>5. TypeOK'
  <2>1. id' \in [Events -> Nat] /\ lastId' \in Nat
    BY <1>3 DEF TypeOK
  <2>2. owed' \in [Events -> {"none", "send", "draft"}]
    BY <1>1, <1>3 DEF TypeOK
  <2>3. job' \in [Events -> [state : {"none", "waiting", "active", "completed", "failed"},
                             runs : Runs, failed : Nat, stalled : Nat]]
    <3> DEFINE Jobs == [state : {"none", "waiting", "active", "completed", "failed"},
                        runs : Runs, failed : Nat, stalled : Nat]
               state == IF deliver = "none" THEN "none" ELSE "waiting"
    <3>1. job \in [Events -> Jobs]
      BY DEF TypeOK
    <3>2. job' = [job EXCEPT ![e].state = state] /\ state \in {"none", "waiting"}
      BY <1>3
    <3> HIDE DEF state
    <3>3. job' \in [Events -> Jobs]
      BY <3>1, <3>2
    <3> QED
      BY <3>3 DEF Jobs
  <2> QED
    BY <1>3, <1>4, <2>1, <2>2, <2>3, InboundType DEF TypeOK
<1>6. Begun'
  BY <1>1, <1>3 DEF Begun, TypeOK
<1> QED
  BY <1>3, <1>4, <1>5, <1>6 DEF WaitIsDescribed, RequestsAreSafe

LEMMA InboundRestDescribed ==
  ASSUME TurnsAssumption, Described, NEW e \in Events, StoreDuplicate(e) \/ MarkProcessed(e) \/ Redeliver(e)
  PROVE  Described'
<1>1. UNCHANGED <<conv, lastBy, id, lastId, owed, suggested, acks, job, pc, answer, ending,
                  wrote, replies, delivery, req>>
  BY DEF StoreDuplicate, MarkProcessed, Redeliver, convVars, turnVars
<1>2. inbound' \in [Events -> [at : {"received", "resolved", "stored", "processed"},
                               again : 0..MaxRedeliveries]]
  <2>1. CASE StoreDuplicate(e) \/ MarkProcessed(e)
    BY <2>1, InboundType DEF Described, StoreDuplicate, MarkProcessed
  <2>2. CASE Redeliver(e)
    <3> DEFINE again == inbound[e].again + 1
               Jobs == [at : {"received", "resolved", "stored", "processed"},
                        again : 0..MaxRedeliveries]
    <3>1. inbound' = [inbound EXCEPT ![e] = [at |-> "received", again |-> again]]
      BY <2>2 DEF Redeliver
    <3>2. again \in 0..MaxRedeliveries
      BY <2>2 DEF Redeliver, Described, TypeOK, TurnsAssumption
    <3>3. [at |-> "received", again |-> again] \in Jobs
      BY <3>2
    <3>4. inbound \in [Events -> Jobs]
      BY DEF Described, TypeOK
    <3> HIDE DEF Jobs, again
    <3>5. inbound' \in [Events -> Jobs]
      BY <3>1, <3>3, <3>4
    <3> QED
      BY <3>5 DEF Jobs
  <2> QED
    BY <2>1, <2>2
<1> QED
  BY <1>1, <1>2 DEF Described, TypeOK, WaitIsDescribed, RequestsAreSafe, Begun

(* What the queue does to a job changes the run's state and nothing else. *)
LEMMA QueueDescribed ==
  ASSUME TurnsAssumption, Described, NEW e \in Events,
         StartRun(e) \/ Stall(e) \/ \E r \in Runs : Throw(e, r)
  PROVE  Described'
<1> USE DEF Described
<1>0. RunTypes /\ Runs \subseteq Nat /\ Hook \in Runs
  BY HookIsARun DEF TypeOK, RunTypes
<1>1. UNCHANGED <<conv, lastBy, inbound, id, lastId, owed, suggested, acks, answer, ending,
                  wrote, replies, delivery, req>>
  BY DEF StartRun, Stall, Throw, convVars, mailVars
<1>2. owed[e] # "none" /\ RunTypes'
      /\ \A f \in Events \ {e} : /\ job'[f] = job[f]
                                 /\ \A n \in Runs : pc'[f][n] = pc[f][n]
  <2>1. CASE StartRun(e)
    <3> DEFINE n == job[e].runs + 1
    <3>1. /\ job[e].state = "waiting"
          /\ n \in Runs
          /\ job' = [job EXCEPT ![e].state = "active", ![e].runs = n]
          /\ pc' = [pc EXCEPT ![e][n] = "load"]
      BY <2>1 DEF StartRun
    <3>2. owed[e] # "none"
      BY <3>1 DEF Begun
    <3> HIDE DEF n
    <3>3. job' \in [Events -> [state : {"none", "waiting", "active", "completed", "failed"},
                               runs : Runs, failed : Nat, stalled : Nat]]
      BY <1>0, <3>1 DEF RunTypes
    <3>4. pc' \in [Events -> [Runs -> RunState]]
      BY <1>0, <3>1 DEF RunTypes, RunState, Running
    <3> QED
      BY <1>0, <1>1, <3>1, <3>2, <3>3, <3>4 DEF RunTypes
  <2>2. CASE Stall(e)
    <3>1. PICK after \in {pc, [pc EXCEPT ![e][job[e].runs] = "dead"]} :
            IF job[e].stalled + 1 > MaxStalledCount
              THEN GiveUp(e, after)
              ELSE /\ pc' = after
                   /\ job' = [job EXCEPT ![e].state = "waiting",
                                         ![e].stalled = job[e].stalled + 1]
      BY <2>2 DEF Stall
    <3>2. after \in [Events -> [Runs -> RunState]]
          /\ \A f \in Events \ {e} : after[f] = pc[f]
      BY <1>0 DEF RunTypes, RunState
    <3>3. owed[e] # "none"
      BY <2>2 DEF Stall, Begun
    <3>4. CASE GiveUp(e, after)
      BY <1>0, <1>1, <3>2, <3>3, <3>4, GiveUpType DEF GiveUp, RunTypes
    <3>5. CASE pc' = after /\ job' = [job EXCEPT ![e].state = "waiting",
                                                 ![e].stalled = job[e].stalled + 1]
      BY <1>0, <1>1, <3>2, <3>3, <3>5 DEF RunTypes
    <3> QED
      BY <3>1, <3>4, <3>5
  <2>3. CASE \E r \in Runs : Throw(e, r)
    <3>1. PICK r \in Runs : Throw(e, r)
      BY <2>3
    <3> DEFINE dead == [pc EXCEPT ![e][r] = "dead"]
    <3>2. dead \in [Events -> [Runs -> RunState]] /\ \A f \in Events \ {e} : dead[f] = pc[f]
      BY <1>0 DEF RunTypes, RunState
    <3>3. owed[e] # "none"
      BY <3>1 DEF Throw, Begun, Running
    <3>4. CASE GiveUp(e, dead)
      BY <1>0, <1>1, <3>2, <3>3, <3>4, GiveUpType DEF GiveUp, RunTypes
    <3>5. CASE pc' = dead /\ UNCHANGED job
      BY <1>0, <1>1, <3>2, <3>3, <3>5 DEF RunTypes
    <3>6. CASE pc' = dead /\ job' = [job EXCEPT ![e].state = "waiting",
                                                ![e].failed = job[e].failed + 1]
      BY <1>0, <1>1, <3>2, <3>3, <3>6 DEF RunTypes
    <3> QED
      BY <3>1, <3>4, <3>5, <3>6 DEF Throw
  <2> QED
    BY <2>1, <2>2, <2>3
<1>4. Begun'
  BY <1>1, <1>2 DEF Begun
<1>5. TypeOK'
  BY <1>1, <1>2 DEF TypeOK, RunTypes
<1> QED
  BY <1>1, <1>4, <1>5 DEF WaitIsDescribed, RequestsAreSafe

LEMMA DeliveryDescribed ==
  ASSUME Described, NEW e \in Events, ClearForSending(e) \/ Send(e)
  PROVE  Described'
<1>1. PICK to \in {"sending", "canceled", "sent"} :
        /\ delivery' = [delivery EXCEPT ![e] = to]
        /\ UNCHANGED <<convVars, mailVars, acks, turnVars, wrote, replies, req>>
  BY DEF ClearForSending, Send, DeliveryAt
<1> QED
  BY <1>1 DEF Described, TypeOK, WaitIsDescribed, RequestsAreSafe, Begun,
              convVars, mailVars, turnVars

(* Whatever an agent asks for, the patch of it is harmless to any row. *)
LEMMA PatchForIsSafe ==
  ASSUME ConversationAssumption, TurnsAssumption, conv \in ConversationState,
         NEW op \in Operations
  PROVE  IsPatch(PatchFor(op)) /\ SafePatch(PatchFor(op))
<1> DEFINE kind == op.kind
           to == op.to
<1>0. Agent \in Users /\ Now \in Instants /\ FALSE \in BOOLEAN
  BY DEF TurnsAssumption
<1>1. /\ kind \in {"take_over", "return_to_ai", "message", "assign", "set_mode", "set_status"}
      /\ kind = "set_mode" => to \in Modes
      /\ kind = "set_status" => to \in Statuses
  BY DEF TurnsAssumption
<1>2. PatchFor(op) = CASE kind = "take_over"    -> HumanTakeOver(Agent).patch
                       [] kind = "return_to_ai" -> HumanReturnToAi(FALSE).patch
                       [] kind = "message"      -> HumanMessage(conv, Agent).patch
                       [] kind = "assign"       -> Assign(Agent).patch
                       [] kind = "set_mode"     -> SetMode(conv, Now, to, FALSE).patch
                       [] kind = "set_status"   -> SetStatus(to).patch
  BY DEF PatchFor
<1> HIDE DEF kind, to
<1>3. CASE kind = "take_over"
  <2>1. PatchFor(op) = HumanTakeOver(Agent).patch
    BY <1>2, <1>3
  <2> QED
    BY <1>0, <2>1, PatchesAreSafe
<1>4. CASE kind = "return_to_ai"
  <2>1. PatchFor(op) = HumanReturnToAi(FALSE).patch
    BY <1>2, <1>4
  <2> QED
    BY <1>0, <2>1, PatchesAreSafe
<1>5. CASE kind = "message"
  <2>1. PatchFor(op) = HumanMessage(conv, Agent).patch
    BY <1>2, <1>5
  <2> QED
    BY <1>0, <2>1, PatchesAreSafe
<1>6. CASE kind = "assign"
  <2>1. PatchFor(op) = Assign(Agent).patch
    BY <1>2, <1>6
  <2> QED
    BY <1>0, <2>1, PatchesAreSafe
<1>7. CASE kind = "set_mode"
  <2>1. PatchFor(op) = SetMode(conv, Now, to, FALSE).patch
    BY <1>2, <1>7
  <2>2. \A at \in Instants, mode \in Modes, fallback \in BOOLEAN :
          /\ IsPatch(SetMode(conv, at, mode, fallback).patch)
          /\ SafePatch(SetMode(conv, at, mode, fallback).patch)
    BY PatchesAreSafe
  <2>3. to \in Modes
    BY <1>1, <1>7
  <2>4. IsPatch(SetMode(conv, Now, to, FALSE).patch) /\ SafePatch(SetMode(conv, Now, to, FALSE).patch)
    BY <1>0, <2>2, <2>3
  <2> QED
    BY <2>1, <2>4
<1>8. CASE kind = "set_status"
  <2>1. PatchFor(op) = SetStatus(to).patch
    BY <1>2, <1>8
  <2> QED
    BY <1>0, <1>1, <1>8, <2>1, PatchesAreSafe
<1> QED
  BY <1>1, <1>3, <1>4, <1>5, <1>6, <1>7, <1>8

LEMMA RequestDescribed ==
  ASSUME ConversationAssumption, TurnsAssumption, Described, NEW q \in Requests, Request(q)
  PROVE  Described'
<1> USE DEF Described
<1>0. IsPatch(NoPatch) /\ SafePatch(NoPatch)
  BY DEF NoPatch, IsPatch, SafePatch
<1>1. /\ UNCHANGED <<inbound, id, lastId, owed, suggested, acks, job, pc, answer, ending,
                     wrote, replies, delivery>>
      /\ lastBy' \in {lastBy, "human"}
  BY DEF Request, StoreHumanMessage, LoadState, UpdateConversation, Abandon, OthersButConv,
         convVars, mailVars, turnVars
<1>2. conv' \in {conv, Apply(conv, req[q].patch)}
  BY DEF Request, StoreHumanMessage, LoadState, UpdateConversation, Abandon, convVars
<1>3. PICK at \in {"stored", "update", "done"},
           patch \in {NoPatch} \cup {PatchFor(op) : op \in Operations} :
        req' = [req EXCEPT ![q] = [at |-> at, patch |-> patch]]
  BY DEF Request, LoadState, StoreHumanMessage, UpdateConversation, Abandon
<1>3a. IsPatch(patch) /\ SafePatch(patch)
  BY <1>0, PatchForIsSafe DEF TypeOK
<1>4. conv' \in ConversationState /\ FieldsAgree(conv')
  BY <1>2, ApplyType, ApplySafe DEF TypeOK, WaitIsDescribed, RequestsAreSafe
<1>5. /\ DOMAIN req' = Requests
      /\ \A p \in Requests : /\ req'[p].at \in {"idle", "stored", "update", "done"}
                             /\ IsPatch(req'[p].patch) /\ SafePatch(req'[p].patch)
  BY <1>3, <1>3a DEF TypeOK, RequestsAreSafe
<1> QED
  BY <1>1, <1>4, <1>5 DEF TypeOK, WaitIsDescribed, RequestsAreSafe, Begun

LEMMA IdleResolveDescribed ==
  ASSUME ConversationAssumption, Described, IdleResolve
  PROVE  Described'
<1>1. "resolved" \in Statuses
  BY DEF Statuses
<1>2. conv' \in ConversationState /\ FieldsAgree(conv')
  BY <1>1, PatchesAreSafe, ApplyType, ApplySafe
     DEF Described, TypeOK, WaitIsDescribed, IdleResolve
<1> QED
  BY <1>2 DEF Described, TypeOK, WaitIsDescribed, RequestsAreSafe, Begun, IdleResolve,
              mailVars, turnVars

LEMMA DescribedInit ==
  ASSUME ConversationAssumption, TurnsAssumption, Init
  PROVE  Described
<1>1. conv \in ConversationState /\ FieldsAgree(conv)
  BY DEF Init, NewConversation, ConversationState, FieldsAgree, TurnsAssumption, Modes, Statuses
<1>2. IsPatch(NoPatch) /\ SafePatch(NoPatch)
  BY DEF NoPatch, IsPatch, SafePatch
<1>3. 0 \in Runs
  BY HookIsARun DEF Hook
<1>4. TypeOK
  BY <1>1, <1>2, <1>3 DEF Init, TypeOK, RunState, TurnsAssumption
<1> QED
  BY <1>1, <1>2, <1>4 DEF Init, Described, WaitIsDescribed, RequestsAreSafe, Begun

LEMMA DescribedStep ==
  ASSUME ConversationAssumption, TurnsAssumption, Described, [Next]_vars
  PROVE  Described'
<1>1. CASE Worker
  <2>1. PICK e \in Events :
          \/ Inbound(e) \/ Redeliver(e)
          \/ StartRun(e) \/ Stall(e)
          \/ \E r \in Runs : Turn(e, r) \/ Throw(e, r)
          \/ ClearForSending(e) \/ Send(e)
    BY <1>1 DEF Worker
  <2> QED
    BY <2>1, ResolveDescribed, StoreNewDescribed, InboundRestDescribed, QueueDescribed,
       TurnDescribed, DeliveryDescribed DEF Inbound
<1>2. CASE \E q \in Requests : Request(q)
  BY <1>2, RequestDescribed
<1>3. CASE IdleResolve
  BY <1>3, IdleResolveDescribed
<1>4. CASE UNCHANGED vars
  BY <1>4 DEF vars, Described, TypeOK, WaitIsDescribed, RequestsAreSafe, Begun
<1> QED
  BY <1>1, <1>2, <1>3, <1>4 DEF Next

LEMMA AlwaysDescribed ==
  ASSUME ConversationAssumption, TurnsAssumption
  PROVE  Spec => []Described
<1>1. Init => Described
  BY DescribedInit
<1>2. Described /\ [Next]_vars => Described'
  BY DescribedStep
<1> QED
  BY <1>1, <1>2, PTL DEF Spec

(* Every row, job and message of a reachable state is one the code knows,   *)
(* whoever interleaves with whom.                                           *)
THEOREM TypeCorrect ==
  ASSUME ConversationAssumption, TurnsAssumption
  PROVE  Spec => []TypeOK
<1>1. Described => TypeOK
  BY DEF Described
<1> QED
  BY <1>1, AlwaysDescribed, PTL

(* The conversation's waitingHumanSince and handoffReason describe its mode *)
(* although every writer patches the row from a state it read earlier.      *)
THEOREM WaitStaysDescribed ==
  ASSUME ConversationAssumption, TurnsAssumption
  PROVE  Spec => []WaitIsDescribed
<1>1. Described => WaitIsDescribed
  BY DEF Described
<1> QED
  BY <1>1, AlwaysDescribed, PTL

-----------------------------------------------------------------------------
(* What the customer is told, and by whom. *)

(* A step of a run that stores nothing for the customer to read. *)
LEMMA OnlyCommitSpeaks ==
  ASSUME NEW e \in Events, NEW r \in Runs, Turn(e, r), ~Commit(e, r)
  PROVE  UNCHANGED <<replies, delivery>>
BY DEF Turn, Load, Check, Think, StillOwnedAfterThinking, NewerAfterThinking,
       StillOwnedBeforeWrites, RunPendingWrites, NewerBeforeDraft, InsertDraft,
       StillOwnedBeforeCommit, SendLink, SuggestInstead, ReadForHandoff,
       CommitHandoff, OnlyRead

(* Only the commit of a turn stores a reply, and only when none is stored. *)
LEMMA RepliesStep ==
  ASSUME [Next]_vars
  PROVE  \/ UNCHANGED replies
         \/ \E e \in Events, r \in Runs :
              /\ AiMaySend(conv.mode)
              /\ ~Answered(e)
              /\ pc[e][r] = "commit"
              /\ Writes(answer[e][r]) \/ ~NewerTurnOwed(e)
              /\ replies' = replies \cup {[turn |-> e, run |-> r]}
<1>1. CASE \E e \in Events, r \in Runs : Commit(e, r)
  BY <1>1 DEF Commit, StoreReply, OnlyRead, Goto, Finish
<1>2. CASE \E e \in Events, r \in Runs : Turn(e, r) /\ ~Commit(e, r)
  BY <1>2, OnlyCommitSpeaks
<1>3. CASE \E e \in Events :
             \/ Inbound(e) \/ Redeliver(e) \/ StartRun(e) \/ Stall(e)
             \/ \E r \in Runs : Throw(e, r)
  BY <1>3 DEF Inbound, Resolve, StoreDuplicate, StoreNew, MarkProcessed, Redeliver,
              StartRun, Stall, Throw
<1>4. CASE \E e \in Events : ClearForSending(e) \/ Send(e)
  BY <1>4 DEF ClearForSending, Send, DeliveryAt
<1>5. CASE (\E q \in Requests : Request(q)) \/ IdleResolve
  BY <1>5 DEF Request, StoreHumanMessage, LoadState, UpdateConversation, Abandon,
              OthersButConv, IdleResolve
<1>6. CASE UNCHANGED vars
  BY <1>6 DEF vars
<1> QED
  BY <1>1, <1>2, <1>3, <1>4, <1>5, <1>6 DEF Next, Worker

(* The unique turn key of a reply holds against every retry of its turn and *)
(* every stalled run of it that is still going.                             *)
THEOREM RepliesOnce ==
  ASSUME ConversationAssumption, TurnsAssumption
  PROVE  Spec => []OneReplyPerTurn
<1>1. Init => OneReplyPerTurn
  BY DEF Init, OneReplyPerTurn
<1>2. OneReplyPerTurn /\ [Next]_vars => OneReplyPerTurn'
  BY RepliesStep DEF OneReplyPerTurn, Answered
<1> QED
  BY <1>1, <1>2, PTL DEF Spec

(* A reply is stored, and one is cleared for sending, only while the AI is  *)
(* the conversation's owner: the commit asks under the lock, and the        *)
(* delivery asks again.                                                     *)
THEOREM SpeaksOnlyAsOwner ==
  ASSUME ConversationAssumption, TurnsAssumption
  PROVE  Spec => AiSpeaksOnlyAsOwner
<1> DEFINE Cleared == \E e \in Events : delivery[e] # "sending" /\ delivery'[e] = "sending"
<1>1. Described /\ [Next]_vars => (Cleared => AiMaySend(conv.mode))
  <2>1. SUFFICES ASSUME Described, [Next]_vars, NEW f \in Events,
                        delivery[f] # "sending", delivery'[f] = "sending"
                 PROVE  AiMaySend(conv.mode)
    OBVIOUS
  <2>2. delivery' # delivery
    BY <2>1
  <2>0. DOMAIN delivery = Events
    BY <2>1 DEF Described, TypeOK
  <2>3. CASE \E e \in Events, r \in Runs : Turn(e, r)
    <3>1. PICK e \in Events, r \in Runs : Turn(e, r)
      BY <2>3
    <3>2. Commit(e, r)
      BY <2>2, <3>1, OnlyCommitSpeaks
    <3> QED
      BY <2>2, <3>2 DEF Commit, OnlyRead
  <2>4. CASE \E e \in Events : ClearForSending(e) \/ Send(e)
    BY <2>0, <2>1, <2>4 DEF ClearForSending, Send, DeliveryAt
  <2>5. CASE \E e \in Events :
               \/ Inbound(e) \/ Redeliver(e) \/ StartRun(e) \/ Stall(e)
               \/ \E r \in Runs : Throw(e, r)
    BY <2>2, <2>5 DEF Inbound, Resolve, StoreDuplicate, StoreNew, MarkProcessed, Redeliver,
                StartRun, Stall, Throw
  <2>6. CASE (\E q \in Requests : Request(q)) \/ IdleResolve \/ UNCHANGED vars
    BY <2>2, <2>6 DEF Request, StoreHumanMessage, LoadState, UpdateConversation, Abandon,
                OthersButConv, IdleResolve, vars
  <2> QED
    BY <2>1, <2>3, <2>4, <2>5, <2>6 DEF Next, Worker
<1>2. [Next]_vars => (replies' # replies => AiMaySend(conv.mode))
  BY RepliesStep
<1>3. Described /\ [Next]_vars => [ (\/ replies' # replies \/ Cleared) => AiMaySend(conv.mode) ]_vars
  BY <1>1, <1>2
<1> QED
  BY <1>3, AlwaysDescribed, PTL DEF Spec, AiSpeaksOnlyAsOwner

-----------------------------------------------------------------------------
(* What a stored message has coming to it. *)

(* What a step writes down about a message, and nothing takes back. *)
LEMMA LedgerStep ==
  ASSUME Described, [Next]_vars
  PROVE  \/ UNCHANGED <<id, owed>> /\ suggested \subseteq suggested' /\ acks \subseteq acks'
         \/ \E e \in Events : StoreNew(e)
<1>1. CASE \E e \in Events, r \in Runs : Turn(e, r)
  <2>1. PICK e \in Events, r \in Runs : Turn(e, r)
    BY <1>1
  <2>2. suggested \subseteq suggested' /\ acks \subseteq acks'
    BY <2>1 DEF Turn, Load, Check, Think, StillOwnedAfterThinking, NewerAfterThinking,
       StillOwnedBeforeWrites, RunPendingWrites, NewerBeforeDraft, InsertDraft,
       StillOwnedBeforeCommit, Commit, StoreReply, SendLink, SuggestInstead,
       ReadForHandoff, CommitHandoff, OnlyRead, mailVars
  <2> QED
    BY <2>1, <2>2, TurnLeaves
<1>2. CASE \E e \in Events :
             \/ Resolve(e) \/ StoreDuplicate(e) \/ MarkProcessed(e) \/ Redeliver(e)
             \/ StartRun(e) \/ Stall(e) \/ \E r \in Runs : Throw(e, r)
             \/ ClearForSending(e) \/ Send(e)
  BY <1>2 DEF Resolve, StoreDuplicate, MarkProcessed, Redeliver, StartRun, Stall, Throw,
              ClearForSending, Send, DeliveryAt, mailVars
<1>3. CASE (\E q \in Requests : Request(q)) \/ IdleResolve \/ UNCHANGED vars
  BY <1>3 DEF Request, StoreHumanMessage, LoadState, UpdateConversation, Abandon,
              OthersButConv, IdleResolve, mailVars, vars
<1> QED
  BY <1>1, <1>2, <1>3 DEF Next, Worker, Inbound

(* Storing a message numbers it, and leaves every other message alone. *)
LEMMA StoreNewLedger ==
  ASSUME Described, NEW e \in Events, StoreNew(e)
  PROVE  /\ id[e] = 0
         /\ \A f \in Events \ {e} : id'[f] = id[f] /\ owed'[f] = owed[f]
         /\ suggested \subseteq suggested' /\ acks \subseteq acks'
BY DEF StoreNew, Described, TypeOK

(* A run that has just stepped aside saw the newer turn it stepped aside for. *)
LEMMA EndingStep ==
  ASSUME Described, [Next]_vars, NEW e \in Events,
         "superseded" \in ending'[e], "superseded" \notin ending[e]
  PROVE  NewerTurnOwed(e) /\ UNCHANGED <<id, owed>>
<1>0. DOMAIN ending = Events
  BY DEF Described, TypeOK
<1>1. CASE \E f \in Events, r \in Runs : Turn(f, r)
  <2>1. PICK f \in Events, r \in Runs : Turn(f, r)
    BY <1>1
  <2>2. Moves(f, r) /\ UNCHANGED <<id, owed>>
    BY <2>1, TurnMoves, TurnLeaves DEF Described
  <2> QED
    BY <1>0, <2>2 DEF Moves, Goto, Finish
<1>2. CASE ~\E f \in Events, r \in Runs : Turn(f, r)
  <2>1. UNCHANGED ending
    BY <1>2 DEF Next, Worker, Inbound, Resolve, StoreDuplicate, StoreNew, MarkProcessed,
                Redeliver, StartRun, Stall, Throw, ClearForSending, Send, DeliveryAt, Request,
                StoreHumanMessage, LoadState, UpdateConversation, Abandon, OthersButConv,
                IdleResolve, turnVars, vars
  <2> QED
    BY <2>1
<1> QED
  BY <1>1, <1>2

LEMMA StepsAsideStep ==
  ASSUME Described, StepsAsideForATurn, [Next]_vars
  PROVE  StepsAsideForATurn'
<1> SUFFICES ASSUME NEW e \in Events, "superseded" \in ending'[e]
             PROVE  \E f \in Events : id'[f] > id'[e] /\ owed'[f] # "none"
  BY DEF StepsAsideForATurn
<1>1. CASE "superseded" \notin ending[e]
  BY <1>1, EndingStep DEF NewerTurnOwed
<1>2. CASE "superseded" \in ending[e]
  <2>1. PICK f \in Events : id[f] > id[e] /\ owed[f] # "none"
    BY <1>2 DEF StepsAsideForATurn
  <2>2. id[e] # 0 /\ id[f] # 0
    BY <1>2, <2>1 DEF Described, Begun
  <2>3. id'[e] = id[e] /\ id'[f] = id[f] /\ owed'[f] = owed[f]
    BY <2>2, LedgerStep, StoreNewLedger
  <2> QED
    BY <2>1, <2>3
<1> QED
  BY <1>1, <1>2

(* A turn steps aside for a message that has a turn of its own and keeps it. *)
THEOREM StepsAside ==
  ASSUME ConversationAssumption, TurnsAssumption
  PROVE  Spec => []StepsAsideForATurn
<1>1. Init => StepsAsideForATurn
  BY DEF Init, StepsAsideForATurn
<1>2. Described /\ StepsAsideForATurn /\ [Next]_vars => StepsAsideForATurn'
  BY StepsAsideStep
<1> QED
  BY <1>1, <1>2, AlwaysDescribed, PTL DEF Spec

(* Every customer message asks for a turn, a suggestion or a handoff. *)
LEMMA MessageAsks ==
  ASSUME NEW s \in ConversationState, NEW at, NEW isMedia \in BOOLEAN
  PROVE  LET effects == CustomerMessage(s, at, isMedia).effects
         IN  \/ Asks(effects, "run_ai_turn:send") \/ Asks(effects, "run_ai_turn:draft")
             \/ Asks(effects, "run_suggestion") \/ Asks(effects, "send_acknowledgement:handoff")
<1> DEFINE effects == CustomerMessage(s, at, isMedia).effects
<1>1. s.mode \in Modes
  BY DEF ConversationState
<1>2. effects \in {HandoffEffects, <<"run_ai_turn:send">>, <<"run_ai_turn:draft">>,
                   <<"run_suggestion", "notify_agents">>}
  BY <1>1 DEF CustomerMessage, Result, Modes
<1> HIDE DEF effects
<1>3. effects = HandoffEffects => 2 \in DOMAIN effects /\ effects[2] = "send_acknowledgement:handoff"
  BY DEF HandoffEffects
<1>4. effects # HandoffEffects =>
        1 \in DOMAIN effects /\ effects[1] \in {"run_ai_turn:send", "run_ai_turn:draft", "run_suggestion"}
  BY <1>2
<1>5. \/ Asks(effects, "run_ai_turn:send") \/ Asks(effects, "run_ai_turn:draft")
      \/ Asks(effects, "run_suggestion") \/ Asks(effects, "send_acknowledgement:handoff")
  BY <1>3, <1>4 DEF Asks
<1> QED
  BY <1>5 DEF effects

LEMMA PromisedStep ==
  ASSUME TurnsAssumption, Described, StoredMeansPromised, [Next]_vars
  PROVE  StoredMeansPromised'
<1>1. CASE UNCHANGED <<id, owed>> /\ suggested \subseteq suggested' /\ acks \subseteq acks'
  BY <1>1 DEF StoredMeansPromised
<1>2. CASE \E e \in Events : StoreNew(e)
  <2>1. PICK e \in Events : StoreNew(e)
    BY <1>2
  <2> DEFINE isMedia == e \in MediaEvents
             effects == CustomerMessage(conv, e, isMedia).effects
             send == Asks(effects, "run_ai_turn:send")
             draft == Asks(effects, "run_ai_turn:draft")
             suggests == Asks(effects, "run_suggestion")
             acked == Asks(effects, "send_acknowledgement:handoff")
  <2>2. /\ owed' = [owed EXCEPT ![e] = CASE send -> "send" [] draft -> "draft" [] OTHER -> "none"]
        /\ suggested' = IF suggests THEN suggested \cup {e} ELSE suggested
        /\ acks' = IF acked THEN acks \cup {e} ELSE acks
    BY <2>1 DEF StoreNew
  <2>3. send \/ draft \/ suggests \/ acked
    <3>1. conv \in ConversationState /\ isMedia \in BOOLEAN
      BY DEF Described, TypeOK
    <3> HIDE DEF isMedia
    <3> QED
      BY <3>1, MessageAsks
  <2>4. send \in BOOLEAN /\ draft \in BOOLEAN /\ suggests \in BOOLEAN /\ acked \in BOOLEAN
    BY DEF Asks
  <2> HIDE DEF send, draft, suggests, acked
  <2>5. DOMAIN owed = Events
    BY DEF Described, TypeOK
  <2>6. send \/ draft => owed'[e] # "none"
    BY <2>2, <2>4, <2>5
  <2>7. owed'[e] # "none" \/ e \in suggested' \/ e \in acks'
    BY <2>2, <2>3, <2>6
  <2> QED
    BY <2>1, <2>7, StoreNewLedger DEF StoredMeansPromised
<1> QED
  BY <1>1, <1>2, LedgerStep

(* inbound.ts:179-180, for every interleaving: a message that is in the     *)
(* thread has its turn, its suggestion or its handoff coming, and keeps it. *)
THEOREM Promised ==
  ASSUME ConversationAssumption, TurnsAssumption
  PROVE  Spec => []StoredMeansPromised
<1>1. Init => StoredMeansPromised
  BY DEF Init, StoredMeansPromised
<1>2. Described /\ StoredMeansPromised /\ [Next]_vars => StoredMeansPromised'
  BY PromisedStep
<1> QED
  BY <1>1, <1>2, AlwaysDescribed, PTL DEF Spec

-----------------------------------------------------------------------------
(* Which message a reply answers. *)

(* An answer that asked for writes has carried them out by the time it may  *)
(* become a reply: the steps between are passed only through the writes.    *)
WritesComeFirst ==
  \A e \in Events, r \in Runs :
    pc[e][r] \in {"owned3", "commit"} /\ Writes(answer[e][r]) => e \in wrote

LEMMA WritesComeFirstTurn ==
  ASSUME Described, WritesComeFirst, NEW e \in Events, NEW r \in Runs, Turn(e, r)
  PROVE  WritesComeFirst'
<1>0. /\ pc \in [Events -> [Runs -> RunState]]
      /\ answer \in [Events -> [Runs -> Answers \cup {NoAnswer}]]
  BY DEF Described, TypeOK
<1>1. \A f \in Events, n \in Runs : <<f, n>> # <<e, r>> => pc'[f][n] = pc[f][n]
  BY <1>0, TurnMoves DEF Described, Moves, Goto, Finish
<1>2. wrote \subseteq wrote'
  BY DEF Turn, Load, Check, Think, StillOwnedAfterThinking, NewerAfterThinking,
         StillOwnedBeforeWrites, RunPendingWrites, NewerBeforeDraft, InsertDraft,
         StillOwnedBeforeCommit, Commit, StoreReply, SendLink, SuggestInstead,
         ReadForHandoff, CommitHandoff, OnlyRead
<1>3. answer' = answer \/ Think(e, r)
  BY DEF Turn, Load, Check, StillOwnedAfterThinking, NewerAfterThinking,
         StillOwnedBeforeWrites, RunPendingWrites, NewerBeforeDraft, InsertDraft,
         StillOwnedBeforeCommit, Commit, StoreReply, SendLink, SuggestInstead,
         ReadForHandoff, CommitHandoff, OnlyRead
<1>4. \A f \in Events, n \in Runs : <<f, n>> # <<e, r>> => answer'[f][n] = answer[f][n]
  BY <1>0, <1>3 DEF Think
<1>5. pc'[e][r] \in {"owned3", "commit"} /\ Writes(answer'[e][r]) => e \in wrote'
  <2>1. CASE NewerAfterThinking(e, r)
    <3>1. answer' = answer
      BY <2>1 DEF NewerAfterThinking, OnlyRead
    <3>2. CASE Finish(e, r, "newer1", "superseded") \/ Finish(e, r, "newer1", "silent")
      BY <1>0, <3>2 DEF Finish
    <3>3. CASE Goto(e, r, "newer1", CASE answer[e][r] = "handoff" -> "hand"
                                      [] Writes(answer[e][r]) -> "owned2"
                                      [] OTHER -> AfterAnswer(e, r))
      <4>1. Writes(answer[e][r]) => answer[e][r] # "handoff"
        BY DEF Writes
      <4>2. Writes(answer[e][r]) => pc'[e][r] = "owned2"
        BY <1>0, <3>3, <4>1 DEF Goto
      <4> QED
        BY <3>1, <4>2
    <3> QED
      BY <2>1, <3>2, <3>3 DEF NewerAfterThinking
  <2>2. CASE RunPendingWrites(e, r)
    BY <1>0, <2>2 DEF RunPendingWrites, Goto
  <2>3. CASE Think(e, r)
    BY <1>0, <2>3 DEF Think, Goto
  <2>4. CASE StillOwnedBeforeCommit(e, r)
    BY <1>0, <2>4 DEF StillOwnedBeforeCommit, Goto, OnlyRead, WritesComeFirst
  <2>5. CASE Load(e, r) \/ Check(e, r) \/ StillOwnedAfterThinking(e, r)
    BY <1>0, <2>5 DEF Load, Check, StillOwnedAfterThinking, Goto, Finish
  <2>6. CASE StillOwnedBeforeWrites(e, r) \/ NewerBeforeDraft(e, r) \/ InsertDraft(e, r)
    BY <1>0, <2>6 DEF StillOwnedBeforeWrites, NewerBeforeDraft, InsertDraft, Goto, Finish
  <2>7. CASE Commit(e, r) \/ SendLink(e, r)
    BY <1>0, <2>7 DEF Commit, StoreReply, SendLink, Goto, Finish
  <2>8. CASE SuggestInstead(e, r) \/ ReadForHandoff(e, r) \/ CommitHandoff(e, r)
    BY <1>0, <2>8 DEF SuggestInstead, ReadForHandoff, CommitHandoff, Goto, Finish
  <2> QED
    BY <2>1, <2>2, <2>3, <2>4, <2>5, <2>6, <2>7, <2>8 DEF Turn
<1> QED
  BY <1>1, <1>2, <1>4, <1>5 DEF WritesComeFirst

(* The queue only starts runs, ends them, and sends the hook to the handoff. *)
LEMMA QueueMovesRuns ==
  ASSUME TurnsAssumption, Described, NEW e \in Events,
         StartRun(e) \/ Stall(e) \/ \E r \in Runs : Throw(e, r)
  PROVE  /\ \A f \in Events, n \in Runs :
              pc'[f][n] = pc[f][n] \/ pc'[f][n] \in {"load", "dead", "hand"}
         /\ UNCHANGED <<answer, wrote>>
<1>0. pc \in [Events -> [Runs -> RunState]] /\ Hook \in Runs
  BY HookIsARun DEF Described, TypeOK
<1>1. CASE StartRun(e)
  BY <1>0, <1>1 DEF StartRun
<1>2. CASE Stall(e)
  <2>1. PICK after \in {pc, [pc EXCEPT ![e][job[e].runs] = "dead"]} :
          pc' = after \/ pc' = [after EXCEPT ![e][Hook] = "hand"]
    BY <1>2 DEF Stall, GiveUp
  <2>2. UNCHANGED <<answer, wrote>>
    BY <1>2 DEF Stall
  <2> QED
    BY <1>0, <2>1, <2>2
<1>3. CASE \E r \in Runs : Throw(e, r)
  <2>1. PICK r \in Runs : Throw(e, r)
    BY <1>3
  <2> DEFINE dead == [pc EXCEPT ![e][r] = "dead"]
  <2>2. pc' = dead \/ pc' = [dead EXCEPT ![e][Hook] = "hand"]
    BY <2>1 DEF Throw, GiveUp
  <2>3. UNCHANGED <<answer, wrote>>
    BY <2>1 DEF Throw
  <2> QED
    BY <1>0, <2>2, <2>3
<1> QED
  BY <1>1, <1>2, <1>3

LEMMA WritesComeFirstStep ==
  ASSUME TurnsAssumption, Described, WritesComeFirst, [Next]_vars
  PROVE  WritesComeFirst'
<1>1. CASE \E e \in Events, r \in Runs : Turn(e, r)
  BY <1>1, WritesComeFirstTurn
<1>2. CASE \E e \in Events : StartRun(e) \/ Stall(e) \/ \E r \in Runs : Throw(e, r)
  <2>1. /\ \A f \in Events, n \in Runs :
             pc'[f][n] = pc[f][n] \/ pc'[f][n] \in {"load", "dead", "hand"}
        /\ UNCHANGED <<answer, wrote>>
    BY <1>2, QueueMovesRuns
  <2> QED
    BY <2>1 DEF WritesComeFirst
<1>3. CASE \E e \in Events : Inbound(e) \/ Redeliver(e) \/ ClearForSending(e) \/ Send(e)
  <2>1. UNCHANGED <<pc, answer, wrote>>
    BY <1>3 DEF Inbound, Resolve, StoreDuplicate, StoreNew, MarkProcessed, Redeliver,
                ClearForSending, Send, DeliveryAt, turnVars
  <2> QED
    BY <2>1 DEF WritesComeFirst
<1>4. CASE (\E q \in Requests : Request(q)) \/ IdleResolve \/ UNCHANGED vars
  <2>1. UNCHANGED <<pc, answer, wrote>>
    BY <1>4 DEF Request, StoreHumanMessage, LoadState, UpdateConversation, Abandon,
                OthersButConv, IdleResolve, turnVars, vars
  <2> QED
    BY <2>1 DEF WritesComeFirst
<1> QED
  BY <1>1, <1>2, <1>3, <1>4 DEF Next, Worker

(* The reply that is stored answers the newest message the AI owes a turn,  *)
(* or is the only account the customer gets of what has been written.       *)
THEOREM AnswersTheNewest ==
  ASSUME ConversationAssumption, TurnsAssumption
  PROVE  Spec => RepliesToTheNewest
<1>1. Init => WritesComeFirst
  BY DEF Init, WritesComeFirst
<1>2. Described /\ WritesComeFirst /\ [Next]_vars => WritesComeFirst'
  BY WritesComeFirstStep
<1>3. WritesComeFirst /\ [Next]_vars =>
        [ \A reply \in replies' \ replies :
            ~NewerTurnOwed(reply.turn) \/ reply.turn \in wrote ]_vars
  BY RepliesStep DEF WritesComeFirst
<1> QED
  BY <1>1, <1>2, <1>3, AlwaysDescribed, PTL DEF Spec, RepliesToTheNewest
==============================================================================
