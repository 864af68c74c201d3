------------------------------- MODULE Agent -------------------------------
(***************************************************************************)
(* One AI turn from the inside: the model is asked, first of the slot's    *)
(* primary provider and then of its fallback (runWithFallback), and calls  *)
(* tools step by step.  What reads runs at once, what writes is put down   *)
(* in the attempt's scratchpad and fired at the tenant's system once an    *)
(* attempt has answered (runPendingWrites), each operation under a key the *)
(* tenant knows it by.  The job may crash anywhere and run again, and the  *)
(* model need not ask for the same things twice.                           *)
(*                                                                         *)
(* Who owns the conversation meanwhile is the matter of module Turns.      *)
(***************************************************************************)
EXTENDS Naturals, Sequences, FiniteSets, SequencesExt

CONSTANTS
  HttpWrites,   \* operations the model may ask for: HTTP tools that write, with arguments
  McpWrites,    \* ... and tools of MCP servers that do
  SubjectBound, \* of those, the ones a proven identity is bound into
  HasFallback,  \* whether the slot has a fallback
  MaxSteps,     \* generateText stops after so many tool calls
  MaxRuns,      \* bound: times the job runs
  MaxRefusals   \* bound: calls the tenant's system refuses or whose answer is lost

Operations == HttpWrites \cup McpWrites

ASSUME AgentAssumption ==
  /\ SubjectBound \subseteq Operations /\ HasFallback \in BOOLEAN
  /\ MaxSteps \in Nat /\ MaxRuns \in Nat /\ MaxRefusals \in Nat

VARIABLES
  mode,     \* "answer" or "suggest"
  proved,   \* whether the conversation has a proven identity
  turn,     \* how far the job is, and which run and provider it is in
  pad,      \* the scratchpad of the attempt
  carried,  \* runPendingWrites: what it still has to fire, and what it has
  tenant,   \* the keys the tenant's system has answered, and what it carried out
  agreed,    \* operations of every attempt that answered
  told,     \* what the note to the colleague says was carried out, once there is one
  refusals

agent == <<mode, proved, turn, pad, carried, tenant, agreed, told, refusals>>

\* Every attempt starts from a clean scratchpad.
NoPad == [handoff |-> FALSE, toolError |-> FALSE, link |-> FALSE, writes |-> << >>, steps |-> 0]
NothingCarried == [left |-> << >>, done |-> << >>, again |-> FALSE]

GoOn(s) == turn' = [turn EXCEPT !.at = s]
Asking == turn.at = "asking" /\ pad.steps < MaxSteps

\* What the model is offered: a draft may change nothing, and a tool that needs an identity
\* nobody has proved is left out.
Offered == {o \in Operations : mode = "answer" /\ (o \in SubjectBound => proved)}

(* A slip: a write is known by its place in the turn. *)
KeyByPlace(writes, i) == i

\* An operation is known by the turn, the tool and the arguments, wherever in the list it stands.
KeyOf(writes, i) == writes[i]

AgentInit ==
  /\ mode \in {"answer", "suggest"} /\ proved \in BOOLEAN
  /\ turn = [at |-> "asking", run |-> 1, target |-> "primary"]
  /\ pad = NoPad /\ carried = NothingCarried
  /\ tenant = [keys |-> {}, landed |-> [o \in Operations |-> 0]]
  /\ agreed = {} /\ told = {} /\ refusals = 0

-----------------------------------------------------------------------------
(* The attempt.                                                             *)

CallTool(p) ==
  /\ Asking
  /\ pad' = [p EXCEPT !.steps = pad.steps + 1]
  /\ UNCHANGED <<mode, proved, turn, carried, tenant, agreed, told, refusals>>

\* A tool that writes: recorded, not run.
AskWrite(o) == o \in Offered /\ CallTool([pad EXCEPT !.writes = Append(@, o)])

\* A lookup that answers, or arguments the schema refuses: the model has the step to show for it.
LookUp == CallTool(pad)

\* A lookup the tenant's system does not answer, or an MCP server says failed.
LookUpFails == CallTool([pad EXCEPT !.toolError = TRUE])

AskForPerson == CallTool([pad EXCEPT !.handoff = TRUE])

AskForLink == mode = "answer" /\ ~proved /\ CallTool([pad EXCEPT !.link = TRUE])

\* The provider fails or times out: the fallback begins anew, or the turn goes to a person.
ProviderFails ==
  /\ turn.at = "asking"
  /\ pad' = NoPad
  /\ IF turn.target = "primary" /\ HasFallback
     THEN turn' = [turn EXCEPT !.target = "fallback"]
     ELSE GoOn("handed")
  /\ UNCHANGED <<mode, proved, carried, tenant, agreed, told, refusals>>

\* The model is done.  A person agreed for, or a tool that failed, ends the turn whatever was
\* written; so does an answer without text once the writes are fired.
Answers ==
  /\ turn.at = "asking"
  /\ IF pad.handoff \/ pad.toolError
     THEN GoOn("handed") /\ UNCHANGED <<carried, agreed>>
     ELSE /\ GoOn("firing")
          /\ agreed' = agreed \cup ToSet(pad.writes)
          /\ carried' = [NothingCarried EXCEPT !.left = [i \in DOMAIN pad.writes |-> i]]
  /\ UNCHANGED <<mode, proved, pad, tenant, told, refusals>>

-----------------------------------------------------------------------------
(* runPendingWrites.                                                        *)

Firing == turn.at = "firing" /\ carried.left # << >>
NextWrite == pad.writes[Head(carried.left)]
FiringKey == KeyOf(pad.writes, Head(carried.left))

\* The tenant's system carries an operation out unless it has answered its key before.
Reaches ==
  IF FiringKey \in tenant.keys
  THEN UNCHANGED tenant
  ELSE tenant' = [keys |-> tenant.keys \cup {FiringKey},
                  landed |-> [tenant.landed EXCEPT ![NextWrite] = @ + 1]]

Fire ==
  /\ Firing /\ Reaches
  /\ carried' = [left |-> Tail(carried.left), done |-> Append(carried.done, NextWrite), again |-> FALSE]
  /\ UNCHANGED <<mode, proved, turn, pad, agreed, told, refusals>>

\* An MCP server answers 401: the sign-in is refreshed and the call made once more.
Reauthorise ==
  /\ Firing /\ NextWrite \in McpWrites /\ ~carried.again /\ refusals < MaxRefusals
  /\ carried' = [carried EXCEPT !.again = TRUE]
  /\ refusals' = refusals + 1
  /\ UNCHANGED <<mode, proved, turn, pad, tenant, agreed, told>>

\* A write fails, or its answer is lost on the way back: the rest is left, the reply is held
\* back and the note names what succeeded.
FireFails ==
  /\ Firing /\ refusals < MaxRefusals
  /\ Reaches \/ UNCHANGED tenant
  /\ refusals' = refusals + 1
  /\ told' = {ToSet(carried.done)}
  /\ GoOn("handed")
  /\ UNCHANGED <<mode, proved, pad, carried, agreed>>

\* The reply is stored, or the draft.
SendReply ==
  /\ turn.at = "firing" /\ carried.left = << >>
  /\ GoOn("sent")
  /\ UNCHANGED <<mode, proved, pad, carried, tenant, agreed, told, refusals>>

\* The answer was empty: a person is told, and of the writes that were carried out.  A draft
\* without text is no draft, and nobody is told.
EmptyReply ==
  /\ turn.at = "firing" /\ carried.left = << >>
  /\ GoOn(IF mode = "answer" THEN "handed" ELSE "quiet")
  /\ told' = IF mode = "answer" THEN {ToSet(carried.done)} ELSE told
  /\ UNCHANGED <<mode, proved, pad, carried, tenant, agreed, refusals>>

\* The process dies; the queue runs the job again, under the same turn key.
CrashAgent ==
  /\ turn.at \in {"asking", "firing"} /\ turn.run < MaxRuns
  /\ turn' = [at |-> "asking", run |-> turn.run + 1, target |-> "primary"]
  /\ pad' = NoPad /\ carried' = NothingCarried
  /\ UNCHANGED <<mode, proved, tenant, agreed, told, refusals>>

-----------------------------------------------------------------------------
AgentNext ==
  \/ \E o \in Operations : AskWrite(o)
  \/ LookUp \/ LookUpFails \/ AskForPerson \/ AskForLink \/ ProviderFails \/ Answers
  \/ Fire \/ Reauthorise \/ FireFails \/ SendReply \/ EmptyReply \/ CrashAgent

AgentSpec == AgentInit /\ [][AgentNext]_agent

-----------------------------------------------------------------------------
(* What is promised.                                                        *)

\* The type invariant of the turn, its scratchpad and the tenant's system.
AgentTypeOK ==
  /\ mode \in {"answer", "suggest"} /\ proved \in BOOLEAN
  /\ turn \in [at : {"asking", "firing", "sent", "handed", "quiet"}, run : Nat,
               target : {"primary", "fallback"}]
  /\ pad \in [handoff : BOOLEAN, toolError : BOOLEAN, link : BOOLEAN,
              writes : Seq(Operations), steps : 0 .. MaxSteps]
  /\ carried.left \in Seq(DOMAIN pad.writes) /\ carried.done \in Seq(Operations)
  /\ carried.again \in BOOLEAN
  /\ DOMAIN tenant.landed = Operations
  /\ agreed \subseteq Operations /\ told \subseteq SUBSET Operations /\ refusals \in Nat

\* Whatever crashes, lost answers and changes of mind lie between, no operation is carried out
\* twice, none is that only an attempt without an answer agreed for, and a reply that goes out
\* after its writes goes out with every one of them carried out ("which is how a refund gets
\* issued twice", tools.ts; "only the attempt that produced the answer contributes", agent.ts).
RepliesKeepTheirWord ==
  /\ \A o \in Operations : tenant.landed[o] <= 1
  /\ \A o \in Operations : tenant.landed[o] > 0 => o \in agreed
  /\ turn.at = "sent" => \A o \in ToSet(pad.writes) : tenant.landed[o] = 1

\* A note after a failed write names whatever was carried out ("These were already carried out
\* ... Nothing was carried out", describeWriteFailure).  A write that was carried out and whose
\* answer was lost is not named.
NotesNameWhatWasDone ==
  \A note \in told : \A o \in Operations : tenant.landed[o] > 0 => o \in note
=============================================================================
