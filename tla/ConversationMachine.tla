------------------------- MODULE ConversationMachine -------------------------
(***************************************************************************)
(* One conversation whose events are applied one at a time, each on the    *)
(* state it was computed from: what the state machine promises before      *)
(* concurrency is let in.  The modules about the worker and the API say    *)
(* which of these promises survive it.                                     *)
(***************************************************************************)
EXTENDS Conversation

CONSTANTS DefaultMode,   \* the mode a conversation begins in, and begins again in
          Fallback       \* TRUE where waitingHumanFallbackMinutes is set

(* A workspace may choose waiting_human as its default; a conversation then *)
(* begins in a wait with no instant and no timer, which is not modelled.    *)
ASSUME MachineAssumption ==
  /\ DefaultMode \in Modes \ {"waiting_human"}
  /\ Fallback \in BOOLEAN

VARIABLES conv,      \* the conversation
          effects    \* what the last event asked for

vars == <<conv, effects>>

Init ==
  /\ conv = NewConversation(DefaultMode, NoUser)
  /\ effects = <<>>

Take(result) ==
  /\ conv' = Apply(conv, result.patch)
  /\ effects' = result.effects

(* An inbound event is resolved to its conversation, then put to the machine. *)
CustomerWrites ==
  \E at \in Instants, isMedia \in BOOLEAN, owner \in Users \cup {NoUser} :
    LET c == Reopened(conv, DefaultMode, owner)
        r == CustomerMessage(c, at, isMedia)
    IN  /\ conv' = Apply(c, r.patch)
        /\ effects' = r.effects

AiGivesUp ==
  \E at \in Instants, reason \in Reasons : Take(AiHandoff(conv, at, reason, Fallback))

AgentTakesOver   == \E user \in Users : Take(HumanTakeOver(user))
AgentReturnsToAi == \E withNote \in BOOLEAN : Take(HumanReturnToAi(withNote))
AgentReplies     == \E user \in Users : Take(HumanMessage(conv, user))
AgentAssigns     == \E user \in Users \cup {NoUser} : Take(Assign(user))
AgentSetsMode    == \E at \in Instants, mode \in Modes : Take(SetMode(conv, at, mode, Fallback))
AgentSetsStatus  == \E status \in Statuses : Take(SetStatus(status))
TimerFires       == Take(WaitingHumanTimeout(conv))

Next ==
  \/ CustomerWrites \/ AiGivesUp
  \/ AgentTakesOver \/ AgentReturnsToAi \/ AgentReplies
  \/ AgentAssigns \/ AgentSetsMode \/ AgentSetsStatus
  \/ TimerFires

Spec == Init /\ [][Next]_vars

-----------------------------------------------------------------------------

Asks(list, effect) == \E k \in DOMAIN list : list[k] = effect
AsksNone(list, unwanted) == \A k \in DOMAIN list : list[k] \notin unwanted

TypeOK ==
  /\ conv \in ConversationState
  /\ effects \in Seq(Effects)

(* The instant of the wait and the reason of the handoff describe the mode *)
(* they are stored with, after any history of events.                      *)
WaitIsDescribed == FieldsAgree(conv)

(* state-machine.ts:11-12: while the mode is `human` no effect may send the *)
(* customer anything.  A customer who writes to a resolved conversation      *)
(* begins it again, which is what ends the ownership there.                  *)
NothingIsSentOverHuman ==
  conv.mode = "human" /\ conv.status # "resolved" => AsksNone(effects', SendingEffects)

HumanIsNeverSpokenOver == [][NothingIsSentOverHuman]_vars

(* A conversation that stops waiting takes its fallback timer back, so that *)
(* no timer of an old wait is left to fire in a later one; a resolved one    *)
(* gave its timer back when it was resolved.                                 *)
WaitEnds ==
  conv.mode = "waiting_human" /\ conv'.mode # "waiting_human" /\ conv.status # "resolved"

EndOfWaitCancelsTimer == [][WaitEnds => Asks(effects', "cancel_waiting_human_timeout")]_vars

(* docs/ARCHITECTURE.md:27 says of waiting_human that if nobody has picked  *)
(* the conversation up in time "the timer sends stillWaitingText": whatever *)
(* begins a wait schedules the timer, where one is configured.              *)
WaitBegins == conv.mode # "waiting_human" /\ conv'.mode = "waiting_human"

EveryWaitIsTimed ==
  [][Fallback /\ WaitBegins => Asks(effects', "schedule_waiting_human_timeout")]_vars
=============================================================================
