---------------------------- MODULE Conversation ----------------------------
(***************************************************************************)
(* The conversation state machine of packages/core: a pure function from a *)
(* conversation's state and an event to the fields that change (the patch) *)
(* and the work that follows (the effects).  Nothing here is a transition  *)
(* of a system: the modules that model the worker and the API apply the    *)
(* patch to the row and carry the effects out, each in its own way.        *)
(***************************************************************************)
EXTENDS Sequences

CONSTANTS Users,      \* the agents of the workspace
          NoUser,     \* a conversation nobody is assigned to
          Instants,   \* the instants an event may carry
          NoInstant   \* waitingHumanSince = null

ASSUME ConversationAssumption ==
  /\ NoUser \notin Users
  /\ NoInstant \notin Instants

Modes    == {"ai", "ai_supervised", "human", "waiting_human"}
Statuses == {"open", "snoozed", "resolved"}
NoReason == "none"
Reasons  ==
  {"ai_requested", "customer_requested", "low_confidence", "negative_sentiment",
   "keyword_rule", "unsupported_media", "tool_error", "model_error"}

ConversationState ==
  [mode              : Modes,
   status            : Statuses,
   assigneeUserId    : Users \cup {NoUser},
   waitingHumanSince : Instants \cup {NoInstant},
   handoffReason     : Reasons \cup {NoReason}]

(* The effects, by name: the two deliveries of run_ai_turn and the two     *)
(* texts of send_acknowledgement are told apart, every other parameter is  *)
(* abstracted.                                                             *)
Effects ==
  {"run_ai_turn:send", "run_ai_turn:draft", "run_suggestion",
   "send_acknowledgement:handoff", "send_acknowledgement:still_waiting",
   "record_handoff", "add_internal_note", "notify_agents",
   "schedule_waiting_human_timeout", "cancel_waiting_human_timeout",
   "enqueue_summary"}

(* The effects at the end of which the customer reads something nobody has *)
(* approved.                                                               *)
SendingEffects ==
  {"run_ai_turn:send", "send_acknowledgement:handoff",
   "send_acknowledgement:still_waiting"}

Result(patch, effects) == [patch |-> patch, effects |-> effects]
NoPatch == [f \in {} |-> NoReason]
Ignored == Result(NoPatch, <<>>)

(* UPDATE ... SET patch: the columns the patch names, and no others. *)
Apply(c, patch) ==
  [f \in DOMAIN c |-> IF f \in DOMAIN patch THEN patch[f] ELSE c[f]]

(* True when the AI is allowed to produce a reply that reaches the customer. *)
AiMaySend(mode) == mode = "ai"

HandoffPatch(at, reason) ==
  [mode |-> "waiting_human", handoffReason |-> reason, waitingHumanSince |-> at]

HandoffEffects ==
  <<"record_handoff", "send_acknowledgement:handoff", "add_internal_note", "notify_agents">>

(* The fallback timer is asked for only where the workspace configures one. *)
Schedule(fallback) == IF fallback THEN <<"schedule_waiting_human_timeout">> ELSE <<>>

(* A customer message that has been stored; `isMedia` is what the AI cannot read. *)
CustomerMessage(s, at, isMedia) ==
  CASE s.mode = "ai" /\ isMedia -> Result(HandoffPatch(at, "unsupported_media"), HandoffEffects)
    [] s.mode = "ai" /\ ~isMedia -> Result(NoPatch, <<"run_ai_turn:send">>)
    [] s.mode = "ai_supervised" -> Result(NoPatch, <<"run_ai_turn:draft">>)
    [] s.mode \in {"human", "waiting_human"} ->
         Result(NoPatch, <<"run_suggestion", "notify_agents">>)

(* A slip: only a conversation already waiting ignores the handoff. *)
AiHandoffOverHuman(s, at, reason, fallback) ==
  IF s.mode = "waiting_human"
    THEN Ignored
    ELSE Result(HandoffPatch(at, reason), HandoffEffects \o Schedule(fallback))

(* The AI gives up; ignored once a person owns the conversation or is awaited. *)
AiHandoff(s, at, reason, fallback) ==
  IF s.mode \in {"human", "waiting_human"}
    THEN Ignored
    ELSE Result(HandoffPatch(at, reason), HandoffEffects \o Schedule(fallback))

HumanTakeOver(user) ==
  Result([mode |-> "human", assigneeUserId |-> user, waitingHumanSince |-> NoInstant],
         <<"cancel_waiting_human_timeout">>)

HumanReturnToAi(withNote) ==
  Result([mode |-> "ai", waitingHumanSince |-> NoInstant, handoffReason |-> NoReason],
         <<"cancel_waiting_human_timeout">>
           \o IF withNote THEN <<"add_internal_note">> ELSE <<>>)

(* A slip: the reply takes the conversation over and forgets the wait it ends. *)
HumanMessageKeepsWait(s, user) ==
  Result([mode |-> "human",
          assigneeUserId |-> IF s.assigneeUserId = NoUser THEN user ELSE s.assigneeUserId,
          status |-> IF s.status = "resolved" THEN "open" ELSE s.status],
         <<"cancel_waiting_human_timeout">>)

(* Written back from the state that was read: the assignee and the status. *)
HumanMessage(s, user) ==
  Result([mode |-> "human",
          assigneeUserId |-> IF s.assigneeUserId = NoUser THEN user ELSE s.assigneeUserId,
          waitingHumanSince |-> NoInstant,
          status |-> IF s.status = "resolved" THEN "open" ELSE s.status],
         <<"cancel_waiting_human_timeout">>)

Assign(user) == Result([assigneeUserId |-> user], <<>>)

(* A slip: with a fallback configured, no mode chosen by hand cancels the timer. *)
SetModeKeepsTimer(s, at, mode, fallback) ==
  Result([mode |-> mode,
          waitingHumanSince |-> IF mode = "waiting_human" THEN at ELSE NoInstant,
          handoffReason |-> IF mode = "ai" THEN NoReason ELSE s.handoffReason],
         IF fallback THEN Schedule(mode = "waiting_human") ELSE <<"cancel_waiting_human_timeout">>)

(* Written back from the state that was read: the handoff reason. *)
SetMode(s, at, mode, fallback) ==
  Result([mode |-> mode,
          waitingHumanSince |-> IF mode = "waiting_human" THEN at ELSE NoInstant,
          handoffReason |-> IF mode = "ai" THEN NoReason ELSE s.handoffReason],
         IF mode = "waiting_human" /\ fallback
           THEN Schedule(TRUE)
           ELSE <<"cancel_waiting_human_timeout">>)

SetStatus(status) ==
  Result([status |-> status],
         IF status = "resolved"
           THEN <<"cancel_waiting_human_timeout", "enqueue_summary">>
           ELSE <<>>)

(* The fallback timer fired: the customer is told that somebody will come. *)
WaitingHumanTimeout(s) ==
  IF s.mode = "waiting_human"
    THEN Result(NoPatch, <<"send_acknowledgement:still_waiting", "notify_agents">>)
    ELSE Ignored

(* An inbound event finds its conversation.  A resolved one begins again, in *)
(* the mode a new one begins in and for the owner the customer has by then;  *)
(* any other is left as it is.                                               *)
Reopened(c, defaultMode, owner) ==
  IF c.status # "resolved"
    THEN c
    ELSE [mode              |-> defaultMode,
          status            |-> "open",
          assigneeUserId    |-> IF owner = NoUser THEN c.assigneeUserId ELSE owner,
          waitingHumanSince |-> NoInstant,
          handoffReason     |-> NoReason]

(* The conversation of an identity that has never written before. *)
NewConversation(defaultMode, owner) ==
  [mode |-> defaultMode, status |-> "open", assigneeUserId |-> owner,
   waitingHumanSince |-> NoInstant, handoffReason |-> NoReason]

-----------------------------------------------------------------------------

(* A patch names fields of the conversation and gives them values of their type. *)
IsPatch(p) ==
  /\ DOMAIN p \subseteq {"mode", "status", "assigneeUserId", "waitingHumanSince", "handoffReason"}
  /\ "mode" \in DOMAIN p => p.mode \in Modes
  /\ "status" \in DOMAIN p => p.status \in Statuses
  /\ "assigneeUserId" \in DOMAIN p => p.assigneeUserId \in Users \cup {NoUser}
  /\ "waitingHumanSince" \in DOMAIN p => p.waitingHumanSince \in Instants \cup {NoInstant}
  /\ "handoffReason" \in DOMAIN p => p.handoffReason \in Reasons \cup {NoReason}

(* The fields that describe the wait agree with the mode. *)
FieldsAgree(c) ==
  /\ c.mode = "waiting_human" <=> c.waitingHumanSince # NoInstant
  /\ c.mode = "ai" => c.handoffReason = NoReason

(* A patch after which the fields agree, whatever the row it lands on: the *)
(* columns it does not name may have been written by somebody else since   *)
(* the state it was computed from was read.                                *)
SafePatch(p) ==
  /\ "mode" \in DOMAIN p =>
       /\ "waitingHumanSince" \in DOMAIN p
       /\ p.mode = "waiting_human" <=> p.waitingHumanSince # NoInstant
       /\ p.mode = "ai" => "handoffReason" \in DOMAIN p /\ p.handoffReason = NoReason
  /\ "mode" \notin DOMAIN p =>
       "waitingHumanSince" \notin DOMAIN p /\ "handoffReason" \notin DOMAIN p
=============================================================================
