------------------------- MODULE ConversationLemmas -------------------------
(***************************************************************************)
(* What the patches and effects of the state machine guarantee, for every  *)
(* set of agents and instants.  The proofs about one conversation taken an *)
(* event at a time, and about one that everybody writes to at once, rest   *)
(* on these lemmas.                                                        *)
(***************************************************************************)
EXTENDS Conversation, TLAPS

Fields == {"mode", "status", "assigneeUserId", "waitingHumanSince", "handoffReason"}

(* A patch applied to a conversation leaves a conversation. *)
LEMMA ApplyType ==
  ASSUME NEW c \in ConversationState, NEW p, IsPatch(p)
  PROVE  Apply(c, p) \in ConversationState
<1>1. DOMAIN c = Fields
  BY DEF ConversationState, Fields
<1>2. /\ Apply(c, p).mode \in Modes
      /\ Apply(c, p).status \in Statuses
      /\ Apply(c, p).assigneeUserId \in Users \cup {NoUser}
      /\ Apply(c, p).waitingHumanSince \in Instants \cup {NoInstant}
      /\ Apply(c, p).handoffReason \in Reasons \cup {NoReason}
  BY <1>1 DEF ConversationState, IsPatch, Apply, Fields
<1>3. Apply(c, p) = [mode |-> Apply(c, p).mode, status |-> Apply(c, p).status,
                     assigneeUserId |-> Apply(c, p).assigneeUserId,
                     waitingHumanSince |-> Apply(c, p).waitingHumanSince,
                     handoffReason |-> Apply(c, p).handoffReason]
  BY <1>1 DEF Apply, Fields
<1> QED
  BY <1>2, <1>3 DEF ConversationState

(* A safe patch keeps the fields of any row it lands on in agreement. *)
LEMMA ApplySafe ==
  ASSUME NEW c \in ConversationState, NEW p, FieldsAgree(c), SafePatch(p)
  PROVE  FieldsAgree(Apply(c, p))
<1>1. \A f \in Fields : Apply(c, p)[f] = IF f \in DOMAIN p THEN p[f] ELSE c[f]
  BY DEF ConversationState, Apply, Fields
<1>2. CASE "mode" \in DOMAIN p
  BY <1>1, <1>2 DEF Fields, FieldsAgree, SafePatch
<1>3. CASE "mode" \notin DOMAIN p
  BY <1>1, <1>3 DEF Fields, FieldsAgree, SafePatch
<1> QED
  BY <1>2, <1>3

(* Every patch the state machine can return is a patch, and a safe one.    *)
LEMMA PatchesAreSafe ==
  ASSUME NEW s \in ConversationState, ConversationAssumption
  PROVE  /\ IsPatch(NoPatch) /\ SafePatch(NoPatch)
         /\ \A at \in Instants, reason \in Reasons :
              IsPatch(HandoffPatch(at, reason)) /\ SafePatch(HandoffPatch(at, reason))
         /\ \A user \in Users :
              /\ IsPatch(HumanTakeOver(user).patch) /\ SafePatch(HumanTakeOver(user).patch)
              /\ IsPatch(HumanMessage(s, user).patch) /\ SafePatch(HumanMessage(s, user).patch)
         /\ \A user \in Users \cup {NoUser} :
              IsPatch(Assign(user).patch) /\ SafePatch(Assign(user).patch)
         /\ \A withNote \in BOOLEAN :
              IsPatch(HumanReturnToAi(withNote).patch) /\ SafePatch(HumanReturnToAi(withNote).patch)
         /\ \A at \in Instants, mode \in Modes, fallback \in BOOLEAN :
              /\ IsPatch(SetMode(s, at, mode, fallback).patch)
              /\ SafePatch(SetMode(s, at, mode, fallback).patch)
         /\ \A status \in Statuses :
              IsPatch(SetStatus(status).patch) /\ SafePatch(SetStatus(status).patch)
<1> USE DEF Result, IsPatch, SafePatch, Modes, Statuses, Reasons
<1>1. IsPatch(NoPatch) /\ SafePatch(NoPatch)
  BY DEF NoPatch
<1>2. \A at \in Instants, reason \in Reasons :
        IsPatch(HandoffPatch(at, reason)) /\ SafePatch(HandoffPatch(at, reason))
  BY DEF HandoffPatch, ConversationAssumption
<1>3. \A user \in Users :
        IsPatch(HumanTakeOver(user).patch) /\ SafePatch(HumanTakeOver(user).patch)
  BY DEF HumanTakeOver
<1>4. \A user \in Users :
        IsPatch(HumanMessage(s, user).patch) /\ SafePatch(HumanMessage(s, user).patch)
  BY DEF HumanMessage, ConversationState
<1>5. \A user \in Users \cup {NoUser} :
        IsPatch(Assign(user).patch) /\ SafePatch(Assign(user).patch)
  BY DEF Assign
<1>6. \A withNote \in BOOLEAN :
        IsPatch(HumanReturnToAi(withNote).patch) /\ SafePatch(HumanReturnToAi(withNote).patch)
  BY DEF HumanReturnToAi, NoReason
<1>7. \A at \in Instants, mode \in Modes, fallback \in BOOLEAN :
        /\ IsPatch(SetMode(s, at, mode, fallback).patch)
        /\ SafePatch(SetMode(s, at, mode, fallback).patch)
  BY DEF SetMode, ConversationState, ConversationAssumption
<1>8. \A status \in Statuses :
        IsPatch(SetStatus(status).patch) /\ SafePatch(SetStatus(status).patch)
  BY DEF SetStatus
<1> QED
  BY <1>1, <1>2, <1>3, <1>4, <1>5, <1>6, <1>7, <1>8

(* A conversation that begins, or begins again, has fields that agree. *)
LEMMA BeginningsAgree ==
  ASSUME ConversationAssumption, NEW c \in ConversationState, FieldsAgree(c),
         NEW mode \in Modes \ {"waiting_human"}, NEW owner \in Users \cup {NoUser}
  PROVE  /\ Reopened(c, mode, owner) \in ConversationState
         /\ FieldsAgree(Reopened(c, mode, owner))
         /\ NewConversation(mode, owner) \in ConversationState
         /\ FieldsAgree(NewConversation(mode, owner))
BY DEF ConversationState, FieldsAgree, Reopened, NewConversation, Modes, Statuses,
       ConversationAssumption

(* So are those of the events that may be ignored. *)
LEMMA EventPatches ==
  ASSUME ConversationAssumption, NEW s \in ConversationState
  PROVE  /\ \A at \in Instants, isMedia \in BOOLEAN :
              /\ IsPatch(CustomerMessage(s, at, isMedia).patch)
              /\ SafePatch(CustomerMessage(s, at, isMedia).patch)
         /\ \A at \in Instants, reason \in Reasons, fallback \in BOOLEAN :
              /\ IsPatch(AiHandoff(s, at, reason, fallback).patch)
              /\ SafePatch(AiHandoff(s, at, reason, fallback).patch)
         /\ IsPatch(WaitingHumanTimeout(s).patch) /\ SafePatch(WaitingHumanTimeout(s).patch)
<1>1. "unsupported_media" \in Reasons
  BY DEF Reasons
<1>2. s.mode \in Modes
  BY DEF ConversationState
<1>3. \A at \in Instants, isMedia \in BOOLEAN :
        CustomerMessage(s, at, isMedia).patch \in {NoPatch, HandoffPatch(at, "unsupported_media")}
  BY <1>2 DEF CustomerMessage, Result, Modes
<1>4. \A at \in Instants, reason \in Reasons, fallback \in BOOLEAN :
        AiHandoff(s, at, reason, fallback).patch \in {NoPatch, HandoffPatch(at, reason)}
  BY DEF AiHandoff, Ignored, Result
<1>5. WaitingHumanTimeout(s).patch = NoPatch
  BY DEF WaitingHumanTimeout, Ignored, Result
<1> QED
  BY <1>1, <1>3, <1>4, <1>5, PatchesAreSafe
=============================================================================
