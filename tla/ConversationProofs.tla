------------------------- MODULE ConversationProofs -------------------------
(***************************************************************************)
(* The promises of ConversationMachine for every set of agents and         *)
(* instants, every default mode and with or without a fallback timer.      *)
(***************************************************************************)
EXTENDS ConversationMachine, ConversationLemmas, SequenceTheorems

(* Type and agreement are inductive together: SetMode and HumanMessage     *)
(* write back fields of the state they read, and a customer's message       *)
(* relies on the mode being one the state machine knows.                    *)
Described == TypeOK /\ WaitIsDescribed

(* Whatever is asked for is a list of the effects the state machine knows. *)
LEMMA EffectsAreKnown ==
  ASSUME NEW s \in ConversationState, NEW at, NEW fallback \in BOOLEAN
  PROVE  /\ \A isMedia \in BOOLEAN : CustomerMessage(s, at, isMedia).effects \in Seq(Effects)
         /\ \A reason \in Reasons : AiHandoff(s, at, reason, fallback).effects \in Seq(Effects)
         /\ \A user \in Users : /\ HumanTakeOver(user).effects \in Seq(Effects)
                                /\ HumanMessage(s, user).effects \in Seq(Effects)
         /\ \A user \in Users \cup {NoUser} : Assign(user).effects \in Seq(Effects)
         /\ \A withNote \in BOOLEAN : HumanReturnToAi(withNote).effects \in Seq(Effects)
         /\ \A mode \in Modes : SetMode(s, at, mode, fallback).effects \in Seq(Effects)
         /\ \A status \in Statuses : SetStatus(status).effects \in Seq(Effects)
         /\ WaitingHumanTimeout(s).effects \in Seq(Effects)
<1>1. s.mode \in Modes
  BY DEF ConversationState
<1>2. HandoffEffects \in Seq(Effects)
  BY DEF HandoffEffects, Effects
<1>3. \A b \in BOOLEAN : Schedule(b) \in Seq(Effects)
  <2>1. <<"schedule_waiting_human_timeout">> \in Seq(Effects) /\ <<>> \in Seq(Effects)
    BY DEF Effects
  <2> QED
    BY <2>1 DEF Schedule
<1>4. /\ <<"cancel_waiting_human_timeout">> \in Seq(Effects)
      /\ <<"add_internal_note">> \in Seq(Effects)
      /\ <<>> \in Seq(Effects)
      /\ <<"run_ai_turn:send">> \in Seq(Effects)
      /\ <<"run_ai_turn:draft">> \in Seq(Effects)
      /\ <<"run_suggestion", "notify_agents">> \in Seq(Effects)
      /\ <<"cancel_waiting_human_timeout", "enqueue_summary">> \in Seq(Effects)
      /\ <<"send_acknowledgement:still_waiting", "notify_agents">> \in Seq(Effects)
  BY DEF Effects
<1>5. \A isMedia \in BOOLEAN : CustomerMessage(s, at, isMedia).effects \in Seq(Effects)
  BY <1>1, <1>2, <1>4 DEF CustomerMessage, Result, Modes
<1>6. \A reason \in Reasons : AiHandoff(s, at, reason, fallback).effects \in Seq(Effects)
  BY <1>2, <1>3, <1>4, ConcatProperties DEF AiHandoff, Ignored, Result
<1>7. \A withNote \in BOOLEAN : HumanReturnToAi(withNote).effects \in Seq(Effects)
  BY <1>4, ConcatProperties DEF HumanReturnToAi, Result
<1>8. \A mode \in Modes : SetMode(s, at, mode, fallback).effects \in Seq(Effects)
  BY <1>3, <1>4 DEF SetMode, Result
<1>9. WaitingHumanTimeout(s).effects \in Seq(Effects)
  BY <1>4 DEF WaitingHumanTimeout, Ignored, Result
<1> QED
  BY <1>4, <1>5, <1>6, <1>7, <1>8, <1>9
     DEF HumanTakeOver, HumanMessage, Assign, SetStatus, Result

LEMMA DescribedInit ==
  ASSUME ConversationAssumption, MachineAssumption, Init
  PROVE  Described
BY DEF Init, Described, TypeOK, WaitIsDescribed, FieldsAgree, NewConversation,
       ConversationState, MachineAssumption, Modes, Statuses

(* An event applied to the state it was computed from. *)
LEMMA TakeDescribed ==
  ASSUME Described, NEW result, Take(result), IsPatch(result.patch), SafePatch(result.patch),
         result.effects \in Seq(Effects)
  PROVE  Described'
BY ApplyType, ApplySafe DEF Described, TypeOK, WaitIsDescribed, Take

LEMMA DescribedStep ==
  ASSUME ConversationAssumption, MachineAssumption, Described, [Next]_vars
  PROVE  Described'
<1> USE DEF Described
<1>0. conv \in ConversationState /\ Fallback \in BOOLEAN
  BY DEF TypeOK, MachineAssumption
<1>1. CASE CustomerWrites
  <2>1. PICK at \in Instants, isMedia \in BOOLEAN, owner \in Users \cup {NoUser} :
          LET c == Reopened(conv, DefaultMode, owner)
              r == CustomerMessage(c, at, isMedia)
          IN  conv' = Apply(c, r.patch) /\ effects' = r.effects
    BY <1>1 DEF CustomerWrites
  <2> DEFINE c == Reopened(conv, DefaultMode, owner)
  <2>2. c \in ConversationState /\ FieldsAgree(c)
    BY <1>0, BeginningsAgree DEF WaitIsDescribed, MachineAssumption
  <2> HIDE DEF c
  <2>3. conv' = Apply(c, CustomerMessage(c, at, isMedia).patch)
        /\ effects' = CustomerMessage(c, at, isMedia).effects
    BY <2>1 DEF c
  <2> QED
    BY <1>0, <2>2, <2>3, EventPatches, EffectsAreKnown, ApplyType, ApplySafe
       DEF TypeOK, WaitIsDescribed
<1>2. CASE AiGivesUp
  BY <1>0, <1>2, EventPatches, EffectsAreKnown, TakeDescribed DEF AiGivesUp
<1>3. CASE AgentTakesOver \/ AgentReplies
  BY <1>0, <1>3, PatchesAreSafe, EffectsAreKnown, TakeDescribed
     DEF AgentTakesOver, AgentReplies
<1>4. CASE AgentReturnsToAi
  BY <1>0, <1>4, PatchesAreSafe, EffectsAreKnown, TakeDescribed DEF AgentReturnsToAi
<1>5. CASE AgentAssigns
  BY <1>0, <1>5, PatchesAreSafe, EffectsAreKnown, TakeDescribed DEF AgentAssigns
<1>6. CASE AgentSetsMode
  BY <1>0, <1>6, PatchesAreSafe, EffectsAreKnown, TakeDescribed DEF AgentSetsMode
<1>7. CASE AgentSetsStatus
  BY <1>0, <1>7, PatchesAreSafe, EffectsAreKnown, TakeDescribed DEF AgentSetsStatus
<1>8. CASE TimerFires
  BY <1>0, <1>8, EventPatches, EffectsAreKnown, TakeDescribed DEF TimerFires
<1>9. CASE UNCHANGED vars
  BY <1>9 DEF vars, TypeOK, WaitIsDescribed
<1> QED
  BY <1>1, <1>2, <1>3, <1>4, <1>5, <1>6, <1>7, <1>8, <1>9 DEF Next

LEMMA AlwaysDescribed ==
  ASSUME ConversationAssumption, MachineAssumption
  PROVE  Spec => []Described
<1>1. Init => Described
  BY DescribedInit
<1>2. Described /\ [Next]_vars => Described'
  BY DescribedStep
<1> QED
  BY <1>1, <1>2, PTL DEF Spec

(* Every state reached by events taken one at a time is one the schema of   *)
(* the conversations table has a value for.                                 *)
THEOREM MachineTypeCorrect ==
  ASSUME ConversationAssumption, MachineAssumption
  PROVE  Spec => []TypeOK
<1>1. Described => TypeOK
  BY DEF Described
<1> QED
  BY <1>1, AlwaysDescribed, PTL

(* waitingHumanSince is set exactly while the mode is waiting_human, and no *)
(* handoff reason outlives the return to the AI.                            *)
THEOREM MachineWaitIsDescribed ==
  ASSUME ConversationAssumption, MachineAssumption
  PROVE  Spec => []WaitIsDescribed
<1>1. Described => WaitIsDescribed
  BY DEF Described
<1> QED
  BY <1>1, AlwaysDescribed, PTL

(* A customer who writes to people, or waits for them, moves nothing. *)
LEMMA MessageToPeople ==
  ASSUME NEW s, NEW at, NEW isMedia \in BOOLEAN, s.mode \in {"human", "waiting_human"}
  PROVE  CustomerMessage(s, at, isMedia) = Result(NoPatch, <<"run_suggestion", "notify_agents">>)
<1> DEFINE mode == s.mode
<1>1. mode # "ai" /\ mode # "ai_supervised" /\ mode \in {"human", "waiting_human"}
  OBVIOUS
<1> HIDE DEF mode
<1>2. CustomerMessage(s, at, isMedia) =
        CASE mode = "ai" /\ isMedia ->
               Result(HandoffPatch(at, "unsupported_media"), HandoffEffects)
          [] mode = "ai" /\ ~isMedia -> Result(NoPatch, <<"run_ai_turn:send">>)
          [] mode = "ai_supervised" -> Result(NoPatch, <<"run_ai_turn:draft">>)
          [] mode \in {"human", "waiting_human"} ->
               Result(NoPatch, <<"run_suggestion", "notify_agents">>)
  BY DEF mode, CustomerMessage
<1> QED
  BY <1>1, <1>2

(* In a conversation a person owns, no event asks for anything that ends in *)
(* a message to the customer, unless the customer begins a closed one anew. *)
LEMMA HumanStep ==
  ASSUME MachineAssumption, Described, [Next]_vars
  PROVE  [NothingIsSentOverHuman]_vars
<1> SUFFICES ASSUME Next, conv.mode = "human", conv.status # "resolved"
             PROVE  AsksNone(effects', SendingEffects)
  BY DEF NothingIsSentOverHuman
<1> USE DEF AsksNone, SendingEffects, Take, Result
<1>1. CASE CustomerWrites
  <2>1. PICK at \in Instants, isMedia \in BOOLEAN, owner \in Users \cup {NoUser} :
          effects' = CustomerMessage(Reopened(conv, DefaultMode, owner), at, isMedia).effects
    BY <1>1 DEF CustomerWrites
  <2>2. effects' = <<"run_suggestion", "notify_agents">>
    BY <2>1, MessageToPeople DEF Reopened
  <2> QED
    BY <2>2
<1>2. CASE AiGivesUp \/ TimerFires
  <2>1. effects' = <<>>
    BY <1>2 DEF AiGivesUp, AiHandoff, TimerFires, WaitingHumanTimeout, Ignored
  <2> QED
    BY <2>1
<1>3. CASE AgentTakesOver \/ AgentReplies
  <2>1. effects' = <<"cancel_waiting_human_timeout">>
    BY <1>3 DEF AgentTakesOver, HumanTakeOver, AgentReplies, HumanMessage
  <2> QED
    BY <2>1
<1>4. CASE AgentReturnsToAi
  <2>1. \/ effects' = <<"cancel_waiting_human_timeout">> \o <<"add_internal_note">>
        \/ effects' = <<"cancel_waiting_human_timeout">> \o <<>>
    BY <1>4 DEF AgentReturnsToAi, HumanReturnToAi
  <2>2. \/ effects' = <<"cancel_waiting_human_timeout", "add_internal_note">>
        \/ effects' = <<"cancel_waiting_human_timeout">>
    BY <2>1
  <2> QED
    BY <2>2
<1>5. CASE AgentAssigns
  <2>1. effects' = <<>>
    BY <1>5 DEF AgentAssigns, Assign
  <2> QED
    BY <2>1
<1>6. CASE AgentSetsMode
  <2>1. \/ effects' = <<"schedule_waiting_human_timeout">>
        \/ effects' = <<"cancel_waiting_human_timeout">>
    BY <1>6 DEF AgentSetsMode, SetMode, Schedule
  <2> QED
    BY <2>1
<1>7. CASE AgentSetsStatus
  <2>1. \/ effects' = <<"cancel_waiting_human_timeout", "enqueue_summary">>
        \/ effects' = <<>>
    BY <1>7 DEF AgentSetsStatus, SetStatus
  <2> QED
    BY <2>1
<1> QED
  BY <1>1, <1>2, <1>3, <1>4, <1>5, <1>6, <1>7 DEF Next

(* state-machine.ts:11-12, for every workspace and every history of events. *)
THEOREM MachineNeverSpeaksOverHuman ==
  ASSUME ConversationAssumption, MachineAssumption
  PROVE  Spec => HumanIsNeverSpokenOver
<1>1. Described /\ [Next]_vars => [NothingIsSentOverHuman]_vars
  BY HumanStep
<1> QED
  BY <1>1, AlwaysDescribed, PTL DEF Spec, HumanIsNeverSpokenOver

(* An event that ends the wait of an open conversation takes its timer back. *)
LEMMA WaitEndsStep ==
  ASSUME MachineAssumption, Described, [Next]_vars
  PROVE  [WaitEnds => Asks(effects', "cancel_waiting_human_timeout")]_vars
<1> SUFFICES ASSUME Next, WaitEnds
             PROVE  Asks(effects', "cancel_waiting_human_timeout")
  OBVIOUS
<1>0. conv \in ConversationState /\ conv.mode = "waiting_human" /\ conv'.mode # "waiting_human"
      /\ conv.status # "resolved"
  BY DEF Described, TypeOK, WaitEnds
<1> USE DEF Take, Result
<1>1. conv' # conv
  BY <1>0
<1>2. ~CustomerWrites
  <2>1. SUFFICES ASSUME CustomerWrites PROVE FALSE
    OBVIOUS
  <2>2. PICK at \in Instants, isMedia \in BOOLEAN, owner \in Users \cup {NoUser} :
          conv' = Apply(Reopened(conv, DefaultMode, owner),
                        CustomerMessage(Reopened(conv, DefaultMode, owner), at, isMedia).patch)
    BY <2>1 DEF CustomerWrites
  <2>3. Reopened(conv, DefaultMode, owner) = conv
    BY <1>0 DEF Reopened
  <2>4. CustomerMessage(conv, at, isMedia).patch = NoPatch
    BY <1>0, MessageToPeople
  <2> QED
    BY <1>0, <2>2, <2>3, <2>4 DEF Apply, NoPatch, ConversationState
<1>3. ~(AiGivesUp \/ TimerFires \/ AgentAssigns)
  BY <1>0 DEF AiGivesUp, AiHandoff, TimerFires, WaitingHumanTimeout, AgentAssigns, Assign,
              Ignored, NoPatch, Apply, ConversationState
<1>4. CASE AgentTakesOver \/ AgentReplies
  <2>1. effects' = <<"cancel_waiting_human_timeout">>
    BY <1>4 DEF AgentTakesOver, HumanTakeOver, AgentReplies, HumanMessage
  <2> QED
    BY <2>1 DEF Asks
<1>5. CASE AgentReturnsToAi
  <2>1. \/ effects' = <<"cancel_waiting_human_timeout">> \o <<"add_internal_note">>
        \/ effects' = <<"cancel_waiting_human_timeout">> \o <<>>
    BY <1>5 DEF AgentReturnsToAi, HumanReturnToAi
  <2>2. effects'[1] = "cancel_waiting_human_timeout" /\ 1 \in DOMAIN effects'
    BY <2>1
  <2> QED
    BY <2>2 DEF Asks
<1>6. CASE AgentSetsMode
  <2>1. PICK at \in Instants, mode \in Modes : Take(SetMode(conv, at, mode, Fallback))
    BY <1>6 DEF AgentSetsMode
  <2>2. conv'.mode = mode
    BY <1>0, <2>1 DEF SetMode, Apply, ConversationState
  <2>3. effects' = <<"cancel_waiting_human_timeout">>
    BY <1>0, <2>1, <2>2 DEF SetMode
  <2> QED
    BY <2>3 DEF Asks
<1>7. ~AgentSetsStatus
  BY <1>0 DEF AgentSetsStatus, SetStatus, Apply, ConversationState
<1> QED
  BY <1>2, <1>3, <1>4, <1>5, <1>6, <1>7 DEF Next

(* No timer of an old wait is left to fire into a later one. *)
THEOREM MachineEndOfWaitCancelsTimer ==
  ASSUME ConversationAssumption, MachineAssumption
  PROVE  Spec => EndOfWaitCancelsTimer
<1>1. Described /\ [Next]_vars => [WaitEnds => Asks(effects', "cancel_waiting_human_timeout")]_vars
  BY WaitEndsStep
<1> QED
  BY <1>1, AlwaysDescribed, PTL DEF Spec, EndOfWaitCancelsTimer
=============================================================================
