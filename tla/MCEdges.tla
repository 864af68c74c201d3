------------------------------ MODULE MCEdges -------------------------------
(* What admins decide and the AI may use, on small instances: who may do    *)
(* what and who let them, the settings, the MCP servers that are signed in  *)
(* to, the models of each task, the tools and what each may do, a turn's    *)
(* calls of them, and the notifications on agents' devices.  These share no *)
(* state: a behaviour is of one of them, the part.                          *)
EXTENDS Access, Settings, Servers, Agent, Push, Slots, Tools, Approvals

CONSTANTS p1, p2, c1, f1, f2, t1, t2, n1, n2, w1, w2, w3, a1, a2, d1, d2, s1, m1, m2, g1, g2

VARIABLE part

parts == <<part, access, desk, servers, agent, push, choosing, tooling, approving>>

\* A server whose address and lists stay as they are, one that admins sign in to at the same
\* time, and one whose tokens stay.
TokensChange ==
  /\ server.url = MaxUrls /\ relisted = MaxLists
  /\ server.access = 0 /\ issuer.started = MaxSignIns - 1 /\ faults = 0
SignInsMeet ==
  /\ server.url = MaxUrls /\ relisted = MaxLists
  /\ server.access = MaxTokens /\ issuer.started = 0 /\ faults = MaxFaults
ListsChange ==
  /\ server.url = 1 /\ relisted = 0
  /\ server.access = MaxTokens /\ issuer.started = MaxSignIns /\ faults = MaxFaults

\* Saves of a slot while the providers stay, or one save while they change.
OnlySaves == changed = MaxProviderChanges /\ \A c \in Cards : cards[c].latest = 0
OneSave ==
  /\ changed = 0
  /\ cards = [c \in Cards |-> [Drawn EXCEPT !.latest = MaxSaves - 1]]

\* Each of the providers serves a model of its own.
ServedBy == (p1 :> {m1}) @@ (p2 :> {m2})

Init ==
  /\ part \in {"access", "settings", "servers", "agent", "push", "slots", "tools", "approvals"}
  /\ AccessInit /\ SettingsInit
  /\ part # "access" => platform = {p1} /\ members[p2] = "none"
  /\ ServersInit
  /\ IF part = "servers"
     THEN \/ TokensChange
          \/ SignInsMeet
          \/ ListsChange
     ELSE TokensChange
  /\ AgentInit
  /\ part # "agent" => mode = "answer" /\ proved
  /\ PushInit
  /\ part # "push" => now = "human" /\ job.reason = "handoff" /\ presence = {}
  /\ SlotsInit
  /\ slot.targets["primary"] = [provider |-> p1, model |-> m1]
  /\ IF part = "slots"
     THEN \/ OnlySaves
          \/ OneSave
     ELSE OnlySaves /\ cards = [c \in Cards |-> Blank]
  /\ ToolsInit
  /\ tools[t1].name = n1 /\ tools[t1].config = g1
  /\ ApprovalsInit
  /\ part # "approvals" => says = [n \in Listed |-> "silent"]

Next ==
  \/ /\ part = "access" /\ AccessNext
     /\ UNCHANGED <<part, desk, servers, agent, push, choosing, tooling, approving>>
  \/ /\ part = "settings" /\ SettingsNext
     /\ UNCHANGED <<part, access, servers, agent, push, choosing, tooling, approving>>
  \/ /\ part = "servers" /\ ServersNext
     /\ UNCHANGED <<part, access, desk, agent, push, choosing, tooling, approving>>
  \/ /\ part = "agent" /\ AgentNext
     /\ UNCHANGED <<part, access, desk, servers, push, choosing, tooling, approving>>
  \/ /\ part = "push" /\ PushNext
     /\ UNCHANGED <<part, access, desk, servers, agent, choosing, tooling, approving>>
  \/ /\ part = "slots" /\ SlotsNext
     /\ UNCHANGED <<part, access, desk, servers, agent, push, tooling, approving>>
  \/ /\ part = "tools" /\ ToolsNext
     /\ UNCHANGED <<part, access, desk, servers, agent, push, choosing, approving>>
  \/ /\ part = "approvals" /\ ApprovalsNext
     /\ UNCHANGED <<part, access, desk, servers, agent, push, choosing, tooling>>

Spec == Init /\ [][Next]_parts

(* Each part keeps its types.                                               *)
EdgesTypeOK ==
  /\ part = "access" => AccessTypeOK
  /\ part = "settings" => SettingsTypeOK
  /\ part = "servers" => ServersTypeOK
  /\ part = "agent" => AgentTypeOK
  /\ part = "push" => PushTypeOK
  /\ part = "slots" => SlotsTypeOK
  /\ part = "tools" => ToolsTypeOK
  /\ part = "approvals" => ApprovalsTypeOK

(* What an admin set stays as it was set, whatever is saved from a page     *)
(* that shows an older state of it: a tuning value no form shows, the       *)
(* switch of a tool whose fields are edited, and what a tool of an MCP      *)
(* server may do, which nothing but an admin's choice or the server's own   *)
(* word at the time allows.                                                 *)
ChoicesStand == TunedIsKept /\ SwitchedOffStaysOff /\ EffectsAreChosen
=============================================================================
