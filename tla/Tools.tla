------------------------------- MODULE Tools -------------------------------
(***************************************************************************)
(* The tools a workspace defines against its own API: the rows, the cards  *)
(* that admins switch and edit them with, the names they share with the    *)
(* tools of MCP servers, and a turn that loads them.  A card edits a copy  *)
(* of a row taken from its list, a save sends the copy whole and a switch  *)
(* only the switch; the API checks a name against the MCP servers' in one  *)
(* statement and writes in another, and an approval of MCP tools does the  *)
(* same the other way round.  A config is one value; credentials, which    *)
(* are sent only when typed, are left out.                                 *)
(***************************************************************************)
EXTENDS Naturals, FiniteSets

CONSTANTS
  Consoles, \* admins' pages
  Ids,      \* tools that may be defined
  Titles,   \* names of tools
  Configs,  \* what a tool does
  Nil,      \* no tool
  MaxAsks   \* bound: requests of the consoles

ASSUME ToolsAssumption == Nil \notin Ids \cup Titles \cup Configs /\ MaxAsks \in Nat

VARIABLES
  tools,     \* the rows
  offered,   \* names of the tools approved of the MCP servers
  listsHeld, \* the rows as each console last fetched them
  editor,    \* each console's editor: the tool it is on, the one it was filled from, its fields
  result,    \* the config the editor's last test ran, or Nil
  asks,      \* requests under way or not yet answered
  asksMade,  \* how many there were
  wanted,    \* the last switch written for each tool
  offer      \* what a turn offers its model, and the tools that were off when it loaded them

tooling == <<tools, offered, listsHeld, editor, result, asks, asksMade, wanted, offer>>

NoRow == [name |-> Nil, config |-> Nil, enabled |-> FALSE]
Defined == {i \in Ids : tools[i] # NoRow}
Closed == [on |-> Nil, from |-> Nil, name |-> Nil, config |-> Nil, enabled |-> FALSE]

\* Slip: the whole row of the copy, the switch with it.
EditedWhole(a, row) == [name |-> a.name, config |-> a.config, enabled |-> a.enabled]

\* The fields an editor sends: name, description and config, never the switch.
Edited(a, row) == [row EXCEPT !.name = a.name, !.config = a.config]

ToolsInit ==
  \E i \in Ids, n \in Titles, g \in Configs :
    /\ tools = [j \in Ids |-> IF j = i THEN [name |-> n, config |-> g, enabled |-> TRUE]
                              ELSE NoRow]
    /\ offered = {}
    /\ listsHeld = [c \in Consoles |-> tools]
    /\ editor = [c \in Consoles |-> Closed]
    /\ result = [c \in Consoles |-> Nil]
    /\ asks = {} /\ asksMade = 0
    /\ wanted = [j \in Ids |-> j = i]
    /\ offer = [rows |-> {}, mcp |-> {}, off |-> {}]

-----------------------------------------------------------------------------
(* The cards.                                                               *)

FetchTools(c) ==
  /\ listsHeld' = [listsHeld EXCEPT ![c] = tools]
  /\ UNCHANGED <<tools, offered, editor, result, asks, asksMade, wanted, offer>>

\* "Edit": an editor that is open stays, with its fields, and is on the other tool.
EditTool(c, i) ==
  /\ listsHeld[c][i] # NoRow
  /\ editor' = [editor EXCEPT ![c] =
       IF @.on # Nil THEN [@ EXCEPT !.on = i]
       ELSE [on |-> i, from |-> i, name |-> listsHeld[c][i].name,
             config |-> listsHeld[c][i].config, enabled |-> listsHeld[c][i].enabled]]
  /\ UNCHANGED <<tools, offered, listsHeld, result, asks, asksMade, wanted, offer>>

\* "Add", shown while no editor is open.
NewTool(c) ==
  \E n \in Titles, g \in Configs :
    /\ editor[c].on = Nil
    /\ editor' = [editor EXCEPT ![c] =
         [on |-> "new", from |-> "new", name |-> n, config |-> g, enabled |-> TRUE]]
    /\ UNCHANGED <<tools, offered, listsHeld, result, asks, asksMade, wanted, offer>>

EditField(c) ==
  \E g \in Configs \ {editor[c].config} :
    /\ editor[c].on # Nil
    /\ editor' = [editor EXCEPT ![c].config = g]
    /\ UNCHANGED <<tools, offered, listsHeld, result, asks, asksMade, wanted, offer>>

CloseEditor(c) ==
  /\ editor[c].on # Nil
  /\ editor' = [editor EXCEPT ![c] = Closed]
  /\ result' = [result EXCEPT ![c] = Nil]
  /\ UNCHANGED <<tools, offered, listsHeld, asks, asksMade, wanted, offer>>

\* The test runs the stored tool, and its answer stays under the form.
TestTool(c) ==
  /\ editor[c].on \in Defined
  /\ result' = [result EXCEPT ![c] = tools[editor[c].on].config]
  /\ UNCHANGED <<tools, offered, listsHeld, editor, asks, asksMade, wanted, offer>>

AskFor(c, kind, id, from, name, config, enabled) ==
  /\ asksMade < MaxAsks
  /\ asksMade' = asksMade + 1
  /\ asks' = asks \cup {[by |-> c, no |-> asksMade, kind |-> kind, id |-> id, from |-> from,
                        name |-> name, config |-> config, enabled |-> enabled, at |-> "sent"]}
  /\ UNCHANGED <<tools, offered, listsHeld, editor, result, wanted, offer>>

\* The button is off while the save is pending.
SaveTool(c) ==
  /\ editor[c].on # Nil
  /\ ~ \E a \in asks : a.by = c /\ a.kind \in {"create", "update"}
  /\ AskFor(c, IF editor[c].on = "new" THEN "create" ELSE "update", editor[c].on, editor[c].from,
            editor[c].name, editor[c].config, editor[c].enabled)

SwitchTool(c, i) ==
  /\ listsHeld[c][i] # NoRow
  /\ AskFor(c, "switch", i, i, Nil, Nil, ~listsHeld[c][i].enabled)

RemoveTool(c, i) ==
  /\ listsHeld[c][i] # NoRow
  /\ AskFor(c, "remove", i, i, Nil, Nil, FALSE)

\* An approval of a tool of an MCP server, by the name it will be called by.
ApproveTool(c, n) == AskFor(c, "approve", Nil, Nil, n, Nil, TRUE)

-----------------------------------------------------------------------------
(* The API.                                                                 *)

Turned(a, at) == (asks \ {a}) \cup {[a EXCEPT !.at = at]}

\* The names the MCP servers offer are read, or those of the tools for an approval.
CheckName(a) ==
  /\ a.at = "sent" /\ a.kind \in {"create", "update", "approve"}
  /\ asks' = Turned(a,
       IF a.name \in (IF a.kind = "approve" THEN {tools[i].name : i \in Defined} ELSE offered)
       THEN "refused" ELSE "checked")
  /\ UNCHANGED <<tools, offered, listsHeld, editor, result, asksMade, wanted, offer>>

\* One name, one tool: a check first, and the unique index behind it.
Taken(a) == \E i \in Defined \ {a.id} : tools[i].name = a.name

WriteApproval(a) ==
  /\ a.at = "checked" /\ a.kind = "approve"
  /\ offered' = offered \cup {a.name}
  /\ asks' = Turned(a, "done")
  /\ UNCHANGED <<tools, listsHeld, editor, result, asksMade, wanted, offer>>

CreateTool(a) ==
  /\ a.at = "checked" /\ a.kind = "create"
  /\ IF Taken(a)
     THEN asks' = Turned(a, "refused") /\ UNCHANGED <<tools, wanted>>
     ELSE \E i \in Ids \ Defined :
            /\ tools' = [tools EXCEPT ![i] =
                 [name |-> a.name, config |-> a.config, enabled |-> TRUE]]
            /\ wanted' = [wanted EXCEPT ![i] = TRUE]
            /\ asks' = Turned(a, "done")
  /\ UNCHANGED <<offered, listsHeld, editor, result, asksMade, offer>>

UpdateTool(a) ==
  /\ a.at = "checked" /\ a.kind = "update"
  /\ IF a.id \notin Defined \/ Taken(a)
     THEN asks' = Turned(a, "refused") /\ UNCHANGED tools
     ELSE /\ tools' = [tools EXCEPT ![a.id] = Edited(a, @)]
          /\ asks' = Turned(a, "done")
  /\ UNCHANGED <<offered, listsHeld, editor, result, asksMade, wanted, offer>>

WriteSwitch(a) ==
  /\ a.at = "sent" /\ a.kind = "switch"
  /\ IF a.id \notin Defined
     THEN asks' = Turned(a, "refused") /\ UNCHANGED <<tools, wanted>>
     ELSE /\ tools' = [tools EXCEPT ![a.id].enabled = a.enabled]
          /\ wanted' = [wanted EXCEPT ![a.id] = a.enabled]
          /\ asks' = Turned(a, "done")
  /\ UNCHANGED <<offered, listsHeld, editor, result, asksMade, offer>>

DeleteTool(a) ==
  /\ a.at = "sent" /\ a.kind = "remove"
  /\ tools' = [tools EXCEPT ![a.id] = NoRow]
  /\ wanted' = [wanted EXCEPT ![a.id] = FALSE]
  /\ asks' = Turned(a, "done")
  /\ UNCHANGED <<offered, listsHeld, editor, result, asksMade, offer>>

\* The answer: the list is fetched again, and a save closes the editor, whatever it is on.
HearDone(a) ==
  /\ a.at = "done"
  /\ asks' = asks \ {a}
  /\ listsHeld' = [listsHeld EXCEPT ![a.by] = tools]
  /\ IF a.kind \in {"create", "update"}
     THEN /\ editor' = [editor EXCEPT ![a.by] = Closed]
          /\ result' = [result EXCEPT ![a.by] = Nil]
     ELSE UNCHANGED <<editor, result>>
  /\ UNCHANGED <<tools, offered, asksMade, wanted, offer>>

\* A refusal, or an answer that never comes: the editor stays as it is.
HearRefused(a) ==
  /\ asks' = asks \ {a}
  /\ UNCHANGED <<tools, offered, listsHeld, editor, result, asksMade, wanted, offer>>

-----------------------------------------------------------------------------
\* A turn loads the tools that are on, and the approved ones of the MCP servers.
LoadTools ==
  /\ offer.off = {}
  /\ offer' = [rows |-> {i \in Defined : tools[i].enabled}, mcp |-> offered,
               off |-> {i \in Ids : ~wanted[i]}]
  /\ UNCHANGED <<tools, offered, listsHeld, editor, result, asks, asksMade, wanted>>

ToolsNext ==
  \/ \E c \in Consoles : FetchTools(c) \/ NewTool(c) \/ EditField(c) \/ CloseEditor(c)
                         \/ TestTool(c) \/ SaveTool(c)
  \/ \E c \in Consoles, i \in Ids : EditTool(c, i) \/ SwitchTool(c, i) \/ RemoveTool(c, i)
  \/ \E c \in Consoles, n \in Titles : ApproveTool(c, n)
  \/ \E a \in asks :
       \/ CheckName(a) \/ WriteApproval(a) \/ CreateTool(a) \/ UpdateTool(a)
       \/ WriteSwitch(a) \/ DeleteTool(a) \/ HearDone(a) \/ HearRefused(a)
  \/ LoadTools

ToolsSpec == ToolsInit /\ [][ToolsNext]_tooling

-----------------------------------------------------------------------------
(* Types.                                                                   *)
ToolsTypeOK ==
  /\ \A i \in Defined : tools[i] \in [name : Titles, config : Configs, enabled : BOOLEAN]
  /\ offered \subseteq Titles
  /\ \A c \in Consoles : editor[c].on \in Ids \cup {Nil, "new"}
  /\ \A a \in asks : a.at \in {"sent", "checked", "done", "refused"}
  /\ offer.rows \subseteq Ids

(* A tool that an admin switched off stays off until one switches it on,    *)
(* whoever saves what from an older copy of it in between, and no turn that *)
(* begins meanwhile offers it (PATCH /settings/tools/:id writes only what   *)
(* it is sent; loadToolDefinitions).                                        *)
SwitchedOffStaysOff ==
  /\ \A i \in Defined : tools[i].enabled => wanted[i]
  /\ offer.rows \cap offer.off = {}

(* A save changes the tool its form was filled from.  The editor is not     *)
(* made anew for another tool, so its fields may be saved on that one       *)
(* (ToolsCard, ToolEditor).                                                 *)
SavesGoWhereTheyWereOpened ==
  \A a \in asks : a.kind = "update" => a.id = a.from

(* The result under a form is that of the tool as the form has it           *)
(* (ToolEditor; the test runs the stored row).                              *)
ResultIsOfTheForm ==
  \A c \in Consoles : result[c] # Nil => result[c] = editor[c].config

(* No tool has the name of an MCP server's: the model would be offered one  *)
(* of the two (POST /settings/tools, PATCH /settings/mcp/:id).              *)
NamesAreDistinct == \A i \in Defined : tools[i].name \notin offered
=============================================================================
