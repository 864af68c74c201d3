----------------------------- MODULE Approvals ------------------------------
(***************************************************************************)
(* What an MCP server may do for the AI: the panel in which admins tick    *)
(* its tools and say whether each reads or writes, the snapshot they tick  *)
(* from, and the list that is kept.  A panel is filled from the row once,  *)
(* when it is opened, and a save replaces the whole list; the API checks   *)
(* it against the row it read and writes in a later statement, and so does *)
(* a fetch of the server's tools.  Sign-in, credentials and the address    *)
(* are those of Servers; schemas, bindings and tests are left out.         *)
(***************************************************************************)
EXTENDS Naturals, FiniteSets

CONSTANTS
  Panels,   \* admins' pages
  Listed,   \* tools the server may list
  MaxCalls, \* bound: saves and fetches
  MaxNews   \* bound: changes of what the server lists

ASSUME ApprovalsAssumption == MaxCalls \in Nat /\ MaxNews \in Nat

\* What the server says of a tool, and what an admin approves it as.  A tool too large to
\* offer is as one not listed.
Word == {"absent", "reads", "changes", "silent"}
Effect == {"off", "unchosen", "read", "write"}

VARIABLES
  says,     \* what the server says now
  row,      \* the stored snapshot and list
  seen,     \* the row as each page last fetched it
  panel,    \* each page's panel: open or not, and its draft
  requests, \* saves and fetches under way
  made,     \* how many there were
  news,     \* how often the server's list changed
  chosen    \* effects that an admin chose or the server's word gave

approving == <<says, row, seen, panel, requests, made, news, chosen>>

NotAllowed == [n \in Listed |-> "off"]

\* What a tool may be approved as by what the server says of it.
Allows(word, effect) ==
  /\ word # "absent"
  /\ ~(effect = "read" /\ word = "changes")

\* Slip: a tool the server says nothing of starts as a read.
StartsAsRead(word) == CASE word = "changes" -> "write" [] OTHER -> "read"

\* The server's word decides where it can; otherwise nobody chose yet.
Starts(word) == CASE word = "reads" -> "read" [] word = "changes" -> "write" [] OTHER -> "unchosen"

\* What the server's word gives a tool.
Said(n, word) ==
  CASE word = "reads" -> {<<n, "read">>} [] word = "changes" -> {<<n, "write">>} [] OTHER -> {}

ApprovalsInit ==
  /\ says \in [Listed -> {"reads", "silent"}]
  /\ row = [snapshot |-> says, allowed |-> NotAllowed]
  /\ seen = [p \in Panels |-> row]
  /\ panel = [p \in Panels |-> [open |-> FALSE, draft |-> NotAllowed]]
  /\ requests = {} /\ made = 0 /\ news = 0 /\ chosen = {}

-----------------------------------------------------------------------------
(* The page.                                                                *)

OpenPanel(p) ==
  /\ ~panel[p].open
  /\ panel' = [panel EXCEPT ![p] = [open |-> TRUE, draft |-> seen[p].allowed]]
  /\ UNCHANGED <<says, row, seen, requests, made, news, chosen>>

ClosePanel(p) ==
  /\ panel[p].open
  /\ panel' = [panel EXCEPT ![p] = [open |-> FALSE, draft |-> NotAllowed]]
  /\ UNCHANGED <<says, row, seen, requests, made, news, chosen>>

\* toggleTool, on a tool of the snapshot the page shows.
Tick(p, n) ==
  /\ panel[p].open /\ seen[p].snapshot[n] # "absent"
  /\ IF panel[p].draft[n] = "off"
     THEN /\ panel' = [panel EXCEPT ![p].draft[n] = Starts(seen[p].snapshot[n])]
          /\ chosen' = chosen \cup Said(n, seen[p].snapshot[n])
     ELSE /\ panel' = [panel EXCEPT ![p].draft[n] = "off"]
          /\ UNCHANGED chosen
  /\ UNCHANGED <<says, row, seen, requests, made, news>>

\* The select beside a ticked tool.
Choose(p, n) ==
  /\ panel[p].open /\ panel[p].draft[n] # "off" /\ seen[p].snapshot[n] # "absent"
  /\ \E e \in {"read", "write", "unchosen"} :
       /\ Allows(seen[p].snapshot[n], e)
       /\ panel' = [panel EXCEPT ![p].draft[n] = e]
       /\ chosen' = chosen \cup {<<n, e>>}
  /\ UNCHANGED <<says, row, seen, requests, made, news>>

Reread(p) ==
  /\ seen' = [seen EXCEPT ![p] = row]
  /\ UNCHANGED <<says, row, panel, requests, made, news, chosen>>

\* One request of a kind at a time on a page: its button is off while it is pending.
CallFor(p, kind, draft) ==
  /\ panel[p].open
  /\ made < MaxCalls /\ made' = made + 1
  /\ \A r \in requests : r.by = p => r.kind # kind
  /\ requests' = requests \cup
       {[by |-> p, kind |-> kind, draft |-> draft, was |-> NotAllowed, at |-> "sent"]}
  /\ UNCHANGED <<says, row, seen, panel, news, chosen>>

\* Every tool ticked has been decided on; all that the draft has is sent.
SaveAllowed(p) ==
  /\ \A n \in Listed : panel[p].draft[n] # "unchosen"
  /\ CallFor(p, "save", panel[p].draft)

FetchAgain(p) == CallFor(p, "fetch", NotAllowed)

-----------------------------------------------------------------------------
(* The API.                                                                 *)

SetAt(r, s) == requests' = (requests \ {r}) \cup {s}

\* PATCH: the list is checked against the row read here.
CheckAllowed(r) ==
  /\ r.kind = "save" /\ r.at = "sent"
  /\ SetAt(r, [r EXCEPT !.at =
       IF \A n \in Listed : r.draft[n] # "off" => Allows(row.snapshot[n], r.draft[n])
       THEN "checked" ELSE "done"])
  /\ UNCHANGED <<says, row, seen, panel, made, news, chosen>>

StoreAllowed(r) ==
  /\ r.kind = "save" /\ r.at = "checked"
  /\ row' = [row EXCEPT !.allowed = r.draft]
  /\ SetAt(r, [r EXCEPT !.at = "done"])
  /\ UNCHANGED <<says, seen, panel, made, news, chosen>>

\* POST /:id/fetch-tools: the row is read, then the server asked.
ReadRow(r) ==
  /\ r.kind = "fetch" /\ r.at = "sent"
  /\ SetAt(r, [r EXCEPT !.at = "reading", !.was = row.allowed])
  /\ UNCHANGED <<says, row, seen, panel, made, news, chosen>>

\* The server's list is stored, with what was allowed and still holds.
StoreList(r) ==
  /\ r.at = "reading"
  /\ row' = [snapshot |-> says,
             allowed |-> [n \in Listed |->
               IF Allows(says[n], r.was[n]) THEN r.was[n] ELSE "off"]]
  /\ SetAt(r, [r EXCEPT !.at = "done"])
  /\ UNCHANGED <<says, seen, panel, made, news, chosen>>

\* A request fails: the server cannot be asked, or the API is not reached.
LoseRequest(r) ==
  /\ r.at \in {"sent", "reading"}
  /\ requests' = requests \ {r}
  /\ UNCHANGED <<says, row, seen, panel, made, news, chosen>>

\* The answer: the page fetches its rows again, and the panel keeps its draft.
HearAnswer(r) ==
  /\ r.at = "done"
  /\ requests' = requests \ {r}
  /\ seen' = [seen EXCEPT ![r.by] = row]
  /\ UNCHANGED <<says, row, panel, made, news, chosen>>

\* The server lists otherwise from now on.
SayOtherwise ==
  /\ news < MaxNews /\ news' = news + 1
  /\ \E n \in Listed, w \in Word : w # says[n] /\ says' = [says EXCEPT ![n] = w]
  /\ UNCHANGED <<row, seen, panel, requests, made, chosen>>

ApprovalsNext ==
  \/ \E p \in Panels : OpenPanel(p) \/ ClosePanel(p) \/ Reread(p) \/ SaveAllowed(p) \/ FetchAgain(p)
  \/ \E p \in Panels, n \in Listed : Tick(p, n) \/ Choose(p, n)
  \/ \E r \in requests : CheckAllowed(r) \/ StoreAllowed(r) \/ ReadRow(r) \/ StoreList(r)
                         \/ LoseRequest(r) \/ HearAnswer(r)
  \/ SayOtherwise

ApprovalsSpec == ApprovalsInit /\ [][ApprovalsNext]_approving

-----------------------------------------------------------------------------
(* Types.                                                                   *)
ApprovalsTypeOK ==
  /\ says \in [Listed -> Word] /\ row.snapshot \in [Listed -> Word]
  /\ row.allowed \in [Listed -> Effect \ {"unchosen"}]
  /\ \A p \in Panels : panel[p].draft \in [Listed -> Effect]
  /\ \A r \in requests : r.draft \in [Listed -> Effect]

(* A tool is allowed only as what an admin chose for it, or what the server *)
(* said of it when it was ticked: there is no default to fall into          *)
(* (ServerTools, toggleTool; the fetch keeps or drops, and adds nothing).   *)
EffectsAreChosen ==
  \A n \in Listed : row.allowed[n] # "off" => <<n, row.allowed[n]>> \in chosen

(* A tool allowed as a read is not one the snapshot says changes things     *)
(* (ADR 0011: a fetch drops approvals that no longer hold).                 *)
ReadsChangeNothing ==
  \A n \in Listed : row.allowed[n] = "read" => row.snapshot[n] # "changes"

(* A panel sends only tools its page shows: one that the server no longer   *)
(* lists stays in the draft, cannot be unticked, and has every save refused *)
(* (ServerTools, draft).                                                    *)
DraftIsOnTheList ==
  \A p \in Panels, n \in Listed :
    panel[p].open /\ panel[p].draft[n] # "off" => seen[p].snapshot[n] # "absent"

(* A save takes back no approval that its page does not show: the list is   *)
(* replaced whole (PATCH /:id).                                             *)
SavesKeepOtherApprovals ==
  [][\A n \in Listed, r \in requests :
       /\ r.at = "checked" /\ r \notin requests'
       /\ row.allowed[n] # "off" /\ row'.allowed[n] = "off"
       => seen[r.by].allowed[n] # "off"]_approving
=============================================================================
