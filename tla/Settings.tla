------------------------------ MODULE Settings ------------------------------
(***************************************************************************)
(* Saving what an admin sets: the workspace's settings, one document read, *)
(* compared, merged and written under a lock on its row (PATCH /workspace),*)
(* a channel's config, merged without one (PATCH /channels/:id), and the   *)
(* pages they are edited on (Settings.tsx), which send their saves of the  *)
(* settings one at a time.  Every edit gives a setting a value of its own, *)
(* so that a value tells who set it.                                       *)
(***************************************************************************)
EXTENDS Naturals, Sequences, FiniteSets

CONSTANTS
  Pages,      \* settings pages open, each an admin's
  Fields,     \* the settings of the document
  MaxEdits,   \* bound: edits made
  MaxLosses   \* bound: answers that never reach their page

ASSUME SettingsAssumption == MaxEdits \in Nat /\ MaxLosses \in Nat

Documents == {"workspace", "config"}

VARIABLES
  document,   \* workspaces.settings, channels.config_encrypted
  saves,    \* saves sent to the API and not over
  line,     \* saveQueue of each page: the saves that wait for their turn
  fields,    \* what each page's fields show
  mine,     \* the values of settings each page has sent
  reloading, \* pages that read the settings again after a conflict
  edits, losses

desk == <<document, saves, line, fields, mine, reloading, edits, losses>>

Values == 0 .. MaxEdits
SavesOf(p) == {s \in saves : s.page = p /\ s.doc = "workspace"}
\* A save whose turn has come is sent before anything else happens on its page.
Due(p) == line[p] # << >> /\ SavesOf(p) = {}
Replace(s, t) == saves' = (saves \ {s}) \cup {t}
Over(s) == saves' = saves \ {s}

\* Pages that were just loaded, of the same documents.
SettingsInit ==
  /\ document = [d \in Documents |-> [f \in Fields |-> 0]]
  /\ saves = {} /\ reloading = {} /\ edits = 0 /\ losses = 0
  /\ line = [p \in Pages |-> << >>]
  /\ fields = [p \in Pages |-> [f \in Fields |-> 0]]
  /\ mine = [p \in Pages |-> {}]

-----------------------------------------------------------------------------
(* The pages.                                                               *)

\* A field of the settings loses focus, changed: its save joins the line.
EditSetting(p, f) ==
  /\ edits < MaxEdits /\ ~Due(p)
  /\ edits' = edits + 1
  /\ line' = [line EXCEPT ![p] = Append(@, [field |-> f, value |-> edits', saw |-> fields[p][f]])]
  /\ UNCHANGED <<document, saves, fields, mine, reloading, losses>>

\* The save whose turn it is takes what the page shows by now as what it expects to replace.
SendSave(p) ==
  /\ Due(p)
  /\ LET next == Head(line[p])
     IN /\ saves' = saves \cup {[page |-> p, doc |-> "workspace", field |-> next.field,
                                 value |-> next.value, saw |-> next.saw,
                                 expected |-> fields[p][next.field], at |-> "sent",
                                 merged |-> document["workspace"]]}
        /\ mine' = [mine EXCEPT ![p] = @ \cup {next.value}]
  /\ line' = [line EXCEPT ![p] = Tail(@)]
  /\ UNCHANGED <<document, fields, reloading, edits, losses>>

\* The form of a channel sends what was typed into it, at once.
SaveChannel(p, f) ==
  /\ edits < MaxEdits
  /\ edits' = edits + 1
  /\ saves' = saves \cup {[page |-> p, doc |-> "config", field |-> f, value |-> edits',
                           saw |-> 0, expected |-> 0, at |-> "sent",
                           merged |-> document["config"]]}
  /\ UNCHANGED <<document, line, fields, mine, reloading, losses>>

\* What was saved is what the page shows of that setting, and of no other; after a conflict
\* it reads them all again.
HearOf(s) ==
  /\ s.at \in {"saved", "refused"}
  /\ Over(s)
  /\ CASE s.doc = "config" -> UNCHANGED <<fields, reloading>>
       [] s.doc = "workspace" /\ s.at = "saved" ->
            fields' = [fields EXCEPT ![s.page][s.field] = s.value] /\ UNCHANGED reloading
       [] OTHER -> reloading' = reloading \cup {s.page} /\ UNCHANGED fields
  /\ UNCHANGED <<document, line, mine, edits, losses>>

\* The answer is lost, and the save with it as far as the page knows.
LoseSaved(s) ==
  /\ s.at \in {"saved", "refused"} /\ losses < MaxLosses
  /\ losses' = losses + 1
  /\ Over(s)
  /\ UNCHANGED <<document, line, fields, mine, reloading, edits>>

\* workspace.refetch: every field is rebuilt from what there is.
ShowAgain(p) ==
  /\ p \in reloading /\ ~Due(p)
  /\ reloading' = reloading \ {p}
  /\ fields' = [fields EXCEPT ![p] = document["workspace"]]
  /\ UNCHANGED <<document, saves, line, mine, edits, losses>>

-----------------------------------------------------------------------------
(* The API.                                                                 *)

(* A slip: the row is read without a lock. *)
LockedNever == FALSE

Locked == \E t \in saves : t.doc = "workspace" /\ t.at = "merged"

\* Under the lock of the row: what the page showed of the setting is what is stored, or the
\* save is refused; the rest of the document is kept as it is read.
MergeSetting(s) ==
  /\ s.doc = "workspace" /\ s.at = "sent" /\ ~Locked
  /\ Replace(s, IF document[s.doc][s.field] = s.expected
                THEN [s EXCEPT !.at = "merged", !.merged = [document[s.doc] EXCEPT ![s.field] = s.value]]
                ELSE [s EXCEPT !.at = "refused"])
  /\ UNCHANGED <<document, line, fields, mine, reloading, edits, losses>>

\* The config is read and what the form sent laid over it.
MergeConfig(s) ==
  /\ s.doc = "config" /\ s.at = "sent"
  /\ Replace(s, [s EXCEPT !.at = "merged", !.merged = [document[s.doc] EXCEPT ![s.field] = s.value]])
  /\ UNCHANGED <<document, line, fields, mine, reloading, edits, losses>>

\* The whole document is written; the settings' transaction ends with it.
WriteDocument(s) ==
  /\ s.at = "merged"
  /\ document' = [document EXCEPT ![s.doc] = s.merged]
  /\ Replace(s, [s EXCEPT !.at = "saved"])
  /\ UNCHANGED <<line, fields, mine, reloading, edits, losses>>

\* The API dies, and the transaction is rolled back.
AbandonSave(s) ==
  /\ s.at \in {"sent", "merged"} /\ losses < MaxLosses
  /\ losses' = losses + 1
  /\ Over(s)
  /\ UNCHANGED <<document, line, fields, mine, reloading, edits>>

SettingsNext ==
  \/ \E p \in Pages : \/ SendSave(p) \/ ShowAgain(p)
                      \/ \E f \in Fields : EditSetting(p, f) \/ SaveChannel(p, f)
  \/ \E s \in saves : \/ HearOf(s) \/ LoseSaved(s) \/ MergeSetting(s) \/ MergeConfig(s)
                      \/ WriteDocument(s) \/ AbandonSave(s)

SettingsSpec == SettingsInit /\ [][SettingsNext]_desk

-----------------------------------------------------------------------------
Documented == [Fields -> Values]

(* Documents, pages and saves hold values somebody set.                     *)
SettingsTypeOK ==
  /\ document \in [Documents -> Documented]
  /\ saves \subseteq [page : Pages, doc : Documents, field : Fields, value : Values,
                      saw : Values, expected : Values,
                      at : {"sent", "merged", "saved", "refused"}, merged : Documented]
  /\ line \in [Pages -> Seq([field : Fields, value : Values, saw : Values])]
  /\ fields \in [Pages -> Documented] /\ mine \in [Pages -> SUBSET Values]
  /\ reloading \subseteq Pages /\ edits \in Values /\ losses \in 0 .. MaxLosses

(* Two admins who save at once lose each other nothing: a save changes the  *)
(* one setting it is about, and replaces there what its page showed when it *)
(* was sent (settings.ts, PATCH /workspace: the lock, and `expected`).      *)
SavesReplaceOnlyWhatWasShown ==
  [][\A f \in Fields : document'["workspace"][f] # document["workspace"][f] =>
       \E s \in saves : /\ s \notin saves' /\ s.doc = "workspace" /\ s.field = f
                        /\ document["workspace"][f] = s.expected]_desk

(* "The lock stops two saves losing each other's fields, but not somebody   *)
(* overwriting a value they never saw", which is what `expected` is for     *)
(* (settings.ts:234-238): a save replaces what the admin saw while editing, *)
(* or what the page itself has saved since.                                 *)
EditsReplaceOnlyWhatWasSeen ==
  [][\A s \in saves :
       s \notin saves' /\ s.doc = "workspace" /\ s.at = "merged" /\ document' # document
       => document["workspace"][s.field] \in {s.saw} \cup mine[s.page]]_desk

(* A form that sends the fields somebody edited leaves the others alone:    *)
(* "Merged, not replaced" (settings.ts, PATCH /channels/:id).               *)
FormsKeepOtherFields ==
  [][\A s \in saves :
       s \notin saves' /\ s.doc = "config" /\ s.at = "merged" /\ document' # document
       => \A f \in Fields \ {s.field} : document'["config"][f] = document["config"][f]]_desk
=============================================================================
