----------------------------- MODULE Knowledge -----------------------------
(***************************************************************************)
(* One knowledge source, the entries an agent edits, and the ingest jobs   *)
(* that turn them into what retrieval quotes.  A question or an article    *)
(* has one entry, indexed in place (indexEntry); a file's entry is made    *)
(* anew from the file by every job (replaceFileSource).  Two jobs run at a *)
(* time, each fails and is tried again up to MaxTries times.               *)
(***************************************************************************)
EXTENDS Integers, FiniteSets

CONSTANTS
  Kinds,      \* the kinds of source considered: "qa", "file"
  MaxJobs,    \* bound: ingest jobs queued, numbered in the order they are
  Editors,    \* agents with the entry open
  Changes,    \* what a save changes: "text", "tags", "disable", "enable"
  MaxTries    \* attempts of a job (DEFAULT_JOB_OPTIONS)

ASSUME KnowledgeAssumption == MaxTries \in Nat \ {0} /\ MaxJobs \in Nat \ {0}

VARIABLES
  kind,     \* of the source, or "gone" once it was deleted
  status,   \* what the knowledge screen shows of it
  entries,  \* its rows: what was saved, and the text in their chunks
  saves,    \* counts saves: each one's updated_at
  rows,     \* counts the entries made
  ingest,   \* the jobs
  editing   \* the entry and the revision each agent's editor was loaded with

knowledge == <<kind, status, entries, saves, rows, ingest, editing>>

IngestJobs == 1 .. MaxJobs
Nothing == -1                  \* no chunks
NoEditor == [id |-> 0, revision |-> 0]
Unqueued == [at |-> "none", tries |-> 0, id |-> 0, text |-> 0, enabled |-> FALSE, sees |-> {}]
Queued == [Unqueued EXCEPT !.at = "queued"]

NewEntry(id, chunks, indexed) == [id |-> id, text |-> 0, enabled |-> TRUE, revision |-> saves,
                                  indexed |-> indexed, chunks |-> chunks]

\* A source exists from the commit that promises its first job; a question has its entry then.
KnowledgeInit ==
  /\ kind \in Kinds
  /\ status = "pending"
  /\ saves = 0
  /\ rows = IF kind = "qa" THEN 1 ELSE 0
  /\ entries = IF kind = "qa" THEN {NewEntry(1, Nothing, -1)} ELSE {}
  /\ ingest = [j \in IngestJobs |-> IF j = 1 THEN Queued ELSE Unqueued]
  /\ editing = [u \in Editors |-> NoEditor]

Running == {j \in IngestJobs : ingest[j].at \notin {"none", "queued", "done", "dead"}}
NextJob(j) == ingest[j].at = "none" /\ \A i \in 1 .. (j - 1) : ingest[i].at # "none"
\* A job that needs what it read no longer.
Leave(j, at) == ingest' = [ingest EXCEPT ![j] = [Unqueued EXCEPT !.at = at, !.tries = ingest[j].tries]]
Show(s) == status' = IF kind = "gone" THEN status ELSE s
Rewrite(e, f) == entries' = (entries \ {e}) \cup {f}

-----------------------------------------------------------------------------
(* The console.                                                             *)

OpenEditor(u) ==
  /\ editing[u] = NoEditor
  /\ \E e \in entries : editing' = [editing EXCEPT ![u] = [id |-> e.id, revision |-> e.revision]]
  /\ UNCHANGED <<kind, status, entries, saves, rows, ingest>>

\* A save and the promise of its job are one commit; it is refused when the entry is gone
\* or was saved since the editor loaded it.
SaveEntry(u, change) ==
  /\ editing[u] # NoEditor
  /\ editing' = [editing EXCEPT ![u] = NoEditor]
  /\ IF \E e \in entries : e.id = editing[u].id /\ e.revision = editing[u].revision
     THEN \E e \in entries, j \in IngestJobs :
            /\ e.id = editing[u].id
            /\ NextJob(j)
            /\ saves' = saves + 1
            /\ Rewrite(e, [e EXCEPT !.revision = saves',
                             !.text = IF change = "text" THEN saves' ELSE @,
                             !.enabled = (change = "enable") \/ (@ /\ change # "disable")])
            /\ ingest' = [ingest EXCEPT ![j] = Queued]
     ELSE UNCHANGED <<entries, saves, ingest>>
  /\ UNCHANGED <<kind, status, rows>>

\* The reindex button, and the second click on it.
Reindex(j) ==
  /\ kind # "gone" /\ NextJob(j)
  /\ ingest' = [ingest EXCEPT ![j] = Queued]
  /\ UNCHANGED <<kind, status, entries, saves, rows, editing>>

DeleteSource ==
  /\ kind # "gone"
  /\ \A j \in IngestJobs : ingest[j].at # "locked"
  /\ kind' = "gone" /\ entries' = {}
  /\ UNCHANGED <<status, saves, rows, ingest, editing>>

-----------------------------------------------------------------------------
(* A job.                                                                   *)

StartIngest(j) ==
  /\ ingest[j].at = "queued"
  /\ Cardinality(Running) < 2
  /\ IF kind = "gone"
     THEN Leave(j, "done")
     ELSE ingest' = [ingest EXCEPT ![j].at = "started"]
  /\ Show("processing")
  /\ UNCHANGED <<kind, entries, saves, rows, editing>>

\* indexSource lists the entries and indexEntry reads one: the text this run is about.
ReadEntry(j) ==
  /\ ingest[j].at = "started" /\ kind # "file"
  /\ IF entries = {}
     THEN Leave(j, "indexed")
     ELSE \E e \in entries :
            ingest' = [ingest EXCEPT ![j].at = IF e.enabled THEN "read" ELSE "read off",
                                     ![j].id = e.id, ![j].text = e.text,
                                     ![j].enabled = e.enabled]
  /\ UNCHANGED <<kind, status, entries, saves, rows, editing>>

\* A disabled entry loses its chunks, without a lock or a second look at it ...
ClearChunks(j) ==
  /\ ingest[j].at = "read off"
  /\ entries' = {IF e.id = ingest[j].id THEN [e EXCEPT !.chunks = Nothing] ELSE e : e \in entries}
  /\ ingest' = [ingest EXCEPT ![j].at = "cleared"]
  /\ UNCHANGED <<kind, status, saves, rows, editing>>

(* A slip: the entry is still there, whatever it says by now. *)
SameEntry(j, e) == e.id = ingest[j].id

SameAsRead(j, e) == e.id = ingest[j].id /\ e.text = ingest[j].text /\ e.enabled = ingest[j].enabled
Mark(e) == [e EXCEPT !.indexed = e.revision]

\* ... and its revision is marked as indexed if it still is what was read (markIndexed).
MarkCleared(j) ==
  /\ ingest[j].at = "cleared"
  /\ entries' = {IF SameAsRead(j, e) THEN Mark(e) ELSE e : e \in entries}
  /\ Leave(j, "indexed")
  /\ UNCHANGED <<kind, status, saves, rows, editing>>

\* The provider embeds the text, or the file is fetched, parsed and embedded.
Embed(j) ==
  /\ \/ ingest[j].at = "read"
     \/ ingest[j].at = "started" /\ kind = "file"
  /\ ingest' = [ingest EXCEPT ![j].at = "embedded"]
  /\ UNCHANGED <<kind, status, entries, saves, rows, editing>>

\* The chunks are replaced under the entry's lock, unless it changed since it was read.
SwapChunks(j) ==
  /\ ingest[j].at = "embedded" /\ kind # "file"
  /\ entries' = {IF SameAsRead(j, e) /\ e.enabled THEN Mark([e EXCEPT !.chunks = ingest[j].text])
                 ELSE e : e \in entries}
  /\ Leave(j, "indexed")
  /\ UNCHANGED <<kind, status, saves, rows, editing>>

\* replaceFileSource: the source's row is locked, and what it holds then is replaced.
LockSource(j) ==
  /\ ingest[j].at = "embedded" /\ kind = "file"
  /\ \A i \in IngestJobs : ingest[i].at # "locked"
  /\ ingest' = [ingest EXCEPT ![j].at = "locked", ![j].sees = {e.id : e \in entries}]
  /\ UNCHANGED <<kind, status, entries, saves, rows, editing>>

ReplaceEntry(j) ==
  /\ ingest[j].at = "locked"
  /\ rows' = rows + 1
  /\ entries' = {e \in entries : e.id \notin ingest[j].sees} \cup {NewEntry(rows', 0, saves)}
  /\ Leave(j, "indexed")
  /\ Show("ready")
  /\ UNCHANGED <<kind, saves, editing>>

FinishIngest(j) ==
  /\ ingest[j].at = "indexed"
  /\ ingest' = [ingest EXCEPT ![j] = [Unqueued EXCEPT !.at = "done"]]
  /\ Show("ready")
  /\ UNCHANGED <<kind, entries, saves, rows, editing>>

(* A slip: a job is tried again for ever. *)
FailIngestForEver(j) ==
  /\ j \in Running
  /\ ingest' = [ingest EXCEPT ![j] = [Queued EXCEPT !.tries = ingest[j].tries + 1]]
  /\ Show("failed")
  /\ UNCHANGED <<kind, entries, saves, rows, editing>>

(* A slip: a failure is only logged, and the job is over. *)
FailIngestUnnoticed(j) ==
  /\ j \in Running
  /\ ingest' = [ingest EXCEPT ![j] = [Unqueued EXCEPT !.at = "done"]]
  /\ UNCHANGED <<kind, status, entries, saves, rows, editing>>

\* The store, the provider or the database fails: shown on the source, and tried again.
FailIngest(j) ==
  /\ j \in Running
  /\ ingest' = [ingest EXCEPT ![j] =
       IF ingest[j].tries + 1 < MaxTries THEN [Queued EXCEPT !.tries = ingest[j].tries + 1]
       ELSE [Unqueued EXCEPT !.at = "dead"]]
  /\ Show("failed")
  /\ UNCHANGED <<kind, entries, saves, rows, editing>>

\* A document that cannot be read is shown as such and not tried again.
Unreadable(j) ==
  /\ ingest[j].at = "started" /\ kind = "file"
  /\ ingest' = [ingest EXCEPT ![j] = [Unqueued EXCEPT !.at = "dead"]]
  /\ Show("failed")
  /\ UNCHANGED <<kind, entries, saves, rows, editing>>

IngestStep(j) ==
  \/ StartIngest(j) \/ ReadEntry(j) \/ ClearChunks(j) \/ MarkCleared(j) \/ Embed(j)
  \/ SwapChunks(j) \/ LockSource(j) \/ ReplaceEntry(j) \/ FinishIngest(j)

KnowledgeNext ==
  \/ \E u \in Editors : OpenEditor(u) \/ \E change \in Changes : SaveEntry(u, change)
  \/ \E j \in IngestJobs : Reindex(j) \/ IngestStep(j) \/ FailIngest(j) \/ Unreadable(j)
  \/ DeleteSource

KnowledgeSpec == KnowledgeInit /\ [][KnowledgeNext]_knowledge
\* A worker goes on with a job it has, and takes the next when it has room.
KnowledgeFairness == \A j \in IngestJobs : WF_knowledge(IngestStep(j))

-----------------------------------------------------------------------------
(* Every row and every job holds what its type allows.                      *)
EntryRows == [id : Nat, text : Nat, enabled : BOOLEAN, revision : Nat,
              indexed : Nat \cup {-1}, chunks : Nat \cup {Nothing}]
KnowledgeTypeOK ==
  /\ kind \in Kinds \cup {"gone"}
  /\ status \in {"pending", "processing", "ready", "failed"}
  /\ entries \subseteq EntryRows
  /\ saves \in Nat /\ rows \in Nat
  /\ ingest \in [IngestJobs ->
       [at : {"none", "queued", "started", "read", "read off", "cleared", "embedded",
              "locked", "indexed", "done", "dead"},
        tries : 0 .. MaxTries, id : Nat, text : Nat, enabled : BOOLEAN, sees : SUBSET Nat]]
  /\ editing \in [Editors -> [id : Nat, revision : Nat]]

(* Two jobs a second apart: the one that read the older text may finish     *)
(* last, and never puts it back (knowledge.ts:101-107).                     *)
OldTextStaysOut ==
  [][\A e \in entries, f \in entries' :
       e.id = f.id /\ f.chunks \notin {e.chunks, Nothing} => f.chunks = f.text /\ f.enabled]_knowledge

(* A double click or a retry over the original leaves a document indexed    *)
(* once (knowledge.ts:177-183).                                             *)
OneEntryPerSource == Cardinality(entries) <= 1

(* What is marked as indexed is what retrieval finds: the screen says       *)
(* "ready" of an enabled entry only when its text is in the chunks.         *)
IndexedIsFindable ==
  \A e \in entries : e.indexed = e.revision =>
    e.chunks = IF e.enabled THEN e.text ELSE Nothing

(* Every save is followed by its text reaching retrieval, or by a job that  *)
(* failed for good and shows it (routes/knowledge.ts:25-26).                *)
EditsReachRetrieval ==
  (\E e \in entries : e.indexed # e.revision) ~>
    \/ \A e \in entries : e.indexed = e.revision
    \/ \E j \in IngestJobs : ingest[j].at = "dead"

(* Only a save changes what an entry says or whether it is used: the job a  *)
(* save queued does not undo it.                                            *)
OnlySavesChangeAnswers ==
  [][\A e \in entries, f \in entries' :
       f.text # e.text \/ f.enabled # e.enabled => saves' # saves]_knowledge
=============================================================================
