-------------------------------- MODULE Files --------------------------------
(***************************************************************************)
(* Stored files and the rows that name them, in two systems with no        *)
(* transaction between them: what customers send (resolveInboundMedia),    *)
(* what agents upload, knowledge documents; the nightly retention sweep;   *)
(* blob_deletions, the queue of files to remove; and the erasure of the    *)
(* whole workspace.  A conversation deleted takes its messages, and the    *)
(* workspace everything.                                                   *)
(***************************************************************************)
EXTENDS Naturals, FiniteSets

CONSTANTS
  Media,         \* files customers send, each named by the event it came in
  Uploads,       \* files agents pick in the composer
  Documents,     \* files uploaded as knowledge
  Conversations,
  In,            \* the conversation each of Media and Uploads belongs to
  MaxErasing     \* attempts of the erasure's job

Keys == Media \cup Uploads \cup Documents

ASSUME FilesAssumption ==
  /\ In \in [Media \cup Uploads -> Conversations]
  /\ MaxErasing \in Nat
  /\ Media \cap Uploads = {} /\ Media \cap Documents = {} /\ Uploads \cap Documents = {}

VARIABLES
  workspace, \* its status; "gone" once its rows are deleted
  stored,    \* the objects in the store
  writer,    \* how far whoever brings each file has come
  named,     \* files a row names: a message's attachment, a source's document
  due,       \* blob_deletions
  removed,   \* of those, removed by a pass that is about to forget them
  aged,      \* uploads the store has held for a day
  quiet,     \* conversations whose last message is older than retention allows
  sweep,     \* the nightly job: where it is and what it has read
  erasure    \* workspace_erasures, and the attempt at it that is under way

files == <<workspace, stored, writer, named, due, removed, aged, quiet, sweep, erasure>>

SweepIdle == [at |-> "idle", stale |-> {}, listed |-> {}]
NotErased == [at |-> "none", tries |-> 0, keys |-> {}, left |-> {}, rowsDeleted |-> FALSE]

FilesInit ==
  /\ workspace = "active"
  /\ stored = {} /\ named = {} /\ due = {} /\ removed = {} /\ aged = {} /\ quiet = {}
  /\ writer = [k \in Keys |-> "ahead"]
  /\ sweep = SweepIdle
  /\ erasure = NotErased

Hold(k, s) == writer' = [writer EXCEPT ![k] = s]
\* A row is written while the workspace still has rows; that the workspace was closed
\* meanwhile is not looked at again.
NameIt(k) ==
  /\ named' = named \cup {k}
  /\ Hold(k, IF workspace = "active" THEN "named" ELSE "named late")

-----------------------------------------------------------------------------
(* Whoever brings a file.                                                   *)

\* The inbound job finds the workspace active, then fetches and stores what the customer sent.
TakeMedia(k) ==
  /\ writer[k] = "ahead" /\ workspace = "active"
  /\ Hold(k, "taken")
  /\ UNCHANGED <<workspace, stored, named, due, removed, aged, quiet, sweep, erasure>>

PutMedia(k) ==
  /\ writer[k] = "taken"
  /\ stored' = stored \cup {k}
  /\ Hold(k, "put")
  /\ UNCHANGED <<workspace, named, due, removed, aged, quiet, sweep, erasure>>

\* The message is stored: its conversation, made again if retention took it, is no longer
\* quiet.  After the workspace's rows are gone it cannot be stored at all.
StoreMedia(k) ==
  /\ writer[k] = "put" /\ workspace # "gone"
  /\ NameIt(k)
  /\ quiet' = quiet \ {In[k]}
  /\ UNCHANGED <<workspace, stored, due, removed, aged, sweep, erasure>>

\* The worker dies or the job fails; the retry stores the same key again.
RetryMedia(k) ==
  /\ writer[k] \in {"taken", "put"}
  /\ Hold(k, "ahead")
  /\ UNCHANGED <<workspace, stored, named, due, removed, aged, quiet, sweep, erasure>>

PutUpload(k) ==
  /\ writer[k] = "ahead" /\ workspace = "active"
  /\ stored' = stored \cup {k}
  /\ Hold(k, "put")
  /\ UNCHANGED <<workspace, named, due, removed, aged, quiet, sweep, erasure>>

\* The agent sends the message the file was picked for, within the day ...
SendUpload(k) ==
  /\ writer[k] = "put" /\ workspace = "active" /\ k \notin aged
  /\ NameIt(k)
  /\ quiet' = quiet \ {In[k]}
  /\ UNCHANGED <<workspace, stored, due, removed, aged, sweep, erasure>>

\* ... or thinks better of it.
DropUpload(k) ==
  /\ writer[k] = "put"
  /\ Hold(k, "dropped")
  /\ UNCHANGED <<workspace, stored, named, due, removed, aged, quiet, sweep, erasure>>

\* A document is stored first, its source and the promise to index it are one commit after.
PutDocument(k) ==
  /\ writer[k] = "ahead" /\ workspace = "active"
  /\ stored' = stored \cup {k}
  /\ Hold(k, "put")
  /\ UNCHANGED <<workspace, named, due, removed, aged, quiet, sweep, erasure>>

CreateSource(k) ==
  /\ writer[k] = "put" /\ workspace # "gone"
  /\ NameIt(k)
  /\ UNCHANGED <<workspace, stored, due, removed, aged, quiet, sweep, erasure>>

\* deleteSource: the source goes and its file becomes due in one commit.
DeleteDocument(k) ==
  /\ k \in named /\ workspace = "active"
  /\ named' = named \ {k}
  /\ due' = due \cup {k}
  /\ UNCHANGED <<workspace, stored, writer, removed, aged, quiet, sweep, erasure>>

-----------------------------------------------------------------------------
(* Removal: drainBlobDeletions, right after a delete and every night.       *)

RemoveObject(k) ==
  /\ k \in due \ removed
  /\ stored' = stored \ {k}
  /\ removed' = removed \cup {k}
  /\ UNCHANGED <<workspace, writer, named, due, aged, quiet, sweep, erasure>>

ForgetRemoval(k) ==
  /\ k \in removed
  /\ due' = due \ {k}
  /\ removed' = removed \ {k}
  /\ UNCHANGED <<workspace, stored, writer, named, aged, quiet, sweep, erasure>>

\* The process dies between the two: the row is still there for the next night.
DieRemoving(k) ==
  /\ k \in removed
  /\ removed' = removed \ {k}
  /\ UNCHANGED <<workspace, stored, writer, named, due, aged, quiet, sweep, erasure>>

-----------------------------------------------------------------------------
(* The nightly sweep.                                                       *)

\* Time passes: a conversation falls quiet, an upload turns a day old.
FallQuiet(c) ==
  /\ c \notin quiet
  /\ quiet' = quiet \cup {c}
  /\ UNCHANGED <<workspace, stored, writer, named, due, removed, aged, sweep, erasure>>

GrowOld(k) ==
  /\ k \in stored \ aged
  /\ aged' = aged \cup {k}
  /\ UNCHANGED <<workspace, stored, writer, named, due, removed, quiet, sweep, erasure>>

\* runRetention reads which conversations are past their time ...
ReadStale ==
  /\ sweep.at = "idle" /\ workspace = "active"
  /\ sweep' = [SweepIdle EXCEPT !.at = "read", !.stale = quiet]
  /\ UNCHANGED <<workspace, stored, writer, named, due, removed, aged, quiet, erasure>>

(* A slip: the rows go, and nobody is told of their files. *)
PurgeRows ==
  /\ sweep.at = "read"
  /\ named' = {k \in named : k \in Documents \/ In[k] \notin sweep.stale}
  /\ sweep' = [sweep EXCEPT !.at = "purged", !.stale = {}]
  /\ UNCHANGED <<workspace, stored, writer, due, removed, aged, quiet, erasure>>

\* ... and purgeConversations deletes them, their files due in the same commit, whether or
\* not a message has arrived since.
Purge ==
  /\ sweep.at = "read"
  /\ LET gone == {k \in named \ Documents : In[k] \in sweep.stale}
     IN /\ due' = due \cup gone
        /\ named' = named \ gone
  /\ sweep' = [sweep EXCEPT !.at = "purged", !.stale = {}]
  /\ UNCHANGED <<workspace, stored, writer, removed, aged, quiet, erasure>>

\* queueAbandonedUploads lists the store ...
ListUploads ==
  /\ sweep.at = "purged"
  /\ sweep' = [sweep EXCEPT !.at = "listed", !.listed = stored \cap Uploads \cap aged]
  /\ UNCHANGED <<workspace, stored, writer, named, due, removed, aged, quiet, erasure>>

\* ... and asks which of those a message names.  Nothing is queued for a workspace that
\* has no row any more.
QueueAbandoned ==
  /\ sweep.at = "listed"
  /\ due' = IF workspace = "gone" THEN due ELSE due \cup (sweep.listed \ named)
  /\ sweep' = SweepIdle
  /\ UNCHANGED <<workspace, stored, writer, named, removed, aged, quiet, erasure>>

SweepDies ==
  /\ sweep.at # "idle"
  /\ sweep' = SweepIdle
  /\ UNCHANGED <<workspace, stored, writer, named, due, removed, aged, quiet, erasure>>

-----------------------------------------------------------------------------
(* Suspension, and the erasure of the workspace.                            *)

Suspend ==
  /\ workspace = "active"
  /\ workspace' = "suspended"
  /\ UNCHANGED <<stored, writer, named, due, removed, aged, quiet, sweep, erasure>>

Unsuspend ==
  /\ workspace = "suspended"
  /\ workspace' = "active"
  /\ UNCHANGED <<stored, writer, named, due, removed, aged, quiet, sweep, erasure>>

\* The status, the record and the job are one commit.
RequestErasure ==
  /\ workspace \in {"active", "suspended"}
  /\ workspace' = "deleting"
  /\ erasure' = [NotErased EXCEPT !.at = "queued"]
  /\ UNCHANGED <<stored, writer, named, due, removed, aged, quiet, sweep>>

\* eraseWorkspace: the keys every row names, and those already due, written to the record
\* before the rows go; an attempt that finds the rows gone takes what was recorded.
CollectKeys ==
  /\ erasure.at = "queued"
  /\ erasure' =
       IF erasure.rowsDeleted \/ workspace = "gone"
       THEN [erasure EXCEPT !.at = "deleted", !.left = erasure.keys]
       ELSE [erasure EXCEPT !.at = "collected", !.left = named \cup due]
  /\ UNCHANGED <<workspace, stored, writer, named, due, removed, aged, quiet, sweep>>

RecordKeys ==
  /\ erasure.at = "collected"
  /\ erasure' = [erasure EXCEPT !.at = "recorded", !.keys = erasure.left]
  /\ UNCHANGED <<workspace, stored, writer, named, due, removed, aged, quiet, sweep>>

\* The delete of the organization cascades to every row of the workspace.
DeleteRows ==
  /\ erasure.at = "recorded"
  /\ workspace' = "gone"
  /\ named' = {} /\ due' = {} /\ removed' = {}
  /\ erasure' = [erasure EXCEPT !.at = "deleted"]
  /\ UNCHANGED <<stored, writer, aged, quiet, sweep>>

MarkDeleted ==
  /\ erasure.at = "deleted"
  /\ erasure' = [erasure EXCEPT !.at = "removing", !.rowsDeleted = TRUE]
  /\ UNCHANGED <<workspace, stored, writer, named, due, removed, aged, quiet, sweep>>

\* The objects are removed one by one, some of them perhaps not, and the record keeps those
\* that were not: with none left the erasure is complete, otherwise the job fails.
RemoveMedia ==
  /\ erasure.at = "removing"
  /\ \E failed \in SUBSET erasure.left :
       /\ stored' = stored \ (erasure.left \ failed)
       /\ erasure' = [erasure EXCEPT !.at = "removed", !.left = failed]
  /\ UNCHANGED <<workspace, writer, named, due, removed, aged, quiet, sweep>>

CompleteErasure ==
  /\ erasure.at = "removed"
  /\ LET after == [erasure EXCEPT !.keys = erasure.left, !.left = {}]
     IN erasure' = IF erasure.left = {} THEN [after EXCEPT !.at = "complete"]
                   ELSE IF erasure.tries + 1 < MaxErasing
                   THEN [after EXCEPT !.at = "queued", !.tries = @ + 1]
                   ELSE [after EXCEPT !.at = "given up"]
  /\ UNCHANGED <<workspace, stored, writer, named, due, removed, aged, quiet, sweep>>

\* The worker dies at any step, or the database fails: the job is tried again.
EraserDies ==
  /\ erasure.at \in {"collected", "recorded", "deleted", "removing", "removed"}
  /\ erasure' = IF erasure.tries + 1 < MaxErasing
                THEN [erasure EXCEPT !.at = "queued", !.tries = @ + 1, !.left = {}]
                ELSE [erasure EXCEPT !.at = "given up", !.left = {}]
  /\ UNCHANGED <<workspace, stored, writer, named, due, removed, aged, quiet, sweep>>

EraserStep == \/ CollectKeys \/ RecordKeys \/ DeleteRows \/ MarkDeleted
              \/ RemoveMedia \/ CompleteErasure

FilesNext ==
  \/ \E k \in Media : TakeMedia(k) \/ PutMedia(k) \/ StoreMedia(k) \/ RetryMedia(k)
  \/ \E k \in Uploads : PutUpload(k) \/ SendUpload(k) \/ DropUpload(k) \/ GrowOld(k)
  \/ \E k \in Documents : PutDocument(k) \/ CreateSource(k) \/ DeleteDocument(k)
  \/ \E k \in Keys : RemoveObject(k) \/ ForgetRemoval(k) \/ DieRemoving(k)
  \/ \E c \in Conversations : FallQuiet(c)
  \/ ReadStale \/ Purge \/ ListUploads \/ QueueAbandoned \/ SweepDies
  \/ Suspend \/ Unsuspend \/ RequestErasure \/ EraserStep \/ EraserDies

FilesSpec == FilesInit /\ [][FilesNext]_files

-----------------------------------------------------------------------------
(* Every variable holds what its table, its store or its process can hold.  *)
FilesTypeOK ==
  /\ workspace \in {"active", "suspended", "deleting", "gone"}
  /\ stored \subseteq Keys /\ named \subseteq Keys /\ due \subseteq Keys
  /\ removed \subseteq due /\ aged \subseteq Uploads /\ quiet \subseteq Conversations
  /\ writer \in [Keys -> {"ahead", "taken", "put", "named", "named late", "dropped"}]
  /\ sweep \in [at : {"idle", "read", "purged", "listed"}, stale : SUBSET Conversations,
                listed : SUBSET Uploads]
  /\ erasure \in [at : {"none", "queued", "collected", "recorded", "deleted", "removing",
                        "removed", "complete", "given up"},
                  tries : Nat, keys : SUBSET Keys, left : SUBSET Keys, rowsDeleted : BOOLEAN]

(* A row never names a file that is not there, which would be a broken      *)
(* conversation in front of an agent (retention.ts:18-20).                  *)
NamedFilesExist == named \subseteq stored

(* A file some row named while the workspace was open is named still, or    *)
(* due for removal, or on the record of the erasure, until it is gone:      *)
(* whatever dies between the steps, somebody knows of it.                   *)
FilesAreAccountedFor ==
  \A k \in stored : writer[k] = "named" => k \in named \cup due \cup erasure.keys

(* A completed erasure has removed every file a row named before the        *)
(* workspace was closed.                                                    *)
ErasureRemovesFiles ==
  erasure.at = "complete" => \A k \in stored : writer[k] # "named"

(* Once the workspace is closed nothing new is written, so that nothing of  *)
(* it is left in the store by a completed erasure (platform.ts:125-127).    *)
NothingOutlivesErasure == erasure.at = "complete" => stored = {}
=============================================================================
